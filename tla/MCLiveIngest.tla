---- MODULE MCLiveIngest ----
\* Small instances of LiveIngest for TLC.
EXTENDS LiveIngest, TLC

Symmetry == Permutations(Clients)
====
