---- MODULE MCUploadIngest ----
\* Small instances of UploadIngest for TLC.
EXTENDS UploadIngest, TLC

Symmetry == Permutations(Calls)
====
