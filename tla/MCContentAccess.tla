---- MODULE MCContentAccess ----
\* Small instances of ContentAccess for TLC.
EXTENDS ContentAccess, TLC
====
