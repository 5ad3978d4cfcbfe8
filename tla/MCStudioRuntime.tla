---- MODULE MCStudioRuntime ----
\* Small instances of StudioRuntime for TLC.
EXTENDS StudioRuntime, TLC
====
