---- MODULE MCEditorProject ----
\* Small instances of EditorProject for TLC.
EXTENDS EditorProject, TLC
Symmetry == Permutations(Requests)
====
