---------------------------- MODULE MCMediaJobs ----------------------------
(* Model-checking instances of MediaJobs. *)
EXTENDS MediaJobs, TLC

MCStamps == 1..7

MCSymmetry == Permutations(Workers)
=============================================================================
