------------------------------- MODULE MCTask --------------------------------
(* Task with a few tasks of each kind, which are interchangeable. *)
EXTENDS Task, TLC

Symmetry == Permutations(Required) \cup Permutations(Tasks \ Required)
==============================================================================
