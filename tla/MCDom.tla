------------------------------- MODULE MCDom -------------------------------
(* A heap of a few addresses for TLC; they are interchangeable. *)
EXTENDS Dom, TLC

Symmetry == Permutations(Nodes)
=============================================================================
