------------------------- MODULE MCA2ARefinement -------------------------
(* Small instances of the remote refinements for TLC. *)
EXTENDS A2ARefinement, TLC

\* Executions are interchangeable.
Symmetry == Permutations(Executions)
=============================================================================
