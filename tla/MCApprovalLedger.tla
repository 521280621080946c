-------------------------- MODULE MCApprovalLedger --------------------------
(* Small instances of the approval ledger for TLC. *)
EXTENDS ApprovalLedger, TLC

\* Calls are interchangeable, and so are the contents of actions.
Symmetry == Permutations(Tokens) \cup Permutations(Actions)
=============================================================================
