---------------------------- MODULE MCRepairLoop ----------------------------
(* An instance of RepairLoop for TLC. *)
EXTENDS RepairLoop, Naturals

\* One checker that fails in two ways, and a gate that passes.
Failed(signature) ==
  [status |-> "failed",
   failure |-> [checkers |-> TRUE, details |-> TRUE, basis |-> "b", base |-> "x",
                signature |-> signature]]

Results == {Failed("x1"), Failed("x2"), [status |-> "passed", failure |-> Unverifiable]}

\* A repair is words only, or one action.
OneAction == {{}, {"check"}}
=============================================================================
