--------------------------- MODULE MCWorkerRunner ---------------------------
(***************************************************************************)
(* Plans for model checking WorkerRunner.                                  *)
(***************************************************************************)
EXTENDS WorkerRunner

\* Worker 1, then 2 and 3 side by side, then 4.
Diamond == <<{}, {1}, {1}, {2, 3}>>

\* Two workers side by side, and one behind the first.
Branch == <<{}, {}, {1}>>

Back(trigger, target, retry, max) ==
  [trigger |-> trigger, target |-> target, retry |-> retry, max |-> max]

DiamondRules == {Back("step_failed", 1, 3, 1), Back("quality_failed", 1, 4, 1)}
BranchRules == {Back("step_failed", 1, 3, 1), Back("quality_failed", 1, 3, 1)}
=============================================================================
