------------------------- MODULE MCTaskProgression -------------------------
(* Small instances of task progression for TLC. *)
EXTENDS TaskProgression

\* A plain task: one recommendation, then the actions of its plan.
Plain == <<"advice", "file", "shell", "file">>

\* A pipeline: the actions of workers follow their orchestration plan.
Pipeline == <<"plan", "file", "shell">>
=============================================================================
