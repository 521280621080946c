--------------------------- MODULE TaskRunStatus ---------------------------
(***************************************************************************)
(* The canonical TaskRun state machine of packages/core: the nine statuses *)
(* and the transition table every status write goes through.               *)
(***************************************************************************)

TaskStatus == {"drafting", "waiting_for_approval", "running", "paused", "blocked",
               "quality_failed", "ready_for_review", "done", "cancelled"}

\* The statuses the SQL guards of the approval ledger call terminal.
Closed == {"done", "cancelled"}

\* Statuses that work, a failure or a gate may move an open task to.
LOCAL Working == {"waiting_for_approval", "running", "quality_failed",
                  "ready_for_review", "cancelled"}

\* ALLOWED_TRANSITIONS[from]: what a status may be replaced by, itself included.
AllowedFrom(from) ==
  CASE from \in {"waiting_for_approval", "running"} -> Working \cup {"paused", "blocked"}
    [] from \in {"drafting", "paused", "blocked", "quality_failed"} ->
         Working \cup {from, "blocked"}
    [] from = "ready_for_review" -> Working \cup {"done"}
    [] from = "done" -> {"done", "waiting_for_approval"}
    [] from = "cancelled" -> {"cancelled"}

\* isTaskRunTransitionAllowed
Allowed(from, to) == to \in AllowedFrom(from)
=============================================================================
