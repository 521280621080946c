--------------------------- MODULE TaskProgression ---------------------------
(***************************************************************************)
(* How one TaskRun moves on: TaskProgressionService, the main-process loop *)
(* that takes approvals to execution and execution to the quality gate,    *)
(* among the actors that share the task with it: the preparation of the    *)
(* task, executions, the user and shutdown.                                *)
(*                                                                         *)
(* Approvals are numbered in creation order.  The loop's own awaits are    *)
(* interleaving points; what the other actors do in one turn of the event  *)
(* loop is one action.  pc names the point the loop has reached: "off" is  *)
(* no entry in `running`, "looped" the while condition, "loading" the top  *)
(* of progress, "leaving" the finally block.                               *)
(***************************************************************************)
EXTENDS TaskRunStatus, Naturals, FiniteSetsExt

CONSTANTS Kind,        \* what each approval is for
          OneTurn,     \* only real waits yield, as the synchronous gateway has it
          Moves,       \* what the user does besides deciding approvals
          MaxMoves     \* bound on how often

ASSUME ProgressionAssumption ==
  /\ DOMAIN Kind \subseteq Nat \ {0}
  /\ Kind \in [DOMAIN Kind -> {"advice", "plan", "file", "shell"}]
  /\ OneTurn \in BOOLEAN
  /\ Moves \subseteq {"execute", "pause", "cancel", "toggle", "shutdown"}
  /\ MaxMoves \in Nat

Rows == DOMAIN Kind

VARIABLES
  task,       \* status of the TaskRun
  status,     \* status of each approval, "absent" before it is created
  exec,       \* executionState of each approval
  work,       \* how far the execution of an approval is
  asked,      \* the user's call waits for that execution
  auto,       \* approval.autoApprove
  held,       \* the preparation of the task holds it
  ready,      \* the planning-ready artifact exists
  planned,    \* an agent invocation exists
  judged,     \* the quality gate was asked since the task became reviewable
  pc,         \* where the loop is
  seen,       \* the task status of its last snapshot
  cand,       \* the approval it is dealing with
  attempted,  \* the keys it will not try again
  requested,  \* something changed since it last started over
  stopping,   \* shutdown has begun
  moves       \* moves the user made

approvals == <<status, exec, work, asked>>
host == <<auto, held, ready, planned>>
memory == <<attempted, requested>>
loop == <<pc, seen, cand, memory>>
vars == <<task, approvals, host, judged, loop, stopping, moves>>

Stopped == {"blocked", "quality_failed", "paused", "done", "cancelled"}
Inactive == {"paused", "done", "cancelled"}

\* Where the loop waits for something that takes real time.
Waits == {"off", "awaiting", "planning", "recovering", "quality", "closing"}
PC == Waits \cup {"looped", "proposing", "loading", "loaded", "approving", "executing", "thrown",
                  "failing", "blocking", "leaving"}

TypeOK ==
  /\ task \in TaskStatus
  /\ status \in [Rows -> {"absent", "pending", "approved", "rejected", "executed"}]
  /\ exec \in [Rows -> {"none", "running", "succeeded", "failed", "uncertain"}]
  /\ work \in [Rows -> {"none", "claimed", "between", "running"}]
  /\ asked \in [Rows -> BOOLEAN]
  /\ <<auto, held, ready, planned, judged>> \in BOOLEAN \X BOOLEAN \X BOOLEAN \X BOOLEAN \X BOOLEAN
  /\ pc \in PC
  /\ seen \in TaskStatus
  /\ cand \in Rows \cup {0}
  /\ requested \in BOOLEAN
  /\ stopping \in BOOLEAN
  /\ moves \in 0..MaxMoves

Init ==
  /\ task = "drafting"
  /\ status = [a \in Rows |-> "absent"]
  /\ exec = [a \in Rows |-> "none"]
  /\ work = [a \in Rows |-> "none"]
  /\ asked = [a \in Rows |-> FALSE]
  /\ auto \in BOOLEAN
  /\ held = TRUE /\ ready = FALSE /\ planned = FALSE /\ judged = FALSE
  /\ pc = "off" /\ seen = "drafting" /\ cand = 0
  /\ attempted = {} /\ requested = FALSE
  /\ stopping = FALSE /\ moves = 0

-----------------------------------------------------------------------------
(* What the loop looks at *)

Advice(a) == Kind[a] = "advice"
Plan(a) == Kind[a] = "plan"

Unresolved(a) ==
  \/ exec[a] \in {"running", "uncertain"}
  \/ status[a] = "pending"
  \/ status[a] = "approved" /\ ~Advice(a)

Children == {a \in Rows : ~Plan(a)}

\* Slip: approvals in the order of their creation.
OrderedByCreation(S) == S

\* An orchestration plan waits until the actions of its workers are resolved.
Ordered(S) == IF S \cap Children # {} THEN S \cap Children ELSE S

\* ordered.find(isUnresolved), 0 when there is none.
First == LET open == {a \in Rows : Unresolved(a)}
         IN IF open = {} THEN 0 ELSE Min(Ordered(open))

Executable(a) == exec[a] = "none" /\ ~Advice(a)

\* shouldAutoApprove: host commands are confirmed one by one.
AutoApproved(a) == auto /\ Kind[a] # "shell"

CanHandle(a) ==
  IF status[a] = "pending" THEN (Advice(a) \/ Executable(a)) /\ AutoApproved(a)
  ELSE status[a] = "approved" /\ Executable(a)

\* A step of the task is running.
Busy == \E a \in Rows : work[a] = "running"

\* Slip: an approval is tried once, whatever became of the others.
KeyOfApproval(a) == <<a>>

\* What was tried: a candidate among approvals in these states.
Key(a) == IF a = 0 THEN <<a>> ELSE <<a, status, exec>>

\* Slip: the user's pause is not one of the statuses that stop the loop.
HaltedUnlessPaused == stopping \/ held \/ seen \in Stopped \ {"paused"} \/ Busy

Halted == stopping \/ held \/ seen \in Stopped \/ Busy

\* The point progress goes to once the snapshot is complete.
NextPoint ==
  IF Halted THEN "looped"
  ELSE IF First # 0
  THEN IF ~CanHandle(First) \/ Key(First) \in attempted THEN "looped"
       ELSE IF status[First] = "pending" THEN "approving" ELSE "executing"
  ELSE IF seen = "drafting" /\ ready /\ ~planned /\ Key(0) \notin attempted THEN "planning"
  ELSE IF seen = "ready_for_review" THEN "quality"
  ELSE "looped"

-----------------------------------------------------------------------------
(* The loop *)

\* Between two of its waits the loop has the event loop for itself.
Turn == OneTurn => pc \in Waits

\* advance: one loop per task, and a note for the one that runs.
Wake ==
  IF stopping THEN UNCHANGED <<pc, memory>>
  ELSE /\ requested' = TRUE
       /\ IF pc = "off" THEN pc' = "looped" /\ attempted' = {}
          ELSE UNCHANGED <<pc, attempted>>

Publish == Wake /\ UNCHANGED <<seen, cand>>

\* The top of progress: it gives up before it loads anything.
Resume == IF stopping \/ held THEN "looped" ELSE "loading"

\* advance: do .. while requested.
Iterate ==
  /\ pc = "looped"
  /\ IF requested /\ ~stopping
     THEN requested' = FALSE /\ pc' = Resume
     ELSE pc' = "leaving" /\ UNCHANGED requested
  /\ UNCHANGED <<task, approvals, host, judged, seen, cand, attempted, stopping, moves>>

Leave ==
  /\ pc = "leaving"
  /\ pc' = "off" /\ requested' = FALSE
  /\ UNCHANGED <<task, approvals, host, judged, seen, cand, attempted, stopping, moves>>

LoadTask ==
  /\ pc = "loading"
  /\ pc' = "loaded" /\ seen' = task
  /\ UNCHANGED <<task, approvals, host, judged, cand, memory, stopping, moves>>

\* Slip: nothing remembers what was tried.
DecideAfresh ==
  /\ pc = "loaded"
  /\ pc' = NextPoint
  /\ cand' = First
  /\ planned' = (planned \/ pc' = "planning")
  /\ UNCHANGED <<task, approvals, auto, held, ready, judged, seen, memory, stopping, moves>>

\* The rest of the snapshot, and what follows from it.
Decide ==
  /\ pc = "loaded"
  /\ pc' = NextPoint
  /\ cand' = First
  /\ attempted' = IF pc' \in {"approving", "executing", "planning"}
                  THEN attempted \cup {Key(First)} ELSE attempted
  /\ planned' = (planned \/ pc' = "planning")
  /\ UNCHANGED <<task, approvals, auto, held, ready, judged, seen, requested, stopping, moves>>

\* ConversationService.approve under the automatic decision.
AutoApprove ==
  /\ pc = "approving"
  /\ IF status[cand] = "pending" /\ task \notin Closed
     THEN status' = [status EXCEPT ![cand] = "approved"] /\ pc' = Resume
     ELSE pc' = "failing" /\ UNCHANGED status
  /\ UNCHANGED <<task, exec, work, asked, host, judged, seen, cand, memory, stopping, moves>>

CanStart(a) ==
  status[a] = "approved" /\ exec[a] = "none" /\ work[a] = "none" /\ task \notin Closed /\ ~Advice(a)

\* A direct action is claimed in its row; a plan is owned in memory.
Start(a) ==
  /\ work' = [work EXCEPT ![a] = "claimed"]
  /\ exec' = IF Plan(a) THEN exec ELSE [exec EXCEPT ![a] = "running"]

\* deps.execute: a run of the same plan is joined, a second claim is refused.
Execute ==
  /\ pc = "executing"
  /\ \/ CanStart(cand) /\ Start(cand) /\ pc' = "awaiting"
     \/ ~CanStart(cand) /\ pc' = (IF Plan(cand) /\ work[cand] # "none" THEN "awaiting" ELSE "thrown")
        /\ UNCHANGED <<work, exec>>
  /\ UNCHANGED <<task, status, asked, host, judged, seen, cand, memory, stopping, moves>>

\* The policy, the budget or the approved revision forbids it: nothing is caught here.
Refuse ==
  /\ pc = "executing"
  /\ pc' = "failing"
  /\ UNCHANGED <<task, approvals, host, judged, seen, cand, memory, stopping, moves>>

\* execute threw: only a confirmed failure of a check is recovered from, and
\* only under automation.
Recoverable ==
  /\ ~stopping /\ ~held /\ auto /\ ~Busy
  /\ task \in {"blocked", "quality_failed"}
  /\ Kind[cand] = "shell" /\ status[cand] = "executed" /\ exec[cand] = "failed"

Catch ==
  /\ pc = "thrown"
  /\ pc' = IF Recoverable THEN "recovering" ELSE "failing"
  /\ UNCHANGED <<task, approvals, host, judged, seen, cand, memory, stopping, moves>>

\* recordFailure reads the status, and leaves what the user has stopped alone.
RecordFailure ==
  /\ pc = "failing"
  /\ seen' = task
  /\ pc' = IF task \in Inactive THEN "leaving" ELSE "blocking"
  /\ UNCHANGED <<task, approvals, host, judged, cand, memory, stopping, moves>>

\* Slip: whatever the status has become.
BlockAnyway ==
  /\ pc = "blocking"
  /\ task' = IF Allowed(task, "blocked") THEN "blocked" ELSE task
  /\ pc' = "leaving"
  /\ UNCHANGED <<approvals, host, judged, seen, cand, memory, stopping, moves>>

\* Once the error is logged, the task is blocked against the status read before.
Block ==
  /\ pc = "blocking"
  /\ task' = IF task = seen /\ Allowed(seen, "blocked") THEN "blocked" ELSE task
  /\ pc' = "leaving"
  /\ UNCHANGED <<approvals, host, judged, seen, cand, memory, stopping, moves>>

-----------------------------------------------------------------------------
(* Work the loop waits for *)

\* A status that work arrives at.
SetTask(s) == task' = s /\ judged' = (judged /\ s # "ready_for_review")

\* The next approvals of an agent or of a worker, one after the other.
Create(a) ==
  /\ status[a] = "absent" /\ \A b \in Rows : b < a => status[b] # "absent"
  /\ status' = [status EXCEPT ![a] = "pending"]

\* Kinds the preparation of a task proposes; the rest is proposed by agents.
Prepared == {a \in Rows : Kind[a] \in {"advice", "plan"}}

\* generatePlan is answered: it proposes actions and moves the task on.
PlanningProposes(a) ==
  /\ pc \in {"planning", "proposing"} /\ task \notin Closed /\ a \notin Prepared
  /\ Create(a)
  /\ pc' = "proposing"
  /\ UNCHANGED <<task, exec, work, asked, host, judged, seen, cand, memory, stopping, moves>>

PlanningEnds ==
  /\ pc \in {"planning", "proposing"} /\ task \notin Closed
  /\ SetTask(IF \E a \in Rows \ Prepared : status[a] # "absent"
             THEN "waiting_for_approval" ELSE "ready_for_review")
  /\ pc' = Resume
  /\ UNCHANGED <<approvals, host, seen, cand, memory, stopping, moves>>

\* It throws when the model fails or the task is cancelled.
PlanningFails ==
  /\ pc \in {"planning", "proposing"}
  /\ task' = IF task \in Inactive THEN task ELSE "blocked"
  /\ pc' = "failing"
  /\ UNCHANGED <<approvals, host, judged, seen, cand, memory, stopping, moves>>

\* The rest of the plan that a confirmed failure retires.
Retired(b) == b \notin Prepared /\ status[b] \in {"pending", "approved"} /\ exec[b] = "none"
Retire == [b \in Rows |-> IF Retired(b) THEN "rejected" ELSE status[b]]

\* recoverTaskValidationFailure: the gate fails, the rest of the plan is
\* retired and a repair plan is proposed.
Recover(a) ==
  /\ pc = "recovering" /\ task \in {"blocked", "quality_failed"}
  /\ a \in Rows \ Prepared /\ status[a] = "absent"
  /\ \A b \in Rows : b < a => status[b] # "absent"
  /\ status' = [Retire EXCEPT ![a] = "pending"]
  /\ task' = "waiting_for_approval"
  /\ pc' = Resume
  /\ UNCHANGED <<exec, work, asked, host, judged, seen, cand, memory, stopping, moves>>

\* No repair: the gate does not fail, nothing is proposed, or a step throws.
NotRecovered ==
  /\ pc = "recovering"
  /\ \/ UNCHANGED <<task, status>>
     \/ task \notin Inactive /\ task' = "ready_for_review" /\ UNCHANGED status
     \/ task \notin Inactive /\ task' = "quality_failed" /\ status' \in {status, Retire}
  /\ judged' = TRUE
  /\ pc' = "failing"
  /\ UNCHANGED <<exec, work, asked, host, seen, cand, memory, stopping, moves>>

\* evaluateIfReady returns at once unless the task is reviewable still.
Skip ==
  /\ pc = "quality" /\ task # "ready_for_review"
  /\ pc' = "looped"
  /\ UNCHANGED <<task, approvals, host, judged, seen, cand, memory, stopping, moves>>

\* The gate is evaluated and its verdict applied, unless the user stopped the task.
Judge(verdict) ==
  /\ pc = "quality"
  /\ task' = IF task \in Inactive THEN task
             ELSE IF verdict = "failed" THEN "quality_failed" ELSE "ready_for_review"
  /\ judged' = TRUE
  /\ pc' = IF verdict = "passed" THEN "closing" ELSE "looped"
  /\ UNCHANGED <<approvals, host, seen, cand, memory, stopping, moves>>

EvaluationThrows ==
  /\ pc = "quality"
  /\ pc' = "failing" /\ judged' = TRUE
  /\ UNCHANGED <<task, approvals, host, seen, cand, memory, stopping, moves>>

\* Slip: only what runs is asked for.
SettledWhenIdle == ~Busy

\* ensureExecutionSettled
Settled == ~Busy /\ \A a \in Rows : ~Unresolved(a)

\* markDone of a passed gate.
MarkDone ==
  /\ pc = "closing"
  /\ IF task = "ready_for_review" /\ Settled
     THEN task' = "done" /\ pc' = "looped"
     ELSE pc' = "failing" /\ UNCHANGED task
  /\ UNCHANGED <<approvals, host, judged, seen, cand, memory, stopping, moves>>

-----------------------------------------------------------------------------
(* Executions, whoever asked for them *)

\* The loop goes on, or into its catch block; a call of the user's publishes
\* the change, which a failed runApproved does not.
End(a, ok) ==
  LET publishes == asked[a] /\ (ok \/ ~Plan(a)) IN
  /\ work' = [work EXCEPT ![a] = "none"]
  /\ asked' = [asked EXCEPT ![a] = FALSE]
  /\ IF pc = "awaiting" /\ cand = a
     THEN /\ pc' = IF ok THEN Resume ELSE "thrown"
          /\ requested' = (requested \/ (publishes /\ ~stopping))
          /\ UNCHANGED attempted
     ELSE IF publishes THEN Wake ELSE UNCHANGED <<pc, memory>>
  /\ UNCHANGED <<host, seen, cand, stopping, moves>>

Running(a) == work' = [work EXCEPT ![a] = "running"]

\* A step is created and the task is set running, from whatever lets it.
Begin(a) ==
  /\ Turn /\ work[a] = "claimed" /\ ~Plan(a) /\ Allowed(task, "running")
  /\ Running(a) /\ task' = "running"
  /\ UNCHANGED <<status, exec, asked, host, judged, loop, stopping, moves>>

\* isUnresolvedApproval of the runner.
RunnerUnresolved(a) == status'[a] \in {"pending", "approved"}

\* The row is executed and the task settled, unless the user stopped it.
Succeed(a) ==
  /\ Turn /\ work[a] = "running" /\ ~Plan(a) /\ task \notin Closed
  /\ status' = [status EXCEPT ![a] = "executed"]
  /\ exec' = [exec EXCEPT ![a] = "succeeded"]
  /\ IF task \in Inactive THEN UNCHANGED <<task, judged>>
     ELSE SetTask(IF \E b \in Rows : RunnerUnresolved(b)
                  THEN "waiting_for_approval" ELSE "ready_for_review")
  /\ End(a, TRUE)

\* Only a check that ran and failed is a confirmed failure.
Fail(a, confirmed) ==
  /\ Turn /\ work[a] # "none" /\ ~Plan(a)
  /\ confirmed => Kind[a] = "shell" /\ work[a] = "running"
  /\ status' = IF confirmed THEN [status EXCEPT ![a] = "executed"] ELSE status
  /\ exec' = [exec EXCEPT ![a] = IF confirmed THEN "failed" ELSE "uncertain"]
  /\ task' = IF work[a] = "running" /\ task \notin {"paused", "cancelled"} /\ Allowed(task, "blocked")
             THEN "blocked" ELSE task
  /\ UNCHANGED judged
  /\ End(a, FALSE)

\* runApprovedOnce up to the first worker: refused, put off, or begun.
PlanRefused(p) ==
  /\ Turn /\ work[p] = "claimed" /\ Plan(p) /\ task \in Closed
  /\ End(p, FALSE)
  /\ UNCHANGED <<task, status, exec, judged>>

PlanPaused(p) ==
  /\ Turn /\ work[p] = "claimed" /\ Plan(p) /\ task = "paused"
  /\ End(p, TRUE)
  /\ UNCHANGED <<task, status, exec, judged>>

\* Actions of an earlier run are unresolved: the plan waits for them.
PlanWaits(p) ==
  /\ Turn /\ work[p] = "claimed" /\ Plan(p) /\ task \notin Inactive
  /\ \E a \in Children : Unresolved(a)
  /\ task' = "waiting_for_approval"
  /\ End(p, TRUE)
  /\ UNCHANGED <<status, exec, judged>>

PlanBegins(p) ==
  /\ Turn /\ work[p] = "claimed" /\ Plan(p) /\ task \notin Inactive
  /\ \A a \in Children : ~Unresolved(a)
  /\ work' = [work EXCEPT ![p] = "between"] /\ task' = "running"
  /\ UNCHANGED <<status, exec, asked, host, judged, loop, stopping, moves>>

\* The step of a worker is created, unless the user stopped the task.
WorkerBegins(p) ==
  /\ Turn /\ work[p] = "between" /\ Plan(p) /\ task \notin Inactive
  /\ Running(p) /\ task' = "running"
  /\ UNCHANGED <<status, exec, asked, host, judged, loop, stopping, moves>>

\* A worker succeeds: its action becomes an approval, and that is published.
WorkerEnds(p, a) ==
  /\ Turn /\ work[p] = "running" /\ Plan(p) /\ task \notin Closed /\ a \notin Prepared
  /\ Create(a)
  /\ work' = [work EXCEPT ![p] = "between"]
  /\ Publish
  /\ UNCHANGED <<task, exec, asked, host, judged, stopping, moves>>

\* The run ends; with more to do (needsContinuation) the plan stays approved.
PlanEnds(p, more) ==
  /\ Turn /\ work[p] \in {"between", "running"} /\ Plan(p) /\ task \notin Closed
  /\ task = "paused" => more
  /\ status' = IF more THEN status ELSE [status EXCEPT ![p] = "executed"]
  /\ IF task = "paused" THEN UNCHANGED <<task, judged>>
     ELSE SetTask(IF more \/ \E a \in Children : Unresolved(a)
                  THEN "waiting_for_approval" ELSE "ready_for_review")
  /\ End(p, TRUE)
  /\ UNCHANGED exec

\* A worker fails the run: reported in the result, or thrown.
PlanFails(p, thrown) ==
  /\ Turn /\ work[p] \in {"between", "running"} /\ Plan(p)
  /\ task \in Inactive => thrown
  /\ status' = IF thrown THEN status ELSE [status EXCEPT ![p] = "executed"]
  /\ task' = IF task \in Inactive \/ ~Allowed(task, "blocked") THEN task ELSE "blocked"
  /\ End(p, ~thrown)
  /\ UNCHANGED <<exec, judged>>

-----------------------------------------------------------------------------
(* Preparation, the user and shutdown *)

\* ConversationStartService.prepare proposes, marks the task ready and lets go.
Propose(a) ==
  /\ Turn /\ held /\ task = "drafting" /\ a \in Prepared
  /\ Create(a)
  /\ UNCHANGED <<task, exec, work, asked, host, judged, loop, stopping, moves>>

\* An orchestration draft waits for its approval; planning waits for advice.
Release ==
  /\ Turn /\ held
  /\ task = "drafting" => \A a \in Prepared : status[a] # "absent"
  /\ LET routed == \E a \in Rows : Plan(a) IN
     /\ task' = IF task = "drafting" /\ routed THEN "waiting_for_approval" ELSE task
     /\ ready' = (task = "drafting" /\ ~routed)
  /\ held' = FALSE
  /\ Publish
  /\ UNCHANGED <<approvals, auto, planned, judged, stopping, moves>>

\* Preparation fails: recordFailure, then the release.
PreparationFails ==
  /\ Turn /\ held
  /\ task' = IF task \in Inactive THEN task ELSE "blocked"
  /\ held' = FALSE
  /\ Publish
  /\ UNCHANGED <<approvals, auto, ready, planned, judged, stopping, moves>>

Approve(a) ==
  /\ Turn /\ status[a] = "pending" /\ task \notin Closed
  /\ status' = [status EXCEPT ![a] = "approved"]
  /\ Publish
  /\ UNCHANGED <<task, exec, work, asked, host, judged, stopping, moves>>

\* The panel offers it for pending approvals.  Rejecting anything but advice
\* pauses the task; where it cannot be paused the call fails after the
\* decision, and nothing is published.
Reject(a) ==
  /\ Turn /\ status[a] = "pending" /\ task \notin Closed
  /\ status' = [status EXCEPT ![a] = "rejected"]
  /\ IF Advice(a) THEN task' = task /\ Publish
     ELSE IF Allowed(task, "paused") THEN task' = "paused" /\ Publish
     ELSE task' = task /\ UNCHANGED loop
  /\ UNCHANGED <<exec, work, asked, host, judged, stopping, moves>>

Move(m) == Turn /\ m \in Moves /\ moves < MaxMoves /\ moves' = moves + 1

\* runner.executeApproved and orchestration.runApproved, called from a panel.
ExecuteApproved(a) ==
  /\ Move("execute") /\ ~asked[a]
  /\ \/ CanStart(a) /\ Start(a)
     \/ Plan(a) /\ work[a] # "none" /\ UNCHANGED <<work, exec>>
  /\ asked' = [asked EXCEPT ![a] = TRUE]
  /\ UNCHANGED <<task, status, host, judged, loop, stopping>>

PauseTask ==
  /\ Move("pause") /\ task \in {"running", "waiting_for_approval"}
  /\ task' = "paused"
  /\ Publish
  /\ UNCHANGED <<approvals, host, judged, stopping>>

\* Every task has a current step, so it resumes one way or the other.
ResumeTask ==
  /\ Turn /\ "pause" \in Moves /\ task = "paused"
  /\ task' = IF \E a \in Rows : status[a] = "pending" THEN "waiting_for_approval" ELSE "running"
  /\ Publish
  /\ UNCHANGED <<approvals, host, judged, stopping, moves>>

\* quality.markDone: the user takes the result, known risks included.
CompleteTask ==
  /\ Turn /\ task = "ready_for_review" /\ judged /\ Settled
  /\ task' = "done"
  /\ Publish
  /\ UNCHANGED <<approvals, host, judged, stopping, moves>>

CancelTask ==
  /\ Move("cancel") /\ task \notin Closed
  /\ status' = [a \in Rows |-> IF status[a] = "pending" THEN "rejected" ELSE status[a]]
  /\ task' = "cancelled"
  /\ Publish
  /\ UNCHANGED <<exec, work, asked, host, judged, stopping>>

\* settings.update schedules the tasks of this session.
Toggle ==
  /\ Move("toggle")
  /\ auto' = ~auto
  /\ Publish
  /\ UNCHANGED <<task, approvals, held, ready, planned, judged, stopping>>

Shutdown ==
  /\ Move("shutdown") /\ ~stopping
  /\ stopping' = TRUE /\ requested' = FALSE
  /\ UNCHANGED <<task, approvals, host, judged, pc, seen, cand, attempted>>

-----------------------------------------------------------------------------
(* The specification *)

Progress ==
  \/ Iterate \/ Leave \/ LoadTask \/ Decide \/ AutoApprove \/ Execute \/ Refuse
  \/ Catch \/ RecordFailure \/ Block

Planning == (\E a \in Rows : PlanningProposes(a)) \/ PlanningEnds \/ PlanningFails

Quality == Skip \/ (\E v \in {"passed", "warning", "failed"} : Judge(v)) \/ EvaluationThrows \/ MarkDone

Answers == Planning \/ (\E a \in Rows : Recover(a)) \/ NotRecovered \/ Quality

Execution(a) ==
  \/ Begin(a) \/ Succeed(a) \/ (\E confirmed \in BOOLEAN : Fail(a, confirmed))
  \/ PlanRefused(a) \/ PlanPaused(a) \/ PlanWaits(a) \/ PlanBegins(a)
  \/ WorkerBegins(a) \/ (\E b \in Rows : WorkerEnds(a, b))
  \/ (\E more \in BOOLEAN : PlanEnds(a, more)) \/ (\E thrown \in BOOLEAN : PlanFails(a, thrown))

Preparation == (\E a \in Rows : Propose(a)) \/ Release \/ PreparationFails

User ==
  \/ \E a \in Rows : Approve(a) \/ Reject(a) \/ ExecuteApproved(a)
  \/ PauseTask \/ ResumeTask \/ CompleteTask \/ CancelTask \/ Toggle \/ Shutdown

Next ==
  \/ Progress \/ Answers
  \/ Preparation \/ User \/ \E a \in Rows : Execution(a)

Spec == Init /\ [][Next]_vars

\* The loop's awaits resume, and what it waits for ends.
FairSpec ==
  /\ Spec
  /\ WF_vars(Progress) /\ WF_vars(Answers)
  /\ \A a \in Rows : WF_vars(Execution(a))

-----------------------------------------------------------------------------
(* Properties *)

\* The loop starts the execution of an approval.
Starts(a) == pc = "executing" /\ work[a] = "none" /\ work'[a] # "none"

\* Work is started in order: no action overtakes an earlier one that is not
\* resolved, and a plan does not go on while an action of its workers is
\* unresolved (progress, ordered and find).
InOrder ==
  [][\A a \in Rows : Starts(a) =>
       \A b \in Children : (b < a \/ Plan(a)) /\ b # a => ~Unresolved(b)]_vars

\* A task that is paused, blocked, failed or finished, or that is being
\* prepared or shut down, gets no execution and no automatic approval from the
\* loop, whenever that state was entered (the reload after every await).
StoppedStartsNothing ==
  [][(pc \in {"approving", "executing"} /\ (status' # status \/ work' # work)) =>
       task \notin Stopped /\ ~held /\ ~stopping]_vars

\* Recording an error leaves the pause, the cancellation or the completion
\* that came while it was being logged in place (recordFailure).
FailureYields ==
  [][pc = "blocking" /\ pc' = "leaving" /\ task \in Inactive => task' = task]_vars

\* A task is done only when no approval is open and no execution is under way,
\* whoever started it (markDone after the gate was evaluated).
DoneIsSettled == task = "done" => \A a \in Rows : ~Unresolved(a) /\ work[a] = "none"

AtRest == pc = "off" /\ ~stopping /\ ~held /\ \A a \in Rows : work[a] = "none"

\* When everything is at rest, nothing is left that the loop would do: of a
\* task that has not come to its gate no approval it could handle and has not
\* tried, and no planning; of a task that has, no gate (schedule after every
\* change, with requested and attempted).
NothingOverlooked ==
  AtRest /\ task \notin Stopped =>
    /\ First # 0 /\ task # "ready_for_review" => ~CanHandle(First) \/ <<First, status, exec>> \in attempted
    /\ First = 0 /\ task = "drafting" => ~ready \/ planned
    /\ First = 0 /\ task = "ready_for_review" => judged

\* The loop comes to rest once the user does: it never spins on an execution
\* that brings nothing new (attempted).
Rests == pc # "off" ~> pc = "off"

\* The rows and the loop have their types, and a task that is done has nothing
\* open or under way (markDone, and the loop's own record of what it does).
ProgressionInv == TypeOK /\ DoneIsSettled
=============================================================================
