---------------------------- MODULE TaskExecution ----------------------------
(***************************************************************************)
(* The life of the approved actions of one task, and of the application    *)
(* around them: RunnerService.executeApproved with every await of it, the  *)
(* pause, resume, rejection and cancellation of the task, and the shutdown *)
(* and start of the desktop process.                                       *)
(*                                                                         *)
(* pc[a] is the await the execution of a is at; an execution that has      *)
(* ended is "off" again.  What a failed storage call does at each await is *)
(* AfterFault.  The content of approvals, their revisions and the racing   *)
(* claims are in ApprovalLedger, the loop that starts executions is in     *)
(* TaskProgression.                                                        *)
(***************************************************************************)
EXTENDS TaskRunStatus, Naturals, Sequences, FiniteSets

CONSTANTS Actions,   \* the approvals of the task
          Checks,    \* those whose command is recognised as a check
          Pipeline,  \* the task has an approval of an orchestration plan
          OneTurn,   \* only real waits yield, as the synchronous gateway has it
          MaxMoves, MaxDeadlines, MaxFaults  \* bounds on the user, on expired drains, on faults

ASSUME ExecutionAssumption ==
  /\ Checks \subseteq Actions
  /\ Pipeline \in BOOLEAN /\ OneTurn \in BOOLEAN
  /\ {MaxMoves, MaxDeadlines, MaxFaults} \subseteq Nat

VARIABLES
  task,      \* status of the TaskRun
  pauser,    \* who paused it: "none", "user" or "quit"
  consent,   \* status of each approval
  exec,      \* execution_state of each approval, "none" for NULL
  step,      \* status of the step of each execution, "none" before there is one
  planStep,  \* status of the step the approvals belong to
  mutating,  \* executions with a row in workspace_mutations
  pc, outcome, aborted, target,
  cancel, awaited,    \* the user's cancellation and the executions it waits for
  app,       \* installApplicationShutdown's phase: "open", "draining" or "closed" for ready
  sealed,    \* the work scopes refuse new work
  drains,    \* the drains of this process, finished or not
  broken,    \* shutdownFailure
  moves, deadlines, faults

stored == <<task, pauser, consent, exec, step, planStep, mutating>>
executions == <<pc, outcome, aborted, target>>
cancelling == <<cancel, awaited>>
shutdown == <<app, sealed, drains, broken>>
bounds == <<moves, deadlines, faults>>
vars == <<stored, executions, cancelling, shutdown, bounds>>

-----------------------------------------------------------------------------
\* Where real time passes; in between, the turn of the event loop belongs to one call.
RealWaits == {"off", "preparing", "resolving", "working", "reporting"}

Waiting == (\A a \in Actions : pc[a] \in RealWaits) /\ cancel # "stored"

Yields == (OneTurn => Waiting) /\ app # "closed"

\* inflight of RunnerService.
Inflight == {a \in Actions : pc[a] \notin {"off", "entered"}}

\* isUnresolvedApproval of the runner: it does not look at execution_state.
Unresolved == {a \in Actions : consent[a] \in {"pending", "approved"}}

At(a, here) == pc[a] = here

Goto(a, there) == pc' = [pc EXCEPT ![a] = there]

\* The execution throws into its catch block, or out of it when there is no step yet.
Catch(a, how) ==
  /\ outcome' = [outcome EXCEPT ![a] = how]
  /\ Goto(a, IF step[a] = "none" THEN "finishing" ELSE "reporting")

\* setTaskRunStatus: refused when the table does not allow the move.
SetTask(status) ==
  /\ Allowed(task, status) /\ task' = status
  /\ pauser' = IF status = "paused" THEN pauser ELSE "none"

-----------------------------------------------------------------------------
\* executeApproved.

\* executeApproved is called: the work scope lets it in and the approval is read.
Execute(a) ==
  /\ Yields /\ ~sealed /\ At(a, "off") /\ consent[a] = "approved"
  /\ Goto(a, "entered")
  /\ UNCHANGED <<stored, outcome, aborted, target, cancelling, shutdown, bounds>>

\* The last test of the scope, and the execution's controller.
Register(a) ==
  /\ At(a, "entered")
  /\ IF sealed
     THEN Goto(a, "off") /\ UNCHANGED <<outcome, aborted>>
     ELSE /\ Goto(a, "claiming")
          /\ outcome' = [outcome EXCEPT ![a] = "ok"] /\ aborted' = aborted \ {a}
  /\ UNCHANGED <<stored, target, cancelling, shutdown, bounds>>

\* What claimExecution's UPDATE asks for.
Claimable(a) == consent[a] = "approved" /\ exec[a] = "none" /\ task \notin Closed

Claim(a) ==
  /\ At(a, "claiming")
  /\ IF Claimable(a)
     THEN exec' = [exec EXCEPT ![a] = "running"] /\ Goto(a, "checking")
     ELSE exec' = exec /\ Goto(a, "off")
  /\ UNCHANGED <<task, pauser, consent, step, planStep, mutating, outcome, aborted, target,
                 cancelling, shutdown, bounds>>

\* The first test of the signal; the proposal was valid when it was approved.
Check(a) ==
  /\ At(a, "checking")
  /\ IF a \in aborted
     THEN Catch(a, "cancelled")
     ELSE Goto(a, IF a \in Checks THEN "preparing" ELSE "creating") /\ UNCHANGED outcome
  /\ UNCHANGED <<stored, aborted, target, cancelling, shutdown, bounds>>

\* prepareShellValidation has read the inputs of the check.
Prepare(a) ==
  /\ At(a, "preparing") /\ Yields /\ Goto(a, "creating")
  /\ UNCHANGED <<stored, outcome, aborted, target, cancelling, shutdown, bounds>>

CreateStep(a) ==
  /\ At(a, "creating") /\ Goto(a, "starting")
  /\ step' = [step EXCEPT ![a] = "running"]
  /\ UNCHANGED <<task, pauser, consent, exec, planStep, mutating, outcome, aborted, target,
                 cancelling, shutdown, bounds>>

\* The task is set running only when nobody aborted the execution meanwhile.
Start(a) ==
  /\ At(a, "starting")
  /\ IF a \in aborted THEN Catch(a, "cancelled") ELSE Goto(a, "moving") /\ UNCHANGED outcome
  /\ UNCHANGED <<stored, aborted, target, cancelling, shutdown, bounds>>

\* The task is set running, also one that was paused meanwhile.
MoveToRunning(a) ==
  /\ At(a, "moving")
  /\ \/ SetTask("running") /\ Goto(a, "guarding") /\ UNCHANGED outcome
     \/ ~Allowed(task, "running") /\ Catch(a, "error") /\ UNCHANGED <<task, pauser>>
  /\ UNCHANGED <<consent, exec, step, planStep, mutating, aborted, target, cancelling, shutdown, bounds>>

\* The last test of the signal; what is not a check finds out its workspace first.
Guard(a) ==
  /\ At(a, "guarding")
  /\ IF a \in aborted
     THEN Catch(a, "cancelled")
     ELSE Goto(a, IF a \in Checks THEN "working" ELSE "resolving") /\ UNCHANGED outcome
  /\ UNCHANGED <<stored, aborted, target, cancelling, shutdown, bounds>>

BeginMutation(a) ==
  /\ At(a, "resolving") /\ Yields /\ Goto(a, "working")
  /\ mutating' = mutating \cup {a}
  /\ UNCHANGED <<task, pauser, consent, exec, step, planStep, outcome, aborted, target,
                 cancelling, shutdown, bounds>>

\* The side effect ends.  A signal may come too late; only a check can fail for certain, and
\* only a process can be left in doubt.
WorkEnds(a) ==
  /\ At(a, "working") /\ Yields
  /\ \E how \in {"ok", "error", "cancelled", "failed", "unconfirmed"} :
       /\ how = "cancelled" => a \in aborted
       /\ how = "failed" => a \in Checks \ aborted
       /\ how = "unconfirmed" => a \in Checks \cap aborted
       /\ IF how = "ok" THEN Goto(a, "recording") /\ UNCHANGED outcome ELSE Catch(a, how)
  /\ UNCHANGED <<stored, aborted, target, cancelling, shutdown, bounds>>

RecordStep(a) ==
  /\ At(a, "recording") /\ Goto(a, "deciding")
  /\ step' = [step EXCEPT ![a] = "succeeded"]
  /\ UNCHANGED <<task, pauser, consent, exec, planStep, mutating, outcome, aborted, target,
                 cancelling, shutdown, bounds>>

\* decideApproval(executed) is refused when the task is closed.
Decide(a) ==
  /\ At(a, "deciding")
  /\ IF consent[a] = "approved" /\ task \notin Closed
     THEN consent' = [consent EXCEPT ![a] = "executed"] /\ Goto(a, "closing") /\ UNCHANGED outcome
     ELSE Catch(a, "error") /\ UNCHANGED consent
  /\ UNCHANGED <<task, pauser, exec, step, planStep, mutating, aborted, target,
                 cancelling, shutdown, bounds>>

\* closeApprovalStepIfResolved, once nothing of the step is unresolved.
PlanStepAfter(executionStates, open) ==
  IF open # {} THEN planStep
  ELSE IF \E a \in Actions : executionStates[a] = "failed" THEN "failed" ELSE "succeeded"

CloseStep(a) ==
  /\ At(a, "closing") /\ Goto(a, "settling")
  /\ planStep' = PlanStepAfter(exec, Unresolved)
  /\ UNCHANGED <<task, pauser, consent, exec, step, mutating, outcome, aborted, target,
                 cancelling, shutdown, bounds>>

\* settleTaskRunAfterSuccessfulExecution reads the task and its approvals ...
Settle(a) ==
  /\ At(a, "settling")
  /\ IF task \in {"cancelled", "paused", "done"}
     THEN Goto(a, "ending") /\ UNCHANGED target
     ELSE /\ Goto(a, "writing")
          /\ target' = [target EXCEPT ![a] =
               IF Unresolved # {} THEN "waiting_for_approval" ELSE "ready_for_review"]
  /\ UNCHANGED <<stored, outcome, aborted, cancelling, shutdown, bounds>>

\* ... and moves the task.
WriteTask(a) ==
  /\ At(a, "writing")
  /\ \/ SetTask(target[a]) /\ Goto(a, "ending") /\ UNCHANGED outcome
     \/ ~Allowed(task, target[a]) /\ Catch(a, "error") /\ UNCHANGED <<task, pauser>>
  /\ UNCHANGED <<consent, exec, step, planStep, mutating, aborted, target, cancelling, shutdown, bounds>>

\* The catch block: the error is kept as an artifact, then as the result of the step.
Report(a) ==
  /\ At(a, "reporting") /\ Yields /\ Goto(a, "failing")
  /\ UNCHANGED <<stored, outcome, aborted, target, cancelling, shutdown, bounds>>

FailStep(a) ==
  /\ At(a, "failing") /\ Goto(a, "judging")
  /\ step' = [step EXCEPT ![a] = "failed"]
  /\ UNCHANGED <<task, pauser, consent, exec, planStep, mutating, outcome, aborted, target,
                 cancelling, shutdown, bounds>>

\* Slip: a failure does not look at the task before it moves it.
JudgeBlind(a) ==
  /\ At(a, "judging") /\ Goto(a, "blocking")
  /\ UNCHANGED <<stored, outcome, aborted, target, cancelling, shutdown, bounds>>

\* A task that was paused or cancelled is left as it is.
Judge(a) ==
  /\ At(a, "judging")
  /\ Goto(a, IF task \in {"cancelled", "paused"} THEN "ending" ELSE "blocking")
  /\ UNCHANGED <<stored, outcome, aborted, target, cancelling, shutdown, bounds>>

\* The others are blocked or cancelled; a refusal hides the error that led here.
BlockTask(a) ==
  /\ At(a, "blocking") /\ Goto(a, "ending")
  /\ LET status == IF outcome[a] = "cancelled" THEN "cancelled" ELSE "blocked"
     IN  \/ SetTask(status) /\ UNCHANGED outcome
         \/ /\ ~Allowed(task, status) /\ UNCHANGED <<task, pauser>>
            /\ outcome' = [outcome EXCEPT ![a] = "error"]
  /\ UNCHANGED <<consent, exec, step, planStep, mutating, aborted, target, cancelling, shutdown, bounds>>

\* Slip: a mutation is ended by the successful path only.
EndMutationIfOk(a) ==
  /\ At(a, "ending") /\ Goto(a, "finishing")
  /\ mutating' = IF outcome[a] = "ok" THEN mutating \ {a} ELSE mutating
  /\ UNCHANGED <<task, pauser, consent, exec, step, planStep, outcome, aborted, target,
                 cancelling, shutdown, bounds>>

\* finally
EndMutation(a) ==
  /\ At(a, "ending") /\ Goto(a, "finishing")
  /\ mutating' = mutating \ {a}
  /\ UNCHANGED <<task, pauser, consent, exec, step, planStep, outcome, aborted, target,
                 cancelling, shutdown, bounds>>

\* Slip: what became of a claim is told from the side effect alone.
ResultOptimistic(a) ==
  IF step[a] = "succeeded" THEN "succeeded"
  ELSE IF outcome[a] = "failed" THEN "failed" ELSE "uncertain"

\* What finishApprovalExecution is told.
Result(a) ==
  CASE outcome[a] = "ok" -> "succeeded"
    [] outcome[a] = "failed" -> "failed"
    [] OTHER -> "uncertain"

\* A confirmed failure consumes the approval and may close its step.
Finish(a) ==
  /\ At(a, "finishing") /\ Goto(a, "off")
  /\ exec' = [exec EXCEPT ![a] = Result(a)]
  /\ IF Result(a) = "failed"
     THEN /\ consent' = [consent EXCEPT ![a] = "executed"]
          /\ planStep' = PlanStepAfter(exec', Unresolved \ {a})
     ELSE UNCHANGED <<consent, planStep>>
  /\ UNCHANGED <<task, pauser, step, mutating, outcome, aborted, target, cancelling, shutdown, bounds>>

\* A storage call fails: where the execution goes on.
AfterFault(a) ==
  CASE pc[a] \in {"checking", "creating"} -> "finishing"
    [] pc[a] \in {"starting", "moving", "recording", "deciding", "closing", "settling", "writing"} ->
         "reporting"
    [] pc[a] \in {"failing", "judging", "blocking"} -> "ending"
    [] pc[a] = "ending" -> "finishing"
    [] pc[a] = "finishing" /\ outcome[a] = "ok" -> "finishing"
    [] OTHER -> "off"

StorageFails(a) ==
  /\ faults < MaxFaults /\ faults' = faults + 1
  /\ pc[a] \notin RealWaits \cup {"entered", "guarding"}
  /\ Goto(a, AfterFault(a))
  /\ outcome' = [outcome EXCEPT ![a] = "error"]
  /\ UNCHANGED <<stored, aborted, target, cancelling, shutdown, moves, deadlines>>

-----------------------------------------------------------------------------
\* The user.

Move == Yields /\ ~sealed /\ moves < MaxMoves /\ moves' = moves + 1

Approve(a) ==
  /\ Yields /\ ~sealed /\ consent[a] = "pending" /\ task \notin Closed
  /\ consent' = [consent EXCEPT ![a] = "approved"]
  /\ UNCHANGED <<task, pauser, exec, step, planStep, mutating, executions, cancelling, shutdown, bounds>>

\* rejectApproval: the decision stands also when the task may not be paused.
Reject(a) ==
  /\ Move /\ consent[a] \in {"pending", "approved"} /\ exec[a] = "none" /\ task \notin Closed
  /\ consent' = [consent EXCEPT ![a] = "rejected"]
  /\ IF Allowed(task, "paused")
     THEN task' = "paused" /\ pauser' = "user" ELSE UNCHANGED <<task, pauser>>
  /\ UNCHANGED <<exec, step, planStep, mutating, executions, cancelling, shutdown, deadlines, faults>>

Pause ==
  /\ Move /\ task \in {"running", "waiting_for_approval"}
  /\ task' = "paused" /\ pauser' = "user"
  /\ UNCHANGED <<consent, exec, step, planStep, mutating, executions, cancelling, shutdown,
                 deadlines, faults>>

Resume ==
  /\ Yields /\ ~sealed /\ task = "paused"
  /\ SetTask(IF \E a \in Actions : consent[a] = "pending" THEN "waiting_for_approval" ELSE "running")
  /\ UNCHANGED <<consent, exec, step, planStep, mutating, executions, cancelling, shutdown, bounds>>

\* cancelTaskAndExecutions: the task is cancelled first ...
Cancel ==
  /\ Move /\ cancel = "no" /\ task \notin Closed
  /\ SetTask("cancelled") /\ cancel' = "stored"
  /\ consent' = [a \in Actions |-> IF consent[a] = "pending" THEN "rejected" ELSE consent[a]]
  /\ UNCHANGED <<exec, step, planStep, mutating, executions, awaited, shutdown, deadlines, faults>>

\* ... then its executions are aborted, and waited for.
CancelExecution ==
  /\ cancel = "stored" /\ cancel' = "waiting"
  /\ aborted' = aborted \cup Inflight /\ awaited' = Inflight
  /\ UNCHANGED <<stored, pc, outcome, target, shutdown, bounds>>

\* What it waits for; a later execution of the same approval is not in the controller it aborted.
Awaited == awaited \cap aborted \cap Inflight

CancelReturns ==
  /\ cancel = "waiting" /\ Awaited = {} /\ cancel' = "done"
  /\ UNCHANGED <<stored, executions, awaited, shutdown, bounds>>

-----------------------------------------------------------------------------
\* The application.

\* pauseActiveTasks, for a drain that began with these executions in flight.
Pausable(owned) ==
  \/ task \in {"drafting", "running"}
  \/ task \notin {"paused", "done", "cancelled"} /\ owned

\* Slip: a drain that has expired cannot be tried again.
MayQuitOnce == Yields /\ app = "open" /\ ~sealed

MayQuit == Yields /\ app = "open"

\* before-quit: everything that runs is paused, sealed and aborted in one turn.
Quit ==
  /\ MayQuit
  /\ IF sealed /\ ~broken THEN moves' = moves ELSE moves < MaxMoves /\ moves' = moves + 1
  /\ LET owned == Inflight # {}
     IN  /\ drains' = Append(drains, [claims |-> Inflight, owned |-> owned,
                                      interrupted |-> Pausable(owned), ended |-> FALSE])
         /\ IF Pausable(owned)
            THEN task' = "paused" /\ pauser' = "quit" ELSE UNCHANGED <<task, pauser>>
  /\ app' = "draining" /\ sealed' = TRUE /\ aborted' = aborted \cup Inflight
  /\ UNCHANGED <<consent, exec, step, planStep, mutating, pc, outcome, target, cancelling,
                 broken, deadlines, faults>>

\* Every call that was let in has returned.
Drained == (\A a \in Actions : At(a, "off")) /\ cancel \in {"no", "done"}

\* A claim whose result could not be stored, or a process that may still be alive.
Unsafe(drain) ==
  \E a \in drain.claims : outcome[a] = "unconfirmed" \/ exec[a] = "running"

\* The status the end of a drain leaves the task at.
LeftAt(drain) ==
  LET again == Pausable(drain.owned)
      paused == again \/ task = "paused"
  IN  IF paused /\ (again \/ drain.interrupted) /\ (drain.owned \/ ~Pipeline) THEN "blocked"
      ELSE IF paused THEN "paused" ELSE task

\* A drain ends, also one whose deadline has passed; the last one lets the application close.
DrainEnds(i) ==
  /\ ~drains[i].ended /\ Drained
  /\ \A j \in 1..(i - 1) : drains[j].ended
  /\ drains' = [drains EXCEPT ![i].ended = TRUE]
  /\ broken' = (broken \/ Unsafe(drains[i]))
  /\ task' = LeftAt(drains[i])
  /\ pauser' = IF task' = "paused" THEN (IF task = "paused" THEN pauser ELSE "quit") ELSE "none"
  /\ app' = IF app = "draining" /\ i = Len(drains)
            THEN (IF broken' THEN "open" ELSE "closed") ELSE app
  /\ UNCHANGED <<consent, exec, step, planStep, mutating, executions, cancelling, sealed, bounds>>

\* Twenty seconds have passed: the storage stays open, and so does the seal.
Deadline ==
  /\ app = "draining" /\ Yields /\ deadlines < MaxDeadlines /\ deadlines' = deadlines + 1
  /\ app' = "open"
  /\ UNCHANGED <<stored, executions, cancelling, sealed, drains, broken, moves, faults>>

\* A new process: claims it finds are uncertain, mutations are closed.
Launched ==
  /\ exec' = [a \in Actions |-> IF exec[a] = "running" THEN "uncertain" ELSE exec[a]]
  /\ mutating' = {}
  /\ pc' = [a \in Actions |-> "off"] /\ outcome' = [a \in Actions |-> "ok"]
  /\ aborted' = {} /\ target' = [a \in Actions |-> "none"]
  /\ cancel' = "no" /\ awaited' = {}
  /\ app' = "open" /\ sealed' = FALSE /\ drains' = <<>> /\ broken' = FALSE
  /\ UNCHANGED <<task, pauser, consent, step, planStep>>

Crash ==
  /\ app # "closed" /\ faults < MaxFaults /\ faults' = faults + 1
  /\ Launched /\ UNCHANGED <<moves, deadlines>>

Launch == app = "closed" /\ Launched /\ UNCHANGED bounds

-----------------------------------------------------------------------------
Init ==
  /\ task = "waiting_for_approval" /\ pauser = "none"
  /\ consent \in [Actions -> {"pending", "approved"}]
  /\ exec = [a \in Actions |-> "none"] /\ step = [a \in Actions |-> "none"]
  /\ planStep = "pending" /\ mutating = {}
  /\ pc = [a \in Actions |-> "off"] /\ outcome = [a \in Actions |-> "ok"]
  /\ aborted = {} /\ target = [a \in Actions |-> "none"]
  /\ cancel = "no" /\ awaited = {}
  /\ app = "open" /\ sealed = FALSE /\ drains = <<>> /\ broken = FALSE
  /\ moves = 0 /\ deadlines = 0 /\ faults = 0

ExecutionStep(a) ==
  \/ Register(a) \/ Claim(a) \/ Check(a) \/ Prepare(a) \/ CreateStep(a) \/ Start(a)
  \/ MoveToRunning(a) \/ Guard(a) \/ BeginMutation(a) \/ WorkEnds(a)
  \/ RecordStep(a) \/ Decide(a) \/ CloseStep(a) \/ Settle(a) \/ WriteTask(a)
  \/ Report(a) \/ FailStep(a) \/ Judge(a) \/ BlockTask(a) \/ EndMutation(a) \/ Finish(a)

CancelStep == CancelExecution \/ CancelReturns

Next ==
  \/ \E a \in Actions : Execute(a) \/ ExecutionStep(a) \/ StorageFails(a) \/ Approve(a) \/ Reject(a)
  \/ Pause \/ Resume \/ Cancel \/ CancelStep
  \/ Quit \/ Deadline \/ Crash \/ Launch
  \/ \E i \in DOMAIN drains : DrainEnds(i)

Spec == Init /\ [][Next]_vars

\* Side effects end (they have time limits or obey their signal), and the event loop serves
\* every wait that is over, whatever else asks for a turn; a user who has closed the window
\* closes it again until the application is gone.
Fairness ==
  /\ \A a \in Actions : SF_vars(ExecutionStep(a))
  /\ WF_vars(CancelStep)
  /\ WF_vars(\E i \in DOMAIN drains : DrainEnds(i))
  /\ WF_vars(Quit /\ sealed)

FairSpec == Spec /\ Fairness

-----------------------------------------------------------------------------
(* Properties *)

\* Every variable has its type; only what is not a check counts as a change of the workspace.
TypeOK ==
  /\ task \in TaskStatus /\ pauser \in {"none", "user", "quit"}
  /\ consent \in [Actions -> {"pending", "approved", "rejected", "executed"}]
  /\ exec \in [Actions -> {"none", "running", "succeeded", "failed", "uncertain"}]
  /\ step \in [Actions -> {"none", "running", "succeeded", "failed"}]
  /\ planStep \in {"pending", "succeeded", "failed"} /\ mutating \subseteq Actions \ Checks
  /\ pc \in [Actions -> RealWaits \cup
       {"entered", "claiming", "checking", "creating", "starting", "moving", "guarding", "recording",
        "deciding", "closing", "settling", "writing", "failing", "judging", "blocking", "ending",
        "finishing"}]
  /\ outcome \in [Actions -> {"ok", "error", "cancelled", "failed", "unconfirmed"}]
  /\ aborted \subseteq Actions /\ awaited \subseteq Actions
  /\ target \in [Actions -> {"none", "waiting_for_approval", "ready_for_review"}]
  /\ cancel \in {"no", "stored", "waiting", "done"}
  /\ app \in {"open", "draining", "closed"} /\ sealed \in BOOLEAN /\ broken \in BOOLEAN
  /\ \A i \in DOMAIN drains : drains[i] \in
       [claims: SUBSET Actions, owned: BOOLEAN, interrupted: BOOLEAN, ended: BOOLEAN]

\* What the ledger says of an execution agrees with its step, its approval and its mutation,
\* wherever between two writes it failed (executeApprovedOnce and its catch blocks).
OutcomeTold ==
  \A a \in Actions :
    /\ exec[a] = "succeeded" =>
         step[a] = "succeeded" /\ consent[a] = "executed" /\ a \notin mutating
    /\ exec[a] = "failed" => step[a] = "failed" /\ consent[a] = "executed"
    /\ consent[a] = "executed" => exec[a] # "none"

\* Once the cancellation of a task has returned, nothing of the task runs and nothing
\* will: what is still on its way in is refused its claim (cancelTaskAndExecutions).
CancelIsComplete ==
  cancel = "done" => task = "cancelled" /\ \A a \in Actions : pc[a] \in {"off", "entered", "claiming"}

\* The storage is closed only when nothing runs: what a drain found in flight has a result and,
\* unless a storage call failed, every claim, step and mutation has its end
\* (installApplicationShutdown closes the database after the drain).
CloseIsClean ==
  app = "closed" =>
    /\ task \notin {"drafting", "running"}
    /\ \A a \in Actions : At(a, "off")
    /\ \A i \in DOMAIN drains : \A a \in drains[i].claims : exec[a] # "running"
    /\ faults = 0 => mutating = {} /\ \A a \in Actions : "running" \notin {exec[a], step[a]}

\* A quit leaves what it interrupted where its user can go on: a task whose execution it
\* stopped is blocked, open to review, and a pipeline without one stays paused (the drain's
\* two passes over the active tasks).
QuitLeavesAWayOn ==
  app = "closed" =>
    /\ \A i \in DOMAIN drains : drains[i].interrupted /\ drains[i].owned => task # "paused"
    /\ (Pipeline /\ drains[1].interrupted /\ \A i \in DOMAIN drains : ~drains[i].owned) =>
         task = "paused"

\* A quit, and what still ends after it, leaves alone what the user paused or cancelled
\* (pauseActiveTasks, and the catch block of the runner).
UserWins ==
  [][(sealed /\ sealed' /\ (task = "cancelled" \/ (task = "paused" /\ pauser = "user"))) =>
       task' = task]_vars

\* The application can be closed in the end, however often its drain expired, unless a result
\* could not be stored or a process may still be alive (the phases of the shutdown).
QuitSucceeds == sealed ~> (app = "closed" \/ broken \/ ~sealed)

\* A cancellation returns, whatever else is started meanwhile (cancelExecution).
CancelEnds == cancel = "stored" ~> cancel \in {"done", "no"}

-----------------------------------------------------------------------------
(* What the run checks, in parts named above *)

\* Executions, their rows and the cancellation of their task agree wherever
\* they are interrupted (executeApprovedOnce and cancelTaskAndExecutions).
ExecutionInv == TypeOK /\ OutcomeTold /\ CancelIsComplete

\* When the storage is closed nothing runs, and what was interrupted is left where
\* its user can go on (the drain and installApplicationShutdown).
QuitIsClean == CloseIsClean /\ QuitLeavesAWayOn

\* Whoever waits for the end of executions, a quit or a cancellation, gets it
\* (the phases of the shutdown and cancelExecution).
WaitsEnd == QuitSucceeds /\ CancelEnds
=============================================================================
