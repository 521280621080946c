---------------------------- MODULE AgentPlanning ----------------------------
(***************************************************************************)
(* The model invocations of one TaskRun: AgentPlanningService over the     *)
(* agent_invocations table and the invocation queue, with cancellation by  *)
(* the user, by the cancellation of the task and by shutdown.              *)
(*                                                                         *)
(* Every operation runs once and owns one invocation, which names it: a    *)
(* plan (generatePlan), queued in the default lane, or a worker call       *)
(* (invokeForWorker) with a lane of its own.  Operations and cancellations *)
(* interleave at every await.  pc names the point an operation has reached; *)
(* "thrown" is the catch block of the model call, "abandoning" the         *)
(* outer catch of generatePlan and "releasing" the finally block.          *)
(***************************************************************************)
EXTENDS TaskRunStatus, InvocationQueue

CONSTANTS Plans, Workers,   \* the operations
          DefaultLane,      \* the lane of the provider
          MaxActions,       \* bound on the actions a plan proposes
          Moves,            \* statuses other services move the task to
          Origins           \* who asks for cancellations

\* Statuses of an invocation.
Open == {"queued", "running"}
Final == {"succeeded", "failed", "cancelled"}

ASSUME PlanningAssumption ==
  /\ Plans \cap Workers = {}
  /\ DefaultLane \notin Workers
  /\ NULL \notin Plans \cup Workers \cup Open \cup Final
  /\ MaxActions \in Nat
  /\ Moves \subseteq TaskStatus \ {"cancelled"}
  /\ Origins \subseteq {"user", "task", "shutdown"}

Ops == Plans \cup Workers
Lanes == Workers \cup {DefaultLane}

VARIABLES
  task,      \* status of the TaskRun
  row,       \* status of each agent_invocations row, NULL before it exists
  step,      \* status of the plan's Step
  pc,        \* where each operation is
  answer,    \* what the model call came to
  lifetime,  \* the operation's own abort signal has fired
  signal,    \* the queue entry's abort signal has fired
  left,      \* accepted actions for which no approval exists yet
  offers,    \* approvals created
  lanes,     \* the lanes of the queue
  cancel,    \* cancelInvocation calls under way, by who asked
  listing,   \* cancelTask is done, its invocations are not yet listed
  closed     \* shutdown has sealed the service

vars == <<task, row, step, pc, answer, lifetime, signal, left, offers, lanes,
          cancel, listing, closed>>

PC == {"idle", "preparing", "created", "refusing", "asserting", "starting", "readying",
       "queued", "snapshot", "invoking", "capturing", "answered", "thrown", "failing",
       "cancelling", "blocking", "parsing", "unparsable", "rejecting", "outofscope",
       "declining", "planned",
       "proposing", "moving", "closing", "confirming", "abandoning", "releasing", "ended"}

\* Known to activeInvocations.
Unregistered == {"idle", "preparing", "created", "ended"}
Registered(i) == pc[i] \notin Unregistered

\* Under way: owned by the service's AsyncWorkScope.
Pending(i) == pc[i] \notin {"idle", "ended"}

LaneFor(i) == IF i \in Workers THEN i ELSE DefaultLane

TypeOK ==
  /\ task \in TaskStatus
  /\ row \in [Ops -> Open \cup Final \cup {NULL}]
  /\ step \in [Plans -> {"none", "running", "succeeded", "failed"}]
  /\ pc \in [Ops -> PC]
  /\ answer \in [Ops -> {"none", "ok", "failed", "cancelled"}]
  /\ lifetime \in [Ops -> BOOLEAN]
  /\ signal \in [Ops -> BOOLEAN]
  /\ left \in [Plans -> 0..MaxActions]
  /\ offers \in [Plans -> 0..MaxActions]
  /\ lanes \in [Lanes -> [inflight : Ops \cup {NULL}, waiting : Seq(Ops)]]
  /\ cancel \in [Origins -> [Ops -> {"idle", "persisting", "aborting"}]]
  /\ listing \in BOOLEAN
  /\ closed \in BOOLEAN

Init ==
  /\ task = "drafting"
  /\ row = [i \in Ops |-> NULL]
  /\ step = [i \in Plans |-> "none"]
  /\ pc = [i \in Ops |-> "idle"]
  /\ answer = [i \in Ops |-> "none"]
  /\ lifetime = [i \in Ops |-> FALSE]
  /\ signal = [i \in Ops |-> FALSE]
  /\ left = [i \in Plans |-> 0]
  /\ offers = [i \in Plans |-> 0]
  /\ lanes = [l \in Lanes |-> EmptyLane]
  /\ cancel = [o \in Origins |-> [i \in Ops |-> "idle"]]
  /\ listing = FALSE
  /\ closed = FALSE

-----------------------------------------------------------------------------
(* Helpers *)

\* Slip: a late cancellation marks whatever it finds.
WinnerLastWrite(status, patch) == IF status = "cancelled" THEN status ELSE patch

\* The UPDATE of agent_invocations: a cancelled row keeps its status, and a
\* cancellation does not overtake a finished one.  The persisted winner is
\* what the caller gets back.
Winner(status, patch) ==
  IF status = "cancelled" \/ (patch = "cancelled" /\ status \in {"succeeded", "failed"})
  THEN status ELSE patch

Update(i, patch) == row' = [row EXCEPT ![i] = Winner(@, patch)]

Goto(i, point) == pc' = [pc EXCEPT ![i] = point]

\* throwIfInvocationCancelled, inside the try block that leads to caught.
GotoIfActive(i, point, caught) == Goto(i, IF lifetime'[i] THEN caught ELSE point)

\* An update whose persisted winner aborts the operation when it is a cancellation.
UpdateAndCheck(i, patch, point, caught) ==
  /\ Update(i, patch)
  /\ lifetime' = [lifetime EXCEPT ![i] = @ \/ row'[i] = "cancelled"]
  /\ GotoIfActive(i, point, caught)

SetStep(i, status) == step' = IF i \in Plans THEN [step EXCEPT ![i] = status] ELSE step

\* setTaskRunStatus: throws when the transition is refused, or when another
\* write comes between its read and its compare-and-swap.
SetTask(i, status, point, caught) ==
  \/ Allowed(task, status) /\ task' = status /\ Goto(i, point)
  \/ task' = task /\ Goto(i, caught)

external == <<listing, closed, cancel>>
data == <<left, offers>>

-----------------------------------------------------------------------------
(* From the call to the queue *)

\* generatePlan: accepted in the statuses that await a plan; its plan step runs.
GeneratePlan(i) ==
  /\ ~closed /\ i \in Plans /\ pc[i] = "idle"
  /\ task \in {"drafting", "blocked", "quality_failed"}
  /\ SetStep(i, "running")
  /\ Goto(i, "preparing")
  /\ UNCHANGED <<task, row, answer, lifetime, signal, data, lanes, external>>

\* retryInvocation: the same for an invocation that is no longer owned.
RetryInvocation(i, previous) ==
  /\ row[previous] # NULL /\ ~Registered(previous)
  /\ ~Busy(lanes[LaneFor(previous)], previous)
  /\ GeneratePlan(i)

InvokeForWorker(i) ==
  /\ ~closed /\ i \in Workers /\ pc[i] = "idle"
  /\ Goto(i, "preparing")
  /\ UNCHANGED <<task, row, step, answer, lifetime, signal, data, lanes, external>>

CreateInvocation(i) ==
  /\ pc[i] = "preparing"
  /\ row' = [row EXCEPT ![i] = "queued"]
  /\ Goto(i, "created")
  /\ UNCHANGED <<task, step, answer, lifetime, signal, data, lanes, external>>

\* The controller is registered; a sealed service refuses the operation.
Register(i) ==
  /\ pc[i] = "created"
  /\ Goto(i, IF closed THEN "refusing" ELSE "asserting")
  /\ UNCHANGED <<task, row, step, answer, lifetime, signal, data, lanes, external>>

RefuseWhenClosed(i) ==
  /\ pc[i] = "refusing"
  /\ Update(i, "cancelled")
  /\ lifetime' = [lifetime EXCEPT ![i] = TRUE]
  /\ Goto(i, "asserting")
  /\ UNCHANGED <<task, step, answer, signal, data, lanes, external>>

\* Slip: what was persisted before registration is not read.
AssertNothing(i) ==
  /\ pc[i] = "asserting"
  /\ UNCHANGED lifetime
  /\ GotoIfActive(i, "starting", "thrown")
  /\ UNCHANGED <<task, row, step, answer, signal, data, lanes, external>>

\* assertInvocationActive: what was persisted before registration counts.
AssertActive(i) ==
  /\ pc[i] = "asserting"
  /\ lifetime' = [lifetime EXCEPT ![i] = @ \/ row[i] = "cancelled" \/ task = "cancelled"]
  /\ GotoIfActive(i, "starting", "thrown")
  /\ UNCHANGED <<task, row, step, answer, signal, data, lanes, external>>

Start(i) ==
  /\ pc[i] = "starting"
  /\ UpdateAndCheck(i, "running", "readying", "thrown")
  /\ UNCHANGED <<task, step, answer, signal, data, lanes, external>>

\* MCP servers and advisory records are prepared, then the entry is queued.
Enqueue(i) ==
  /\ pc[i] = "readying" /\ ~lifetime[i]
  /\ lanes' = [lanes EXCEPT ![LaneFor(i)] = Enqueued(@, i)]
  /\ Goto(i, "queued")
  /\ UNCHANGED <<task, row, step, answer, lifetime, signal, data, external>>

\* The preparation fails, or ends after a cancellation.
PreparationThrows(i) ==
  /\ pc[i] = "readying"
  /\ answer' = [answer EXCEPT ![i] = IF lifetime[i] THEN "cancelled" ELSE "failed"]
  /\ Goto(i, "thrown")
  /\ UNCHANGED <<task, row, step, lifetime, signal, data, lanes, external>>

-----------------------------------------------------------------------------
(* In the lane *)

InFlight(i) == lanes[LaneFor(i)].inflight = i

\* The lane lets go of its entry, and serves the next.
LeaveLane(i) == lanes' = [lanes EXCEPT ![LaneFor(i)] = Settled(@)]

\* The entry's work begins: a snapshot of the workspace, unless cancelled.
BeginWork(i) ==
  /\ pc[i] = "queued" /\ InFlight(i)
  /\ IF lifetime[i] \/ signal[i]
     THEN /\ answer' = [answer EXCEPT ![i] = "cancelled"]
          /\ LeaveLane(i)
          /\ Goto(i, "thrown")
     ELSE /\ UNCHANGED <<answer, lanes>>
          /\ Goto(i, "snapshot")
  /\ UNCHANGED <<task, row, step, lifetime, signal, data, external>>

\* The CLI process is started, unless cancelled.
Spawn(i) ==
  /\ pc[i] = "snapshot"
  /\ IF lifetime[i] \/ signal[i]
     THEN answer' = [answer EXCEPT ![i] = "cancelled"] /\ Goto(i, "capturing")
     ELSE answer' = answer /\ Goto(i, "invoking")
  /\ UNCHANGED <<task, row, step, lifetime, signal, data, lanes, external>>

\* The process ends: with an answer, even after a signal, with a failure or a
\* timeout, or stopped by the signal.
ProcessEnds(i, outcome) ==
  /\ pc[i] = "invoking"
  /\ outcome = "cancelled" => signal[i]
  /\ answer' = [answer EXCEPT ![i] = outcome]
  /\ Goto(i, "capturing")
  /\ UNCHANGED <<task, row, step, lifetime, signal, data, lanes, external>>

\* The second snapshot is taken and the entry settles.
SettleEntry(i) ==
  /\ pc[i] = "capturing"
  /\ LeaveLane(i)
  /\ Goto(i, IF answer[i] = "ok" THEN "answered" ELSE "thrown")
  /\ UNCHANGED <<task, row, step, answer, lifetime, signal, data, external>>

-----------------------------------------------------------------------------
(* The model call did not succeed *)

Cancelled(i) == lifetime[i] \/ answer[i] = "cancelled"

\* The diagnostic log is written.
Diagnose(i) ==
  /\ pc[i] = "thrown"
  /\ Goto(i, IF i \in Plans /\ Cancelled(i) THEN "cancelling" ELSE "failing")
  /\ UNCHANGED <<task, row, step, answer, lifetime, signal, data, lanes, external>>

PersistCancelled(i) ==
  /\ pc[i] = "cancelling"
  /\ Update(i, "cancelled")
  /\ SetStep(i, "failed")
  /\ Goto(i, "abandoning")
  /\ UNCHANGED <<task, answer, lifetime, signal, data, lanes, external>>

\* Slip: the winner of the update is not looked at.
PersistFailedBlindly(i) ==
  /\ pc[i] = "failing" /\ i \in Plans
  /\ IF lifetime[i]
     THEN UNCHANGED row /\ Goto(i, "abandoning")
     ELSE Update(i, "failed") /\ Goto(i, "blocking")
  /\ UNCHANGED <<task, step, answer, lifetime, signal, data, lanes, external>>

\* A plan's call failed; a cancellation that came first wins.
PersistFailed(i) ==
  /\ pc[i] = "failing" /\ i \in Plans
  /\ IF lifetime[i]
     THEN UNCHANGED <<row, lifetime>> /\ Goto(i, "abandoning")
     ELSE UpdateAndCheck(i, "failed", "blocking", "abandoning")
  /\ UNCHANGED <<task, step, answer, signal, data, lanes, external>>

BlockTask(i) ==
  /\ pc[i] \in {"blocking", "rejecting"}
  /\ SetStep(i, "failed")
  /\ SetTask(i, "blocked", "abandoning", "abandoning")
  /\ UNCHANGED <<row, answer, lifetime, signal, data, lanes, external>>

\* A worker's call ended badly; the owner of the step hears the outcome.
PersistWorkerOutcome(i) ==
  /\ pc[i] = "failing" /\ i \in Workers
  /\ UpdateAndCheck(i, IF Cancelled(i) THEN "cancelled" ELSE "failed", "releasing", "releasing")
  /\ UNCHANGED <<task, step, answer, signal, data, lanes, external>>

-----------------------------------------------------------------------------
(* The model answered *)

\* The first check after the answer, and the raw output artifact.
RecordOutput(i) ==
  /\ pc[i] = "answered"
  /\ UNCHANGED lifetime
  /\ GotoIfActive(i, "parsing", IF i \in Plans THEN "abandoning" ELSE "thrown")
  /\ UNCHANGED <<task, row, step, answer, signal, data, lanes, external>>

\* The output is not a plan; or it is one that the caller's validatePlan turns
\* down, in a catch block a cancellation may lead to as well; or its artifact
\* is written.
Parse(i) ==
  /\ pc[i] = "parsing" /\ i \in Plans
  /\ UNCHANGED lifetime
  /\ \/ GotoIfActive(i, "unparsable", "abandoning") /\ UNCHANGED left
     \/ Goto(i, "outofscope") /\ UNCHANGED left
     \/ /\ \E n \in 0..MaxActions : left' = [left EXCEPT ![i] = n]
        /\ GotoIfActive(i, "planned", "abandoning")
  /\ UNCHANGED <<task, row, step, answer, signal, offers, lanes, external>>

ParseWorkerOutput(i) ==
  /\ pc[i] = "parsing" /\ i \in Workers
  /\ UNCHANGED lifetime
  /\ \/ GotoIfActive(i, "closing", "thrown") /\ UNCHANGED answer
     \/ Goto(i, "thrown") /\ answer' = [answer EXCEPT ![i] = "failed"]
  /\ UNCHANGED <<task, row, step, signal, data, lanes, external>>

\* The winner of these updates is not looked at.
PersistRefusal(i) ==
  /\ pc[i] \in {"unparsable", "outofscope"}
  /\ Update(i, "failed")
  /\ Goto(i, IF pc[i] = "unparsable" THEN "rejecting" ELSE "declining")
  /\ UNCHANGED <<task, step, answer, lifetime, signal, data, lanes, external>>

\* A plan out of scope blocks its task unless it was cancelled or somebody
\* stopped the task meanwhile.
DeclinePlan(i) ==
  /\ pc[i] = "declining"
  /\ SetStep(i, "failed")
  /\ IF lifetime[i] \/ task \in {"paused", "cancelled", "done"}
     THEN task' = task /\ Goto(i, "abandoning")
     ELSE SetTask(i, "blocked", "abandoning", "abandoning")
  /\ UNCHANGED <<row, answer, lifetime, signal, data, lanes, external>>

AcceptPlan(i) ==
  /\ pc[i] = "planned"
  /\ UNCHANGED lifetime
  /\ IF lifetime[i] THEN UNCHANGED step ELSE SetStep(i, "succeeded")
  /\ GotoIfActive(i, "proposing", "abandoning")
  /\ UNCHANGED <<task, row, answer, signal, data, lanes, external>>

\* Slip: the loop over the accepted actions does not stop for a cancellation.
ProposeThrough(i) ==
  /\ pc[i] = "proposing"
  /\ UNCHANGED lifetime
  /\ IF left[i] = 0
     THEN UNCHANGED data /\ GotoIfActive(i, "moving", "abandoning")
     ELSE /\ left' = [left EXCEPT ![i] = @ - 1]
          /\ offers' = [offers EXCEPT ![i] = @ + 1]
          /\ UNCHANGED pc
  /\ UNCHANGED <<task, row, step, answer, signal, lanes, external>>

\* One approval per accepted action.
Propose(i) ==
  /\ pc[i] = "proposing"
  /\ UNCHANGED lifetime
  /\ IF lifetime[i] \/ left[i] = 0
     THEN /\ UNCHANGED data
          /\ GotoIfActive(i, "moving", "abandoning")
     ELSE /\ left' = [left EXCEPT ![i] = @ - 1]
          /\ offers' = [offers EXCEPT ![i] = @ + 1]
          /\ UNCHANGED pc
  /\ UNCHANGED <<task, row, step, answer, signal, lanes, external>>

\* setTaskRunStatus, after the last check before it.
MoveTaskOn(i) ==
  /\ pc[i] = "moving"
  /\ SetTask(i, IF offers[i] = 0 THEN "ready_for_review" ELSE "waiting_for_approval",
             "closing", "abandoning")
  /\ UNCHANGED <<row, step, answer, lifetime, signal, data, lanes, external>>

PersistSucceeded(i) ==
  /\ pc[i] = "closing"
  /\ Update(i, "succeeded")
  /\ Goto(i, "confirming")
  /\ UNCHANGED <<task, step, answer, lifetime, signal, data, lanes, external>>

\* The last check; a worker that fails it ends in its catch block.
Confirm(i) ==
  /\ pc[i] = "confirming"
  /\ UNCHANGED lifetime
  /\ GotoIfActive(i, "releasing", IF i \in Plans THEN "abandoning" ELSE "thrown")
  /\ UNCHANGED <<task, row, step, answer, signal, data, lanes, external>>

\* The outer catch: a cancelled plan's step fails.
Abandon(i) ==
  /\ pc[i] = "abandoning"
  /\ IF lifetime[i] THEN SetStep(i, "failed") ELSE UNCHANGED step
  /\ Goto(i, "releasing")
  /\ UNCHANGED <<task, row, answer, lifetime, signal, data, lanes, external>>

\* MCP resources are cleaned up, and the controller is dropped.
Release(i) ==
  /\ pc[i] = "releasing"
  /\ Goto(i, "ended")
  /\ UNCHANGED <<task, row, step, answer, lifetime, signal, data, lanes, external>>

-----------------------------------------------------------------------------
(* Cancellation *)

\* cancelInvocation: the row is read, and left alone when it is final.
CancelInvocation(i) ==
  /\ "user" \in Origins /\ row[i] \in Open /\ cancel["user"][i] = "idle"
  /\ cancel' = [cancel EXCEPT !["user"][i] = "persisting"]
  /\ UNCHANGED <<task, row, step, pc, answer, lifetime, signal, data, lanes, listing, closed>>

\* Persist first: only a cancellation that won goes on to abort.  Shutdown
\* aborts what it found registered whatever became of the row.
PersistCancellation(o, i) ==
  /\ cancel[o][i] = "persisting"
  /\ Update(i, "cancelled")
  /\ cancel' = [cancel EXCEPT ![o][i] =
                  IF row'[i] = "cancelled" \/ o = "shutdown" THEN "aborting" ELSE "idle"]
  /\ UNCHANGED <<task, step, pc, answer, lifetime, signal, data, lanes, listing, closed>>

\* Slip: an entry that waits leaves the lane and nobody is told.
AbortSilently(o, i) ==
  /\ cancel[o][i] = "aborting"
  /\ cancel' = [cancel EXCEPT ![o][i] = "idle"]
  /\ lifetime' = [lifetime EXCEPT ![i] = @ \/ Registered(i)]
  /\ signal' = [signal EXCEPT ![i] = @ \/ InFlight(i)]
  /\ lanes' = [lanes EXCEPT ![LaneFor(i)] = Withdrawn(@, i)]
  /\ UNCHANGED <<task, row, step, pc, answer, data, listing, closed>>

\* The controller is aborted if it is registered.  An entry in flight gets its
\* signal; one that waits leaves the lane and its operation is rejected.
Abort(o, i) ==
  /\ cancel[o][i] = "aborting"
  /\ cancel' = [cancel EXCEPT ![o][i] = "idle"]
  /\ lifetime' = [lifetime EXCEPT ![i] = @ \/ Registered(i)]
  /\ signal' = [signal EXCEPT ![i] = @ \/ InFlight(i)]
  /\ IF ~InFlight(i) /\ Waits(lanes[LaneFor(i)], i)
     THEN /\ lanes' = [lanes EXCEPT ![LaneFor(i)] = Withdrawn(@, i)]
          /\ answer' = [answer EXCEPT ![i] = "cancelled"]
          /\ Goto(i, "thrown")
     ELSE UNCHANGED <<lanes, answer, pc>>
  /\ UNCHANGED <<task, row, step, data, listing, closed>>

\* cancelTaskAndExecutions: the task is cancelled first, so that what is about
\* to start finds out; then its invocations are listed and cancelled.
CancelTask ==
  /\ "task" \in Origins /\ task \notin Closed
  /\ task' = "cancelled"
  /\ listing' = TRUE
  /\ UNCHANGED <<row, step, pc, answer, lifetime, signal, data, lanes, cancel, closed>>

CancelTaskInvocations ==
  /\ listing
  /\ listing' = FALSE
  /\ cancel' = [cancel EXCEPT !["task"] =
                  [i \in Ops |-> IF row[i] \in Open THEN "persisting" ELSE @[i]]]
  /\ UNCHANGED <<task, row, step, pc, answer, lifetime, signal, data, lanes, closed>>

\* Any other service moves the task.
MoveTask(status) ==
  /\ Allowed(task, status)
  /\ task' = status
  /\ UNCHANGED <<row, step, pc, answer, lifetime, signal, data, lanes, external>>

\* shutdown: the service is sealed and what is registered is cancelled; it
\* resolves once nothing is under way.
Shutdown ==
  /\ "shutdown" \in Origins /\ ~closed
  /\ closed' = TRUE
  /\ cancel' = [cancel EXCEPT !["shutdown"] =
                  [i \in Ops |-> IF ~Registered(i) THEN "idle"
                                 ELSE IF row[i] \in Open THEN "persisting" ELSE "aborting"]]
  /\ UNCHANGED <<task, row, step, pc, answer, lifetime, signal, data, lanes, listing>>

\* The promise of shutdown resolves.
ShutdownResolved ==
  closed /\ \A i \in Ops : ~Pending(i) /\ cancel["shutdown"][i] = "idle"

-----------------------------------------------------------------------------
\* The steps of operation i.
Step(i) ==
  \/ CreateInvocation(i) \/ Register(i) \/ RefuseWhenClosed(i) \/ AssertActive(i)
  \/ Start(i) \/ Enqueue(i) \/ PreparationThrows(i)
  \/ BeginWork(i) \/ Spawn(i) \/ SettleEntry(i)
  \/ \E outcome \in {"ok", "failed", "cancelled"} : ProcessEnds(i, outcome)
  \/ Diagnose(i) \/ PersistCancelled(i) \/ PersistFailed(i) \/ BlockTask(i)
  \/ PersistWorkerOutcome(i)
  \/ RecordOutput(i) \/ Parse(i) \/ ParseWorkerOutput(i) \/ PersistRefusal(i) \/ DeclinePlan(i)
  \/ AcceptPlan(i) \/ Propose(i) \/ MoveTaskOn(i) \/ PersistSucceeded(i)
  \/ Confirm(i) \/ Abandon(i) \/ Release(i)

Cancelling(o, i) == PersistCancellation(o, i) \/ Abort(o, i)

Request(i) ==
  \/ GeneratePlan(i)
  \/ \E previous \in Ops : RetryInvocation(i, previous)
  \/ InvokeForWorker(i)
  \/ CancelInvocation(i)

Next ==
  \/ \E i \in Ops : Step(i) \/ Request(i) \/ \E o \in Origins : Cancelling(o, i)
  \/ CancelTask
  \/ CancelTaskInvocations
  \/ \E status \in Moves : MoveTask(status)
  \/ Shutdown

Spec == Init /\ [][Next]_vars

\* Awaits are resumed, and the CLI adapter ends its process: by itself, by its
\* timeouts, or on the signal.
Fairness ==
  /\ \A i \in Ops : WF_vars(Step(i))
  /\ \A i \in Ops, o \in Origins : WF_vars(Cancelling(o, i))
  /\ WF_vars(CancelTaskInvocations)

FairSpec == Spec /\ Fairness
-----------------------------------------------------------------------------
(* Safety *)

CliRuns(i) == pc[i] \in {"snapshot", "invoking", "capturing"}

\* A lane serves one invocation at a time, every queued operation has exactly
\* one entry, and nothing else has one: cancelling a waiting entry, cancelling
\* the one in flight and an entry that settles leave no slot taken and no
\* second process behind (agent-invocation-queue.test.mjs: i3 must not start
\* until i1 finishes).
LanesAreExclusive ==
  \A i \in Ops :
    /\ CliRuns(i) => InFlight(i)
    /\ InFlight(i) => pc[i] = "queued" \/ CliRuns(i)
    /\ pc[i] = "queued" <=> Waits(lanes[LaneFor(i)], i) \/ (InFlight(i) /\ ~CliRuns(i))
    /\ lanes[LaneFor(i)].inflight = NULL => lanes[LaneFor(i)].waiting = <<>>

\* No cancellation of i stands between its UPDATE and its abort.
CancelSettled(i) == \A o \in Origins : cancel[o][i] # "aborting"

\* Whichever cancellation persisted, and wherever the operation was at that
\* time (before its row was published, before its controller was registered,
\* in preparation, waiting, in flight), once the cancellation is through the
\* process has its signal and nothing that waits will start.
CancelReachesProcess ==
  \A i \in Ops : row[i] = "cancelled" /\ CancelSettled(i) =>
    /\ CliRuns(i) /\ answer[i] = "none" => signal[i]
    /\ pc[i] \in {"starting", "readying", "queued"} => lifetime[i] \/ signal[i]
    /\ ~Waits(lanes[LaneFor(i)], i)

\* The same for a cancelled task, whose invocations may be created after it
\* listed those it had to cancel.
CancelledTaskIsSilent ==
  task = "cancelled" /\ ~listing => \A i \in Ops :
    pc[i] = "invoking" /\ CancelSettled(i) /\ cancel["task"][i] = "idle" => signal[i]

\* An operation that ends leaves a final row, whatever happened to it, with one
\* exception: a plan that was accepted and could not move its task.
EndedIsSettled ==
  \A i \in Ops : pc[i] = "ended" =>
    \/ row[i] \in Final
    \/ i \in Plans /\ answer[i] = "ok" /\ step[i] = "succeeded"

\* Only an invocation that did fail blocks its task: a failure of the model
\* call that comes after a cancellation does not.
OnlyFailuresBlock == \A i \in Ops : pc[i] = "blocking" => row[i] = "failed"

\* A final status is final: no late start, outcome or cancellation rewrites it.
FinalIsFinal == [][\A i \in Ops : row[i] \in Final => row'[i] = row[i]]_vars

\* After shutdown is called no model process starts, but for operations whose
\* cancellation by shutdown has yet to come through.
SealedStartsNothing ==
  [][\A i \in Ops : closed /\ pc[i] # "invoking" /\ pc'[i] = "invoking" =>
       cancel["shutdown"][i] # "idle"]_vars

\* A cancelled invocation gets nothing done any more: no process starts, no
\* approval is created, no step succeeds.
CancelledDoesNothing ==
  [][\A i \in Ops : row[i] = "cancelled" /\ CancelSettled(i) =>
       /\ pc'[i] = "invoking" => pc[i] = "invoking"
       /\ i \in Plans => offers'[i] = offers[i]
       /\ i \in Plans /\ step'[i] = "succeeded" => step[i] = "succeeded"]_vars

(* Liveness *)

\* What is queued gets its turn or is withdrawn.
QueueAdvances == \A i \in Ops : pc[i] = "queued" ~> pc[i] # "queued"

\* A cancelled invocation ends.
CancelledEnds == \A i \in Ops : row[i] = "cancelled" ~> pc[i] = "ended"

\* Shutdown resolves, and every invocation it found is over.
ShutdownResolves == closed ~> ShutdownResolved

-----------------------------------------------------------------------------
(* What the runs check, in parts named above *)

\* Rows and operations fit together: their types, the row an operation leaves
\* when it ends, and the row of one that blocks its task (generatePlanOnce and
\* invokeForWorkerOnce with their catch and finally blocks).
PlanningInv == TypeOK /\ EndedIsSettled /\ OnlyFailuresBlock

\* A cancellation of an invocation or of its task arrives, wherever the
\* operation is (cancelInvocation, cancelTaskInvocations, assertInvocationActive).
CancellationsArrive == CancelReachesProcess /\ CancelledTaskIsSilent

\* Shutdown lets nothing start behind its back, ends what it cancels, and
\* resolves (shutdown of the planning service over its work scope).
ShutdownIsComplete == SealedStartsNothing /\ CancelledEnds /\ ShutdownResolves
=============================================================================
