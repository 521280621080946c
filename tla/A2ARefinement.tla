---------------------------- MODULE A2ARefinement ----------------------------
(***************************************************************************)
(* Refinements of a remote agent's result: requestA2ARefinement, its       *)
(* approval, executeA2ARefinementApproval and the service that asks the    *)
(* remote agent again, for one task and one target invocation.             *)
(*                                                                         *)
(* These functions hold the LocalStateService itself, whose statements are *)
(* synchronous: the turn of the event loop ends only while the remote      *)
(* agent is asked.  Between two writes of a turn nobody else moves, but    *)
(* the process may die there, so every write is a step.                    *)
(*                                                                         *)
(* An execution does not claim its approval (claimExecution is not used    *)
(* here): the progression loop and the user may both be at it.             *)
(***************************************************************************)
EXTENDS TaskRunStatus, Naturals, Sequences, FiniteSets

CONSTANTS Feedbacks,                     \* feedback signatures of the target invocation
          Executions,                    \* concurrent calls of the executor
          MaxPerFeedback, MaxPerTask,    \* A2A_REFINEMENT_MAX_ATTEMPTS_...
          Moves,                         \* statuses other services move the task to
          MaxBegun, MaxMoves, MaxCrashes \* bounds on executions, on moves, on crashes

ASSUME RefinementAssumption ==
  /\ {MaxPerFeedback, MaxPerTask, MaxBegun, MaxMoves, MaxCrashes} \subseteq Nat
  /\ Moves \subseteq TaskStatus \ Closed

VARIABLES
  task,         \* status of the TaskRun
  enabled,      \* the endpoint is enabled and trusted
  attempts,     \* a2a_refinement_attempts, each with its approval and the step of that
  invocations,  \* agent_invocations of the refinements
  request,      \* where a request is: "none", "created", "proposed"
  pc, on, asked, answer,   \* an execution: where it is, its attempt, its invocation, what it heard
  doubled, cut, \* history: attempts two executions were at, and attempts a crash was in
  begun, moves, crashes

execution == <<pc, on, asked, answer>>
history == <<doubled, cut>>
bounds == <<begun, moves, crashes>>
vars == <<task, enabled, attempts, invocations, request, execution, history, bounds>>

\* What the remote agent may leave behind when the call returns; else the call throws: an
\* AbortError when it was cancelled on this side, another error when the remote task failed,
\* was rejected or cancelled there, or ran out of time.
Results == {"succeeded", "input_required", "auth_required"}
Answers == Results \cup {"failed", "cancelled"}

\* The predicate of the unique index, and ACTIVE_REFINEMENT_STATUSES of the policy.
Indexed == {"pending_approval", "queued", "running", "input_required", "auth_required"}
Active == {"pending_approval", "queued", "running", "input_required", "auth_required"}

Attempt == [feedback : Feedbacks,
            status   : Indexed \cup {"succeeded", "failed", "stopped", "cancelled"},
            approval : {"none", "pending", "approved", "rejected", "executed"},
            step     : {"none", "pending", "running", "succeeded", "failed"}]

Invocation == [attempt : Nat \ {0}, status : {"running", "succeeded", "failed", "cancelled"},
               answer : Answers \cup {"none"}]

Ids == DOMAIN attempts

-----------------------------------------------------------------------------
At(e, here) == pc[e] = here

Goto(e, there) == pc' = [pc EXCEPT ![e] = there]

\* Nobody is in the middle of a turn.
Yields == request = "none" /\ \A e \in Executions : pc[e] \in {"off", "waiting"}

\* Other executions that are at attempt i.
Company(e, i) == {f \in Executions \ {e} : pc[f] # "off" /\ on[f] = i}

\* Slip: an attempt that waits for input does not count as active.
ClashesPending(i, feedback) ==
  \E j \in Ids \ {i} : attempts[j].feedback = feedback /\ attempts[j].status = "pending_approval"

\* The unique index would hold attempt i and another one.
Clashes(i, feedback) ==
  \E j \in Ids \ {i} : attempts[j].feedback = feedback /\ attempts[j].status \in Indexed

\* The UPDATE of an invocation: one that was cancelled keeps its row.
Ended(e, status) ==
  IF invocations[asked[e]].status = "cancelled" THEN invocations
  ELSE [invocations EXCEPT ![asked[e]].status = status, ![asked[e]].answer = answer[e]]

\* attempts with the status of attempt i replaced.
WithStatus(i, status) == [attempts EXCEPT ![i].status = status]

-----------------------------------------------------------------------------
\* requestA2ARefinement

\* evaluateA2ARefinementPolicy
Permitted(feedback) ==
  LET same == {i \in Ids : attempts[i].feedback = feedback} IN
  /\ enabled
  /\ Len(attempts) < MaxPerTask
  /\ \A i \in same : attempts[i].status \notin Active
  /\ Cardinality(same) < MaxPerFeedback

\* The attempt comes first, so that the approval can point at it.
Request(feedback) ==
  /\ Yields
  /\ Permitted(feedback) /\ ~Clashes(0, feedback)
  /\ attempts' = Append(attempts, [feedback |-> feedback, status |-> "pending_approval",
                                   approval |-> "none", step |-> "none"])
  /\ request' = "created"
  /\ UNCHANGED <<task, enabled, invocations, execution, history, bounds>>

\* Step, checkpoint and approval.
Propose ==
  /\ request = "created"
  /\ attempts' = [attempts EXCEPT ![Len(attempts)].approval = "pending",
                                  ![Len(attempts)].step = "pending"]
  /\ request' = "proposed"
  /\ UNCHANGED <<task, enabled, invocations, execution, history, bounds>>

\* The task waits for the user; a cancelled one refuses, and what was created stays.
AwaitUser ==
  /\ request = "proposed"
  /\ task' = IF Allowed(task, "waiting_for_approval") THEN "waiting_for_approval" ELSE task
  /\ request' = "none"
  /\ UNCHANGED <<enabled, attempts, invocations, execution, history, bounds>>

-----------------------------------------------------------------------------
\* executeA2ARefinementApproval and runApprovedAttempt

\* The approval is read and found granted, and its step set running.
Begin(e, i) ==
  /\ Yields /\ At(e, "off") /\ begun < MaxBegun
  /\ attempts[i].approval = "approved"
  /\ attempts' = [attempts EXCEPT ![i].step = "running"]
  /\ Goto(e, "begun")
  /\ on' = [on EXCEPT ![e] = i] /\ asked' = [asked EXCEPT ![e] = 0]
  /\ answer' = [answer EXCEPT ![e] = "failed"]
  /\ doubled' = IF Company(e, i) = {} THEN doubled ELSE doubled \cup {i}
  /\ begun' = begun + 1
  /\ UNCHANGED <<task, enabled, invocations, request, cut, moves, crashes>>

\* Slip: the refusal of the status write is swallowed.
MoveToRunningAnyway(e) ==
  /\ At(e, "begun") /\ Goto(e, "moved")
  /\ task' = IF Allowed(task, "running") THEN "running" ELSE task
  /\ UNCHANGED <<enabled, attempts, invocations, request, on, asked, answer, history, bounds>>

\* setTaskRunStatus(running) stands before the try block: a refusal ends the
\* execution with its step left running.
MoveToRunning(e) ==
  /\ At(e, "begun")
  /\ \/ Allowed(task, "running") /\ task' = "running" /\ Goto(e, "moved")
     \/ ~Allowed(task, "running") /\ Goto(e, "off") /\ UNCHANGED task
  /\ UNCHANGED <<enabled, attempts, invocations, request, on, asked, answer, history, bounds>>

\* An endpoint that is not available stops the attempt; else there is a prompt
\* and a running invocation.
Prepare(e) ==
  /\ At(e, "moved")
  /\ \/ /\ enabled
        /\ invocations' = Append(invocations, [attempt |-> on[e], status |-> "running",
                                               answer |-> "none"])
        /\ asked' = [asked EXCEPT ![e] = Len(invocations) + 1]
        /\ Goto(e, "prepared") /\ UNCHANGED attempts
     \/ /\ ~enabled
        /\ attempts' = WithStatus(on[e], "stopped")
        /\ Goto(e, "failing") /\ UNCHANGED <<invocations, asked>>
  /\ UNCHANGED <<task, enabled, request, on, answer, history, bounds>>

\* The attempt is set running, whatever it was before, and the remote agent is
\* asked.  The index may refuse; that write stands before the service's try
\* block, so the invocation is left running.
Send(e) ==
  /\ At(e, "prepared")
  /\ \/ /\ ~Clashes(on[e], attempts[on[e]].feedback)
        /\ attempts' = WithStatus(on[e], "running") /\ Goto(e, "waiting")
     \/ /\ Clashes(on[e], attempts[on[e]].feedback)
        /\ Goto(e, "failing") /\ UNCHANGED attempts
  /\ UNCHANGED <<task, enabled, invocations, request, on, asked, answer, history, bounds>>

\* The call returns or throws; the request scope ends it at its time limit.
Hear(e, heard) ==
  /\ Yields /\ At(e, "waiting")
  /\ answer' = [answer EXCEPT ![e] = heard] /\ Goto(e, "answered")
  /\ UNCHANGED <<task, enabled, attempts, invocations, request, on, asked, history, bounds>>

\* Slip: a request for input or authentication leaves the invocation open.
EndInvocationIfFinal(e) ==
  /\ At(e, "answered") /\ Goto(e, "ended")
  /\ invocations' = IF answer[e] \in {"succeeded", "failed", "cancelled"}
                    THEN Ended(e, answer[e]) ELSE invocations
  /\ UNCHANGED <<task, enabled, attempts, request, on, asked, answer, history, bounds>>

\* The invocation ends: in persistResult, or in the catch block.
EndInvocation(e) ==
  /\ At(e, "answered") /\ Goto(e, "ended")
  /\ invocations' = Ended(e, IF answer[e] \in {"succeeded", "cancelled"} THEN answer[e] ELSE "failed")
  /\ UNCHANGED <<task, enabled, attempts, request, on, asked, answer, history, bounds>>

\* The attempt takes the outcome over.  A result that the index refuses is
\* caught and recorded as a failure, the invocation included.
Record(e) ==
  LET refused == answer[e] \in Indexed /\ Clashes(on[e], attempts[on[e]].feedback) IN
  /\ At(e, "ended")
  /\ \/ /\ refused
        /\ answer' = [answer EXCEPT ![e] = "failed"] /\ Goto(e, "answered")
        /\ UNCHANGED attempts
     \/ /\ ~refused
        /\ attempts' = WithStatus(on[e], answer[e])
        /\ Goto(e, IF answer[e] \in Results THEN "recorded" ELSE "failing")
        /\ UNCHANGED answer
  /\ UNCHANGED <<task, enabled, invocations, request, on, asked, history, bounds>>

EndStep(e) ==
  /\ At(e, "recorded") /\ Goto(e, "stepped")
  /\ attempts' = [attempts EXCEPT
       ![on[e]].step = IF answer[e] = "succeeded" THEN "succeeded" ELSE "failed"]
  /\ UNCHANGED <<task, enabled, invocations, request, on, asked, answer, history, bounds>>

\* decide(executed): refused for a task that is done or cancelled, and it
\* replaces a rejection that came meanwhile.
Consume(e) ==
  /\ At(e, "stepped")
  /\ \/ /\ task \notin Closed
        /\ attempts' = [attempts EXCEPT ![on[e]].approval = "executed"] /\ Goto(e, "consumed")
     \/ task \in Closed /\ Goto(e, "failing") /\ UNCHANGED attempts
  /\ UNCHANGED <<task, enabled, invocations, request, on, asked, answer, history, bounds>>

\* settleTaskRun
Target(e) ==
  IF answer[e] # "succeeded" THEN "blocked"
  ELSE IF \E i \in Ids : attempts[i].approval \in {"pending", "approved"}
       THEN "waiting_for_approval" ELSE "ready_for_review"

Settle(e) ==
  /\ At(e, "consumed")
  /\ \/ Allowed(task, Target(e)) /\ task' = Target(e) /\ Goto(e, "off")
     \/ ~Allowed(task, Target(e)) /\ Goto(e, "failing") /\ UNCHANGED task
  /\ UNCHANGED <<enabled, attempts, invocations, request, on, asked, answer, history, bounds>>

\* The catch block: the step fails, also one that had succeeded ...
FailStep(e) ==
  /\ At(e, "failing") /\ Goto(e, "blocking")
  /\ attempts' = [attempts EXCEPT ![on[e]].step = "failed"]
  /\ UNCHANGED <<task, enabled, invocations, request, on, asked, answer, history, bounds>>

\* ... and the task is blocked, or cancelled by an AbortError, where the table allows it.
Block(e) ==
  LET to == IF answer[e] = "cancelled" THEN "cancelled" ELSE "blocked" IN
  /\ At(e, "blocking") /\ Goto(e, "off")
  /\ task' = IF Allowed(task, to) THEN to ELSE task
  /\ UNCHANGED <<enabled, attempts, invocations, request, on, asked, answer, history, bounds>>

Execute(e) ==
  \/ \E i \in Ids : Begin(e, i)
  \/ MoveToRunning(e) \/ Prepare(e) \/ Send(e)
  \/ \E heard \in Answers : Hear(e, heard)
  \/ EndInvocation(e) \/ Record(e) \/ EndStep(e) \/ Consume(e) \/ Settle(e)
  \/ FailStep(e) \/ Block(e)

-----------------------------------------------------------------------------
\* The user, the other services and the process.

Approve(i) ==
  /\ Yields /\ task \notin Closed /\ attempts[i].approval = "pending"
  /\ attempts' = [attempts EXCEPT ![i].approval = "approved"]
  /\ UNCHANGED <<task, enabled, invocations, request, execution, history, bounds>>

\* rejectApproval: also of an approval being carried out, since it carries no
\* claim; the attempt is left as it is.
Reject(i) ==
  /\ Yields /\ task \notin Closed /\ attempts[i].approval \in {"pending", "approved"}
  /\ attempts' = [attempts EXCEPT ![i].approval = "rejected"]
  /\ task' = IF Allowed(task, "paused") THEN "paused" ELSE task
  /\ UNCHANGED <<enabled, invocations, request, execution, history, bounds>>

\* cancelInvocation: the row becomes cancelled, and nothing is aborted, because
\* the planning service does not know of the remote call.
CancelInvocation(v) ==
  /\ Yields /\ invocations[v].status = "running"
  /\ invocations' = [invocations EXCEPT ![v].status = "cancelled"]
  /\ UNCHANGED <<task, enabled, attempts, request, execution, history, bounds>>

\* cancelTaskAndExecutions: the task first, then all of its invocations.
CancelTask ==
  /\ Yields /\ moves < MaxMoves /\ task # "cancelled" /\ Allowed(task, "cancelled")
  /\ task' = "cancelled" /\ moves' = moves + 1
  /\ invocations' = [v \in DOMAIN invocations |->
       IF invocations[v].status = "running"
       THEN [invocations[v] EXCEPT !.status = "cancelled"] ELSE invocations[v]]
  /\ UNCHANGED <<enabled, attempts, request, execution, history, begun, crashes>>

\* setTaskRunStatus by the user or another service.
MoveTask(status) ==
  /\ Yields /\ moves < MaxMoves /\ status # task /\ Allowed(task, status)
  /\ task' = status /\ moves' = moves + 1
  /\ UNCHANGED <<enabled, attempts, invocations, request, execution, history, begun, crashes>>

\* completeTaskRun's test of approvals and steps.
Completable ==
  \A i \in Ids : attempts[i].approval \notin {"pending", "approved"} /\ attempts[i].step # "running"

CompleteTaskRun ==
  /\ Yields /\ task = "ready_for_review" /\ Completable
  /\ task' = "done"
  /\ UNCHANGED <<enabled, attempts, invocations, request, execution, history, bounds>>

\* The user disables or distrusts the endpoint, or allows it again.
ToggleEndpoint ==
  /\ Yields /\ moves < MaxMoves
  /\ enabled' = ~enabled /\ moves' = moves + 1
  /\ UNCHANGED <<task, attempts, invocations, request, execution, history, begun, crashes>>

\* The process dies, between any two writes, and starts again: no startup code
\* looks at attempts, invocations or steps.
Crash ==
  /\ crashes < MaxCrashes /\ crashes' = crashes + 1
  /\ cut' = cut \cup {on[e] : e \in {f \in Executions : pc[f] # "off"}}
  /\ pc' = [e \in Executions |-> "off"] /\ request' = "none"
  /\ UNCHANGED <<task, enabled, attempts, invocations, on, asked, answer, doubled, begun, moves>>

-----------------------------------------------------------------------------
Init ==
  /\ task = "ready_for_review" /\ enabled = TRUE
  /\ attempts = << >> /\ invocations = << >>
  /\ request = "none"
  /\ pc = [e \in Executions |-> "off"] /\ on = [e \in Executions |-> 0]
  /\ asked = [e \in Executions |-> 0] /\ answer = [e \in Executions |-> "failed"]
  /\ doubled = {} /\ cut = {}
  /\ begun = 0 /\ moves = 0 /\ crashes = 0

Next ==
  \/ \E feedback \in Feedbacks : Request(feedback)
  \/ Propose
  \/ AwaitUser
  \/ \E e \in Executions : Execute(e)
  \/ \E i \in Ids : Approve(i) \/ Reject(i)
  \/ \E v \in DOMAIN invocations : CancelInvocation(v)
  \/ CancelTask
  \/ \E status \in Moves : MoveTask(status)
  \/ CompleteTaskRun
  \/ ToggleEndpoint
  \/ Crash

Spec == Init /\ [][Next]_vars

-----------------------------------------------------------------------------
Types ==
  /\ task \in TaskStatus /\ enabled \in BOOLEAN
  /\ attempts \in Seq(Attempt) /\ invocations \in Seq(Invocation)
  /\ request \in {"none", "created", "proposed"}
  /\ on \in [Executions -> Nat] /\ asked \in [Executions -> Nat]
  /\ answer \in [Executions -> Answers]
  /\ {begun, moves, crashes} \subseteq Nat

\* Every row and every execution has the shape the code gives it, and an
\* execution that has asked the remote agent is the one whose invocation it
\* ends: executeA2ARefinementApproval and runApprovedAttempt.
TypeOK ==
  /\ Types
  /\ doubled \cup cut \subseteq Ids
  /\ \A e \in Executions :
       /\ pc[e] # "off" => on[e] \in Ids
       /\ pc[e] \in {"prepared", "waiting", "answered", "ended", "recorded"} =>
            asked[e] \in DOMAIN invocations /\ invocations[asked[e]].attempt = on[e]

\* The limits of the loop guard: per feedback, per task, and one active attempt
\* per feedback, also when an old attempt is carried out again beside a newer
\* one (evaluateA2ARefinementPolicy and the unique index behind create and update).
LimitsHold ==
  /\ Len(attempts) <= MaxPerTask
  /\ \A feedback \in Feedbacks :
       LET same == {i \in Ids : attempts[i].feedback = feedback} IN
       /\ Cardinality(same) <= MaxPerFeedback
       /\ Cardinality({i \in same : attempts[i].status \notin
                         {"succeeded", "failed", "stopped", "cancelled"}}) <= 1

\* What an attempt says of the remote agent's result is what an invocation of
\* it brought home, whichever of two executions wrote last and wherever the
\* process died (persistResult ends the invocation first); only an invocation
\* that was cancelled meanwhile does not tell.
ResultsAreBacked ==
  \A i \in Ids : attempts[i].status \in Results =>
    \E v \in DOMAIN invocations :
      /\ invocations[v].attempt = i
      /\ invocations[v].answer = attempts[i].status \/ invocations[v].status = "cancelled"

\* An approval is used up only by a result: until the remote agent has
\* answered and the attempt says how, a crash leaves it to be carried out
\* (the order of runApprovedAttempt and decideApproval in the executor).
ExecutedIsAnswered ==
  \A i \in Ids : attempts[i].approval = "executed" =>
    /\ attempts[i].status \notin {"pending_approval", "running"}
    /\ \E v \in DOMAIN invocations :
         invocations[v].attempt = i /\ invocations[v].status # "running"

\* An attempt is running only while an execution is at it, or when the process
\* died there: every way out of the service, also the refusals of the index,
\* ends it (runApprovedAttempt and its catch block).
AttemptsSettle ==
  \A i \in Ids : attempts[i].status = "running" =>
    i \in cut \/ \E e \in Executions : pc[e] # "off" /\ on[e] = i

\* No task is done while the remote agent is being asked for it, unless two
\* executions were at the same attempt: its step stays running, so
\* completeTaskRun refuses even when the approval is rejected meanwhile.
DoneIsQuiet ==
  task = "done" =>
    \A e \in Executions : At(e, "waiting") => on[e] \in doubled

\* The remote agent is asked only under a granted approval, for a task that is
\* neither done nor cancelled, at an endpoint that is enabled, and with the
\* attempt on record as running; the executor itself never looks at the task,
\* it relies on the transition table.
AskedUnderConsent ==
  [][\A e \in Executions : ~At(e, "waiting") /\ pc'[e] = "waiting" =>
       /\ enabled /\ task \notin Closed
       /\ attempts[on[e]].approval = "approved"
       /\ attempts'[on[e]].status = "running"]_vars

-----------------------------------------------------------------------------
(* What the run checks, in parts named above *)

\* The limits of the loop guard hold, no attempt is left running, and nothing is
\* asked for a task that is done (evaluateA2ARefinementPolicy, the unique index,
\* runApprovedAttempt and completeTaskRun).
RefinementInv == TypeOK /\ LimitsHold /\ AttemptsSettle /\ DoneIsQuiet

\* What attempts and approvals say happened did happen, also when two
\* executions wrote it or the process died in between (persistResult and the
\* order in which the executor uses the approval up).
AnswersAreBacked == ResultsAreBacked /\ ExecutedIsAnswered
=============================================================================
