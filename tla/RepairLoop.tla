----------------------------- MODULE RepairLoop -----------------------------
(***************************************************************************)
(* The repair of one TaskRun whose quality gate does not pass.             *)
(*                                                                         *)
(* RepairLoopService.createRepairPlan reserves an attempt for the latest   *)
(* gate (one transaction over repair_attempts and quality_gate_results),   *)
(* asks the model for a plan and records what came of it; without a model  *)
(* it falls back to a template.  It has two callers: the user, and the     *)
(* host, which recovers from a confirmed failure of a check: it evaluates  *)
(* the gate, applies it, rejects what is left of the failed plan and only  *)
(* then asks for a repair.                                                 *)
(*                                                                         *)
(* A plan is a checkpoint with its approvals: one check and the Rest.  The *)
(* operations of the runner, of the model invocation and of the ledger are *)
(* taken at the grain this component sees (TaskExecution, AgentPlanning    *)
(* and ApprovalRows have their steps).                                     *)
(***************************************************************************)
EXTENDS TaskRunStatus, Naturals, Sequences, SequencesExt

CONSTANTS Unverifiable, \* the failure identity that cannot be read
          Outcomes,     \* what an evaluation may come to: a status and a failure identity
          Rest,         \* the other approvals of a plan
          Proposals,    \* the rows the model may propose, none among them
          MaxAttempts,  \* maxAttempts of the service
          Moves,        \* statuses the user and other services move the task to
          MaxGates, MaxPlans, MaxMoves, MaxFaults   \* bounds

ASSUME RepairAssumption ==
  /\ \A g \in Outcomes : g.status \in {"failed", "warning", "passed", "not_run"}
  /\ "check" \notin Rest
  /\ {} \in Proposals /\ Proposals \subseteq SUBSET ({"check"} \cup Rest)
  /\ MaxAttempts \in Nat /\ MaxGates \in Nat /\ MaxPlans \in Nat \ {0}
  /\ MaxMoves \in Nat /\ MaxFaults \in Nat
  /\ Moves \subseteq TaskStatus

Callers == {"host", "user"}
Rows == {"check"} \cup Rest

VARIABLES
  task,      \* status of the TaskRun
  gates,     \* quality_gate_results, by rowid
  attempts,  \* repair_attempts, by attempt_index
  plans,     \* the plans, in the order their checkpoints were created
  retried,   \* the plans whose check has a retry_approval_id
  pc,        \* where each call is
  job,       \* what it works on: a gate, an attempt, a plan and the error it met
  failed,    \* the plan whose check failed, that the host recovers from
  left,      \* rows of it the host has still to reject
  found,     \* the row the host is rejecting, and the status it read
  applying,  \* the gate the user's evaluation is about to apply
  cut,       \* attempts cut off: their invocation was cancelled, or the storage failed them
  moves, faults

stored == <<task, gates, attempts, plans, retried>>
recovery == <<failed, left, found>>
bounds == <<moves, faults>>
vars == <<stored, pc, job, recovery, applying, cut, bounds>>

Idle == [gate |-> 0, attempt |-> 0, plan |-> 0, error |-> "none"]

\* The host is not rejecting a row.
Nothing == [row |-> "check", status |-> "absent"]

\* A row before it exists, and when it is proposed.
Absent == [status |-> "absent", exec |-> "none"]
Proposed == [status |-> "pending", exec |-> "none"]

TypeOK ==
  /\ task \in TaskStatus
  /\ gates \in Seq(Outcomes)
  /\ attempts \in Seq([gate : 1..MaxGates, status : {"planned", "waiting_for_approval", "stopped"}])
  /\ plans \in Seq([by : {"plan", "agent", "template", "retry"}, attempt : 0..MaxAttempts,
                    replaces : 0..MaxPlans,
                    rows : [Rows -> [status : {"absent", "pending", "approved", "rejected", "executed"},
                                     exec : {"none", "claimed", "running", "failed", "succeeded",
                                             "uncertain"}]]])
  /\ retried \subseteq 1..MaxPlans
  /\ pc \in [Callers -> {"idle", "evaluating", "applying", "reading", "retiring", "deciding",
                         "closing", "requesting", "reserving", "entering", "planning", "moving",
                         "recording", "stopping", "falling", "drafting", "settling"}]
  /\ job \in [Callers -> [gate : 0..MaxGates, attempt : 0..MaxAttempts, plan : 0..MaxPlans,
                          error : {"none", "provider", "other"}]]
  /\ failed \in 0..MaxPlans /\ left \subseteq Rows
  /\ found \in [row : Rows, status : {"absent", "pending", "approved"}]
  /\ applying \in 0..MaxGates
  /\ cut \subseteq 1..MaxAttempts
  /\ moves \in 0..MaxMoves /\ faults \in 0..MaxFaults

-----------------------------------------------------------------------------
(* Helpers *)

Goto(c, point) == pc' = [pc EXCEPT ![c] = point]

\* The call returns or throws.
Return(c) == Goto(c, "idle") /\ job' = [job EXCEPT ![c] = Idle]

\* It throws into the catch block of createRepairPlan.
Catch(c, error) == Goto(c, "stopping") /\ job' = [job EXCEPT ![c].error = error]

Proposing(rows) == [r \in Rows |-> IF r \in rows THEN Proposed ELSE Absent]

Row(p, r) == plans[p].rows[r]
SetRow(p, r, row) == plans' = [plans EXCEPT ![p].rows[r] = row]

OpenRow(row) == row.status \in {"pending", "approved"}

\* isUnresolvedApproval of the runner
Unresolved(rows) == \E r \in Rows : OpenRow(rows[r])

AddPlan(c, by, rows) ==
  plans' = Append(plans, [by |-> by, attempt |-> job[c].attempt,
                          replaces |-> IF c = "host" THEN failed ELSE 0, rows |-> rows])

\* Where the host recovers, and where a call is in the try block of createRepairPlan.
Recovering == {"evaluating", "applying", "reading", "retiring", "deciding", "closing"}
Trying == {"entering", "planning", "moving", "recording"}

\* A plan's steps run, or its invocation is not over.
Planning == \E c \in Callers : pc[c] \in {"planning", "moving"}
Executing(exec) == \E p \in DOMAIN plans, r \in Rows : Row(p, r).exec \in exec

Command == moves < MaxMoves /\ moves' = moves + 1

-----------------------------------------------------------------------------
(* The reservation *)

\* Two failures are the same: by their checkers, with what they reported when
\* both tell; or by the words of their gates when one has no checker.
Repeated(f, g) ==
  IF f.checkers /\ g.checkers
  THEN IF f.details /\ g.details THEN f.signature = g.signature ELSE f.base = g.base
  ELSE f.basis = g.basis

FailureOf(g) == gates[g].failure

\* Slip: attempts that are over are not compared.
ReservableOverlooked(g) ==
  /\ g = Len(gates) /\ gates[g].status # "passed"
  /\ Len(attempts) < MaxAttempts
  /\ FailureOf(g) # Unverifiable
  /\ \A i \in DOMAIN attempts : attempts[i].status = "planned" =>
       /\ FailureOf(attempts[i].gate) # Unverifiable
       /\ ~Repeated(FailureOf(g), FailureOf(attempts[i].gate))

\* What reserve asks for, in the order of its refusals.
Reservable(g) ==
  /\ g = Len(gates) /\ gates[g].status # "passed"
  /\ Len(attempts) < MaxAttempts
  /\ FailureOf(g) # Unverifiable
  /\ \A i \in DOMAIN attempts :
       /\ FailureOf(attempts[i].gate) # Unverifiable
       /\ ~Repeated(FailureOf(g), FailureOf(attempts[i].gate))

\* requireRepairableGate
RequireGate(c) ==
  /\ pc[c] = "requesting"
  /\ IF gates # <<>> /\ Last(gates).status # "passed"
     THEN Goto(c, "reserving") /\ job' = [job EXCEPT ![c].gate = Len(gates)]
     ELSE Return(c)
  /\ UNCHANGED <<stored, recovery, applying, cut, bounds>>

Reserve(c) ==
  /\ pc[c] = "reserving"
  /\ IF Reservable(job[c].gate)
     THEN /\ attempts' = Append(attempts, [gate |-> job[c].gate, status |-> "planned"])
          /\ job' = [job EXCEPT ![c].attempt = Len(attempts')]
          /\ Goto(c, "entering")
     ELSE attempts' = attempts /\ Return(c)
  /\ UNCHANGED <<task, gates, plans, retried, recovery, applying, cut, bounds>>

-----------------------------------------------------------------------------
(* The plan *)

\* The regression context is read; generatePlan reads the status and the state of
\* the provider, and its step runs.
Enter(c) ==
  /\ pc[c] = "entering"
  /\ \/ \E error \in {"provider", "other"} : Catch(c, error)
     \/ /\ task \in {"drafting", "blocked", "quality_failed"}
        /\ Goto(c, "planning") /\ job' = job
  /\ UNCHANGED <<stored, recovery, applying, cut, bounds>>

\* The attempt of the call was cut off.
IsCut(c) == job[c].attempt \in cut
CutOff(c) == cut' = cut \cup {job[c].attempt}

\* The model call fails and blocks the task, unless it was cancelled or the task
\* cannot be blocked.
PlanningFails(c) ==
  /\ pc[c] = "planning"
  /\ IF IsCut(c) \/ ~Allowed(task, "blocked")
     THEN task' = task /\ Catch(c, "other")
     ELSE /\ task' = "blocked"
          /\ \E error \in {"provider", "other"} : Catch(c, error)
  /\ UNCHANGED <<gates, attempts, plans, retried, recovery, applying, cut, bounds>>

\* The model answers with a plan, or with words only.
Answer(c) ==
  /\ pc[c] = "planning" /\ ~IsCut(c)
  /\ \E rows \in Proposals :
       IF rows = {}
       THEN UNCHANGED <<plans, job>>
       ELSE /\ Len(plans) < MaxPlans
            /\ AddPlan(c, "agent", Proposing(rows))
            /\ job' = [job EXCEPT ![c].plan = Len(plans')]
  /\ Goto(c, "moving")
  /\ UNCHANGED <<task, gates, attempts, retried, recovery, applying, cut, bounds>>

\* setTaskRunStatus; nothing comes between its read and its compare-and-swap.
MoveTaskOn(c) ==
  /\ pc[c] = "moving"
  /\ LET to == IF job[c].plan = 0 THEN "ready_for_review" ELSE "waiting_for_approval"
     IN IF ~IsCut(c) /\ Allowed(task, to)
        THEN task' = to /\ Goto(c, "recording") /\ job' = job
        ELSE task' = task /\ Catch(c, "other")
  /\ UNCHANGED <<gates, attempts, plans, retried, recovery, applying, cut, bounds>>

\* The last test of the invocation, and the attempt's outcome.
Record(c) ==
  /\ pc[c] = "recording"
  /\ IF IsCut(c)
     THEN attempts' = attempts /\ Catch(c, "other")
     ELSE /\ attempts' = [attempts EXCEPT ![job[c].attempt].status =
                            IF job[c].plan = 0 THEN "stopped" ELSE "waiting_for_approval"]
          /\ Return(c)
  /\ UNCHANGED <<task, gates, plans, retried, recovery, applying, cut, bounds>>

\* The catch block: the attempt is over; only without a provider there is a template.
Stop(c) ==
  /\ pc[c] = "stopping"
  /\ attempts' = [attempts EXCEPT ![job[c].attempt].status = "stopped"]
  /\ IF job[c].error = "provider" THEN Goto(c, "falling") /\ job' = job ELSE Return(c)
  /\ UNCHANGED <<task, gates, plans, retried, recovery, applying, cut, bounds>>

\* createRepairPlan of the completion service looks at the gate anew.
Fall(c) ==
  /\ pc[c] = "falling"
  /\ IF Last(gates).status = "passed" THEN Return(c) ELSE Goto(c, "drafting") /\ job' = job
  /\ UNCHANGED <<stored, recovery, applying, cut, bounds>>

\* One approval that names no action: it is there to be decided, and never executed.
Draft(c) ==
  /\ pc[c] = "drafting" /\ Len(plans) < MaxPlans
  /\ AddPlan(c, "template", Proposing({"check"}))
  /\ Goto(c, "settling")
  /\ UNCHANGED <<task, gates, attempts, retried, job, recovery, applying, cut, bounds>>

Settle(c) ==
  /\ pc[c] = "settling"
  /\ task' = IF Allowed(task, "waiting_for_approval") THEN "waiting_for_approval" ELSE task
  /\ Return(c)
  /\ UNCHANGED <<gates, attempts, plans, retried, recovery, applying, cut, bounds>>

-----------------------------------------------------------------------------
(* The host's recovery *)

\* The progression loop caught the failure of a check it may recover from.
Recover ==
  /\ pc["host"] = "idle" /\ failed # 0
  /\ task \in {"blocked", "quality_failed"}
  /\ ~Planning /\ ~Executing({"running"})
  /\ Goto("host", "evaluating")
  /\ UNCHANGED <<stored, job, recovery, applying, cut, bounds>>

\* evaluate: a gate is stored.
AddGate(gate) == Len(gates) < MaxGates /\ gates' = Append(gates, gate)

Evaluate(gate) ==
  /\ pc["host"] = "evaluating" /\ AddGate(gate)
  /\ job' = [job EXCEPT !["host"].gate = Len(gates')]
  /\ Goto("host", "applying")
  /\ UNCHANGED <<task, attempts, plans, retried, recovery, applying, cut, bounds>>

\* applyQualityGateResult: only the latest gate, and only to a task that goes on.  A gate
\* that is not failed may have been overtaken by the workspace.
Applied(g) ==
  IF g # Len(gates) \/ task \in {"paused", "done", "cancelled"} \/ gates[g].status = "not_run"
  THEN {task}
  ELSE IF gates[g].status = "failed" THEN {"quality_failed"} ELSE {task, "ready_for_review"}

\* The host gives up.
GiveUp == Return("host") /\ failed' = 0 /\ left' = {} /\ found' = Nothing

Apply ==
  /\ pc["host"] = "applying" /\ task' \in Applied(job["host"].gate)
  /\ IF gates[job["host"].gate].status = "failed"
     THEN Goto("host", "reading") /\ UNCHANGED <<job, recovery>>
     ELSE GiveUp
  /\ UNCHANGED <<gates, attempts, plans, retried, applying, cut, bounds>>

\* Slip: what is approved is left to its user.
RivalsPending(p) ==
  {r \in Rows : Row(p, r).status = "pending" /\ Row(p, r).exec = "none" /\ (r = "check" => p \notin retried)}

\* What is left of the failed plan: decided or not, and not started.
Rivals(p) ==
  {r \in Rows : OpenRow(Row(p, r)) /\ Row(p, r).exec = "none" /\ (r = "check" => p \notin retried)}

\* The failure still stands: nobody prepared a retry, and the task waits for a repair.
ReadFailure ==
  /\ pc["host"] = "reading"
  /\ IF Row(failed, "check").exec = "failed" /\ failed \notin retried /\ task = "quality_failed"
     THEN left' = Rivals(failed) /\ Goto("host", "retiring") /\ UNCHANGED <<job, failed, found>>
     ELSE GiveUp
  /\ UNCHANGED <<stored, applying, cut, bounds>>

\* Before each rejection the task is looked at; decide reads the row.
Retire ==
  /\ pc["host"] = "retiring"
  /\ IF left = {}
     THEN Goto("host", "closing") /\ UNCHANGED <<job, recovery>>
     ELSE IF task # "quality_failed" THEN GiveUp
     ELSE \E r \in left :
            IF OpenRow(Row(failed, r)) /\ Row(failed, r).exec = "none"
            THEN /\ Goto("host", "deciding")
                 /\ found' = [row |-> r, status |-> Row(failed, r).status]
                 /\ UNCHANGED <<job, failed, left>>
            ELSE GiveUp
  /\ UNCHANGED <<stored, applying, cut, bounds>>

\* The UPDATE of decide: the status must be the one it read.
Decide ==
  /\ pc["host"] = "deciding"
  /\ IF Row(failed, found.row).status = found.status /\ task \notin Closed
     THEN /\ SetRow(failed, found.row, [Row(failed, found.row) EXCEPT !.status = "rejected"])
          /\ left' = left \ {found.row}
          /\ Goto("host", "retiring") /\ found' = Nothing /\ UNCHANGED <<job, failed>>
     ELSE plans' = plans /\ GiveUp
  /\ UNCHANGED <<task, gates, attempts, retried, applying, cut, bounds>>

\* The failed plan's step is closed, and a repair is requested.
CloseFailed ==
  /\ pc["host"] = "closing"
  /\ IF task = "quality_failed"
     THEN Goto("host", "requesting") /\ UNCHANGED <<job, recovery>>
     ELSE GiveUp
  /\ UNCHANGED <<stored, applying, cut, bounds>>

-----------------------------------------------------------------------------
(* The user, the runner and the rest of the application *)

RequestRepair ==
  /\ Command /\ pc["user"] = "idle" /\ Goto("user", "requesting")
  /\ UNCHANGED <<stored, job, recovery, applying, cut, faults>>

EvaluateNow(gate) ==
  /\ Command /\ applying = 0 /\ AddGate(gate) /\ applying' = Len(gates')
  /\ UNCHANGED <<task, attempts, plans, retried, pc, job, recovery, cut, faults>>

ApplyNow ==
  /\ applying # 0 /\ task' \in Applied(applying) /\ applying' = 0
  /\ UNCHANGED <<gates, attempts, plans, retried, pc, job, recovery, cut, bounds>>

\* prepareRetry: a reviewed retry of a failed check, while nothing runs.
PrepareRetry(p) ==
  /\ Command /\ Len(plans) < MaxPlans
  /\ task \in {"blocked", "quality_failed"} /\ p \notin retried
  /\ Row(p, "check").exec \in {"failed", "uncertain"}
  /\ ~Planning /\ ~Executing({"claimed", "running"})
  /\ plans' = Append(plans, [by |-> "retry", attempt |-> 0, replaces |-> 0,
                             rows |-> Proposing({"check"})])
  /\ retried' = retried \cup {p} /\ task' = "waiting_for_approval"
  /\ UNCHANGED <<gates, attempts, pc, job, recovery, applying, cut, faults>>

Approve(p, r) ==
  /\ Row(p, r).status = "pending" /\ Row(p, r).exec = "none" /\ task \notin Closed
  /\ SetRow(p, r, [Row(p, r) EXCEPT !.status = "approved"])
  /\ UNCHANGED <<task, gates, attempts, retried, pc, job, recovery, applying, cut, bounds>>

\* rejectApproval: the task is paused when it may be.
Reject(p, r) ==
  /\ Command /\ OpenRow(Row(p, r)) /\ Row(p, r).exec = "none" /\ task \notin Closed
  /\ SetRow(p, r, [Row(p, r) EXCEPT !.status = "rejected"])
  /\ task' = IF Allowed(task, "paused") THEN "paused" ELSE task
  /\ UNCHANGED <<gates, attempts, retried, pc, job, recovery, applying, cut, faults>>

Claim(p, r) ==
  /\ Row(p, r).status = "approved" /\ Row(p, r).exec = "none" /\ task \notin Closed
  /\ plans[p].by # "template"
  /\ SetRow(p, r, [Row(p, r) EXCEPT !.exec = "claimed"])
  /\ UNCHANGED <<task, gates, attempts, retried, pc, job, recovery, applying, cut, bounds>>

Begin(p, r) ==
  /\ Row(p, r).exec = "claimed"
  /\ IF Allowed(task, "running")
     THEN task' = "running" /\ SetRow(p, r, [Row(p, r) EXCEPT !.exec = "running"])
     ELSE task' = task /\ SetRow(p, r, [Row(p, r) EXCEPT !.exec = "uncertain"])
  /\ UNCHANGED <<gates, attempts, retried, pc, job, recovery, applying, cut, bounds>>

Succeed(p, r) ==
  /\ Row(p, r).exec = "running"
  /\ SetRow(p, r, [status |-> "executed", exec |-> "succeeded"])
  /\ task' = IF task \in {"cancelled", "paused", "done"} THEN task
             ELSE IF \E q \in DOMAIN plans : Unresolved(plans'[q].rows)
                  THEN "waiting_for_approval" ELSE "ready_for_review"
  /\ UNCHANGED <<gates, attempts, retried, pc, job, recovery, applying, cut, bounds>>

\* A check fails for certain; anything else that goes wrong is uncertain.
Fail(p, r) ==
  /\ Row(p, r).exec = "running"
  /\ IF r = "check"
     THEN /\ SetRow(p, r, [status |-> "executed", exec |-> "failed"])
          /\ failed' \in IF pc["host"] = "idle" THEN {p, failed} ELSE {failed}
     ELSE SetRow(p, r, [Row(p, r) EXCEPT !.exec = "uncertain"]) /\ failed' = failed
  /\ task' = IF task \notin {"cancelled", "paused"} /\ Allowed(task, "blocked") THEN "blocked" ELSE task
  /\ UNCHANGED <<gates, attempts, retried, pc, job, left, found, applying, cut, bounds>>

\* Any other service, or the user, moves the task.
MoveTask(status) ==
  /\ Command /\ Allowed(task, status) /\ task # status /\ task' = status
  /\ UNCHANGED <<gates, attempts, plans, retried, pc, job, recovery, applying, cut, faults>>

\* The user cancels the model's invocation alone, or it is cancelled with the task.
Abort(c) ==
  /\ Command \/ (task = "cancelled" /\ moves' = moves)
  /\ pc[c] \in {"planning", "moving", "recording"} /\ ~IsCut(c) /\ CutOff(c)
  /\ UNCHANGED <<stored, pc, job, recovery, applying, faults>>

\* A storage call fails: within the try block that ends the attempt, elsewhere the call.
StorageFails(c) ==
  /\ pc[c] # "idle" /\ faults < MaxFaults /\ faults' = faults + 1
  /\ \/ pc[c] \in Trying /\ Catch(c, "other") /\ CutOff(c) /\ UNCHANGED recovery
     \/ c = "host" /\ pc[c] \in Recovering /\ GiveUp /\ cut' = cut
     \/ pc[c] \notin Trying \cup Recovering /\ Return(c) /\ UNCHANGED <<cut, recovery>>
  /\ UNCHANGED <<stored, applying, moves>>

\* The application dies and is started again: claims it finds are uncertain.
Crash ==
  /\ faults < MaxFaults /\ faults' = faults + 1
  /\ pc' = [c \in Callers |-> "idle"] /\ job' = [c \in Callers |-> Idle]
  /\ failed' = 0 /\ left' = {} /\ found' = Nothing /\ applying' = 0
  /\ plans' = [p \in DOMAIN plans |-> [plans[p] EXCEPT !.rows =
                 [r \in Rows |-> IF @[r].exec \in {"claimed", "running"}
                                 THEN [@[r] EXCEPT !.exec = "uncertain"] ELSE @[r]]]]
  /\ UNCHANGED <<task, gates, attempts, retried, cut, moves>>

-----------------------------------------------------------------------------
\* A check has failed; what the user thinks of the rest is open.
Init ==
  /\ task = "blocked" /\ gates = <<>> /\ attempts = <<>> /\ retried = {}
  /\ \E consent \in [Rest -> {"pending", "approved"}] :
       plans = <<[by |-> "plan", attempt |-> 0, replaces |-> 0,
                  rows |-> [r \in Rows |-> IF r = "check" THEN [status |-> "executed", exec |-> "failed"]
                                           ELSE [status |-> consent[r], exec |-> "none"]]]>>
  /\ pc = [c \in Callers |-> "idle"] /\ job = [c \in Callers |-> Idle]
  /\ failed = 1 /\ left = {} /\ found = Nothing
  /\ applying = 0 /\ cut = {} /\ moves = 0 /\ faults = 0

RecoveryStep ==
  \/ \E gate \in Outcomes : Evaluate(gate)
  \/ Apply \/ ReadFailure \/ Retire \/ Decide \/ CloseFailed

RepairStep(c) ==
  \/ RequireGate(c) \/ Reserve(c) \/ Enter(c) \/ PlanningFails(c) \/ Answer(c) \/ MoveTaskOn(c)
  \/ Record(c) \/ Stop(c) \/ Fall(c) \/ Draft(c) \/ Settle(c)

Next ==
  \/ Recover \/ RecoveryStep
  \/ \E c \in Callers : RepairStep(c) \/ Abort(c) \/ StorageFails(c)
  \/ RequestRepair \/ \E gate \in Outcomes : EvaluateNow(gate)
  \/ ApplyNow
  \/ \E p \in DOMAIN plans : PrepareRetry(p) \/ \E r \in Rows :
       Approve(p, r) \/ Reject(p, r) \/ Claim(p, r) \/ Begin(p, r) \/ Succeed(p, r) \/ Fail(p, r)
  \/ \E status \in Moves : MoveTask(status)
  \/ Crash

Spec == Init /\ [][Next]_vars

-----------------------------------------------------------------------------
(* Properties *)

\* Whoever asks, and however the calls and the evaluations interleave, the model is asked for at
\* most MaxAttempts repairs of a task, each for a gate that did not pass, and never twice for
\* the same failure, also after a restart (repair-attempt-repository.ts:97-118).
AttemptsAreDistinct ==
  /\ Len(attempts) <= MaxAttempts
  /\ \A i \in DOMAIN attempts :
       /\ gates[attempts[i].gate].status # "passed"
       /\ \A j \in DOMAIN attempts : i # j =>
            ~Repeated(FailureOf(attempts[i].gate), FailureOf(attempts[j].gate))

\* Every plan for a repair belongs to an attempt, and no attempt opens a second one: a model
\* call that fails after it proposed never adds the template (repair-loop-service.ts:126-141).
PlansAreAccounted ==
  \A p, q \in DOMAIN plans : plans[p].by \in {"agent", "template"} =>
    /\ plans[p].attempt \in DOMAIN attempts
    /\ p # q => plans[q].attempt # plans[p].attempt

\* Some call works for attempt i.
Held(i) == \E c \in Callers : job[c].attempt = i

\* An attempt nobody works for tells what came of it: it waits when the model's plan does, it
\* stopped when there is none, when it was cut off or when the task was cancelled, and it is
\* planned only after a crash or a failure of the storage (repair-loop-service.ts:108-131).
AttemptsTellTheirPlan ==
  \A i \in DOMAIN attempts : ~Held(i) =>
    LET answered == \E p \in DOMAIN plans : plans[p].by = "agent" /\ plans[p].attempt = i
    IN CASE attempts[i].status = "planned" -> faults > 0
         [] attempts[i].status = "waiting_for_approval" -> answered
         [] attempts[i].status = "stopped" -> answered => i \in cut \/ task = "cancelled"

\* Nothing of a plan the host has replaced can start any more, whatever the user approved or
\* executed while the host was rejecting it row by row (task-progression-host.ts:42-51).
ReplacedIsOver ==
  \A p \in DOMAIN plans : plans[p].replaces # 0 => \A r \in Rows :
    LET row == Row(plans[p].replaces, r) IN OpenRow(row) => row.exec # "none"

\* Attempts, the plans they led to and the calls at work agree (reserve, createRepairPlan
\* and its catch block).
RepairInv == TypeOK /\ AttemptsAreDistinct /\ PlansAreAccounted /\ AttemptsTellTheirPlan
=============================================================================
