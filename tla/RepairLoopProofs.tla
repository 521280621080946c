-------------------------- MODULE RepairLoopProofs --------------------------
(***************************************************************************)
(* What holds of the repair of a task for any outcomes of the gate, any    *)
(* plans, limits, moves of the task and crashes.                           *)
(***************************************************************************)
EXTENDS RepairLoop, TLAPS

-----------------------------------------------------------------------------
(* The inductive invariant *)

\* The rows of the tables, the calls and what they work on.
RowState == [status : {"absent", "pending", "approved", "rejected", "executed"},
             exec : {"none", "claimed", "running", "failed", "succeeded", "uncertain"}]

PlanRow == [by : {"plan", "agent", "template", "retry"}, attempt : 0..MaxAttempts,
            replaces : 0..MaxPlans, rows : [Rows -> RowState]]

AttemptRow == [gate : 1..MaxGates, status : {"planned", "waiting_for_approval", "stopped"}]

Job == [gate : 0..MaxGates, attempt : 0..MaxAttempts, plan : 0..MaxPlans,
        error : {"none", "provider", "other"}]

\* The points of a call before it has an attempt, while it plans, while it
\* takes the answer over, and while it falls back.
Ahead == {"idle", "requesting", "reserving"} \cup Recovering
Planless == {"entering", "planning"}
Answering == {"moving", "recording"}
Falling == {"falling", "drafting", "settling"}
PCs == Ahead \cup Planless \cup Answering \cup {"stopping"} \cup Falling

\* The types, the bounds, and that what is pointed at exists.
Tables ==
  /\ gates \in Seq(Outcomes) /\ Len(gates) <= MaxGates
  /\ plans \in Seq(PlanRow) /\ Len(plans) <= MaxPlans
  /\ \A p \in DOMAIN plans :
       /\ plans[p].replaces \in 0..Len(plans)
       /\ plans[p].by \in {"plan", "retry"} => plans[p].attempt = 0
  /\ attempts \in Seq(AttemptRow)
  /\ \A i \in DOMAIN attempts : attempts[i].gate \in DOMAIN gates

Calls == pc \in [Callers -> PCs] /\ job \in [Callers -> Job]

Scalars ==
  /\ task \in TaskStatus
  /\ retried \subseteq 1..MaxPlans
  /\ failed \in 0..Len(plans) /\ left \subseteq Rows
  /\ found \in [row : Rows, status : {"absent", "pending", "approved"}]
  /\ applying \in 0..MaxGates
  /\ cut \subseteq 1..MaxAttempts
  /\ moves \in 0..MaxMoves /\ faults \in 0..MaxFaults

Shapes == Tables /\ Calls /\ Scalars

\* A row that can no longer start.
Over(p, r) == OpenRow(Row(p, r)) => Row(p, r).exec # "none"

\* No plan was opened for attempt i; the model proposed one.
Unopened(i) == \A p \in DOMAIN plans : plans[p].attempt # i
Answered(i) == \E p \in DOMAIN plans : plans[p].by = "agent" /\ plans[p].attempt = i

\* What a call has made of its attempt where it is.
Work(c) ==
  /\ pc[c] = "reserving" => job[c].gate \in DOMAIN gates
  /\ pc[c] \in Ahead => job[c].attempt = 0 /\ job[c].plan = 0
  /\ pc[c] \notin Ahead =>
       /\ job[c].attempt \in DOMAIN attempts
       /\ attempts[job[c].attempt].status = IF pc[c] \in Falling THEN "stopped" ELSE "planned"
  /\ pc[c] \in Planless => job[c].plan = 0
  /\ \/ pc[c] \in Planless \cup {"falling", "drafting"}
     \/ pc[c] = "stopping" /\ job[c].error = "provider"
     \/ pc[c] \in Answering /\ job[c].plan = 0
     => Unopened(job[c].attempt)
  /\ pc[c] \in Answering /\ job[c].plan # 0 => Answered(job[c].attempt)
  /\ pc[c] = "settling" => ~Answered(job[c].attempt)
  /\ pc[c] = "stopping" /\ Answered(job[c].attempt) =>
       job[c].attempt \in cut \/ task = "cancelled"

\* Two calls work for different attempts.
Apart == \A c, d \in Callers : c # d /\ job[c].attempt = job[d].attempt => job[c].attempt = 0

\* What the host has left to reject is all that could still start.
Host ==
  /\ pc["host"] # "idle" => failed # 0
  /\ pc["host"] \in {"retiring", "deciding"} => \A r \in Rows \ left : Over(failed, r)
  /\ pc["host"] \notin {"idle"} \cup Recovering \/ pc["host"] = "closing" =>
       \A r \in Rows : Over(failed, r)

\* An attempt tells what became of its plan.
Fits(i) ==
  /\ attempts[i].status = "planned" => faults > 0
  /\ attempts[i].status = "waiting_for_approval" => Answered(i)
  /\ attempts[i].status = "stopped" /\ Answered(i) => i \in cut \/ task = "cancelled"

Fitting == \A i \in DOMAIN attempts : Held(i) \/ Fits(i)

IInv ==
  /\ Shapes
  /\ AttemptsAreDistinct /\ PlansAreAccounted /\ Fitting /\ ReplacedIsOver
  /\ \A c \in Callers : Work(c)
  /\ Apart /\ Host

-----------------------------------------------------------------------------
(* What a step leaves alone *)

\* Gates are only added, the rows of the plans move on, and a cancelled task
\* stays cancelled.
GatesStay ==
  /\ gates' \in Seq(Outcomes) /\ Len(gates') <= MaxGates
  /\ \A g \in DOMAIN gates : g \in DOMAIN gates' /\ gates'[g] = gates[g]

PlansSame ==
  /\ plans' \in Seq(PlanRow) /\ Len(plans') = Len(plans) /\ DOMAIN plans' = DOMAIN plans
  /\ \A p \in DOMAIN plans : /\ plans'[p].by = plans[p].by
                             /\ plans'[p].attempt = plans[p].attempt
                             /\ plans'[p].replaces = plans[p].replaces

OverStays ==
  \A p \in DOMAIN plans, r \in Rows : Over(p, r) =>
    (OpenRow(plans'[p].rows[r]) => plans'[p].rows[r].exec # "none")

RowsMove == PlansSame /\ OverStays

CancelStays == task' \in TaskStatus /\ (task = "cancelled" => task' = "cancelled")

\* What is cut off stays so.
CutStays == cut \subseteq cut' /\ cut' \subseteq 1..MaxAttempts

\* Attempt i stays what it is.
AttemptStays(i) == i \in DOMAIN attempts' /\ attempts'[i] = attempts[i]

Quiet == GatesStay /\ RowsMove /\ CancelStays /\ CutStays /\ (faults > 0 => faults' > 0)

\* Nothing changes of the gates.
LEMMA GatesUntouched ==
  ASSUME Tables, gates' = gates
  PROVE  GatesStay
BY DEF Tables, GatesStay

\* Nothing changes of the plans.
LEMMA PlansUntouched ==
  ASSUME Tables, plans' = plans
  PROVE  RowsMove
BY DEF Tables, RowsMove, PlansSame, OverStays, Over, Row

\* A gate is stored.
LEMMA GateAdded ==
  ASSUME Tables, NEW gate \in Outcomes, AddGate(gate)
  PROVE  GatesStay /\ Len(gates') \in 0..MaxGates
BY RepairAssumption DEF Tables, AddGate, GatesStay

\* The number of a plan.
LEMMA PlanIds ==
  ASSUME Tables
  PROVE  /\ Len(plans) \in 0..MaxPlans /\ DOMAIN plans = 1..Len(plans)
         /\ \A p \in DOMAIN plans, r \in Rows : plans[p] \in PlanRow /\ Row(p, r) \in RowState
<1>1. plans \in Seq(PlanRow) /\ Len(plans) <= MaxPlans
  BY DEF Tables
<1>2. Len(plans) \in 0..MaxPlans /\ DOMAIN plans = 1..Len(plans)
  BY <1>1, RepairAssumption
<1>3. ASSUME NEW p \in DOMAIN plans, NEW r \in Rows
      PROVE  plans[p] \in PlanRow /\ Row(p, r) \in RowState
  <2>1. plans[p] \in PlanRow
    BY <1>1
  <2>2. QED
    BY <2>1 DEF Row, PlanRow
<1>4. QED
  BY <1>2, <1>3

\* A row is written.
LEMMA RowWritten ==
  ASSUME Tables, NEW p \in DOMAIN plans, NEW r \in Rows, NEW row \in RowState, SetRow(p, r, row)
  PROVE  /\ PlansSame /\ plans'[p].rows[r] = row
         /\ \A q \in DOMAIN plans, s \in Rows :
              q # p \/ s # r => plans'[q].rows[s] = plans[q].rows[s]
<1> DEFINE new == [plans[p] EXCEPT !.rows[r] = row]
<1>1. plans \in Seq(PlanRow) /\ plans[p] \in PlanRow
  BY PlanIds DEF Tables
<1>2. /\ new \in PlanRow /\ new.by = plans[p].by /\ new.attempt = plans[p].attempt
      /\ new.replaces = plans[p].replaces /\ new.rows[r] = row
      /\ \A s \in Rows \ {r} : new.rows[s] = plans[p].rows[s]
  BY <1>1 DEF PlanRow
<1>3. plans' = [plans EXCEPT ![p] = new]
  BY DEF SetRow
<1> HIDE DEF new
<1>4. /\ plans' \in Seq(PlanRow) /\ Len(plans') = Len(plans) /\ DOMAIN plans' = DOMAIN plans
      /\ plans'[p] = new /\ \A q \in DOMAIN plans \ {p} : plans'[q] = plans[q]
  BY <1>1, <1>2, <1>3
<1>5. QED
  BY <1>2, <1>4 DEF PlansSame

\* A row that is written does not get ready to start.
LEMMA RowMoved ==
  ASSUME Tables, NEW p \in DOMAIN plans, NEW r \in Rows, NEW row \in RowState, SetRow(p, r, row),
         Over(p, r) => (OpenRow(row) => row.exec # "none")
  PROVE  RowsMove
BY RowWritten DEF RowsMove, OverStays, Over, Row

\* A plan is added.
LEMMA PlanAdded ==
  ASSUME Tables, Len(plans) < MaxPlans, NEW plan \in PlanRow, plans' = Append(plans, plan)
  PROVE  LET n == Len(plans) + 1 IN
         /\ plans' \in Seq(PlanRow) /\ Len(plans') = n /\ n \in 1..MaxPlans
         /\ n \notin DOMAIN plans /\ DOMAIN plans' = DOMAIN plans \cup {n}
         /\ plans'[n] = plan /\ \A q \in DOMAIN plans : plans'[q] = plans[q]
<1>1. plans \in Seq(PlanRow) /\ Len(plans) \in Nat /\ MaxPlans \in Nat
  BY RepairAssumption DEF Tables
<1>2. QED
  BY <1>1

\* The tables keep their shape.
LEMMA TablesStay ==
  ASSUME Tables, GatesStay, PlansSame, attempts' = attempts
  PROVE  Tables'
BY DEF Tables, GatesStay, PlansSame

\* Attempts stay distinct while none is added and the gates stay.
LEMMA DistinctStays ==
  ASSUME Tables, AttemptsAreDistinct, GatesStay, Len(attempts') = Len(attempts),
         DOMAIN attempts' = DOMAIN attempts,
         \A i \in DOMAIN attempts : attempts'[i].gate = attempts[i].gate
  PROVE  AttemptsAreDistinct'
BY ZenonT(40) DEF Tables, AttemptsAreDistinct, GatesStay, FailureOf

\* Plans stay accounted for.
LEMMA AccountedStays ==
  ASSUME PlansAreAccounted, PlansSame, DOMAIN attempts \subseteq DOMAIN attempts'
  PROVE  PlansAreAccounted'
BY DEF PlansAreAccounted, PlansSame

\* What was opened for an attempt stays so.
LEMMA OpenedStays ==
  ASSUME PlansSame, NEW i
  PROVE  Unopened(i)' = Unopened(i) /\ Answered(i)' = Answered(i)
BY DEF PlansSame, Unopened, Answered

\* What is over stays over.
LEMMA ReplacedStays ==
  ASSUME Tables, ReplacedIsOver, RowsMove
  PROVE  ReplacedIsOver'
<1>1. ASSUME NEW p \in DOMAIN plans, plans[p].replaces # 0, NEW r \in Rows
      PROVE  plans[p].replaces \in DOMAIN plans /\ Over(plans[p].replaces, r)
  BY <1>1, PlanIds DEF Tables, ReplacedIsOver, Over
<1>2. QED
  BY <1>1 DEF ReplacedIsOver, RowsMove, PlansSame, OverStays, Row

\* An attempt that tells goes on telling.
LEMMA FitsStays ==
  ASSUME Quiet, NEW i \in DOMAIN attempts, AttemptStays(i), Fits(i)
  PROVE  Fits(i)'
<1>1. Answered(i)' = Answered(i)
  BY OpenedStays DEF Quiet, RowsMove
<1>2. QED
  BY <1>1 DEF Fits, Quiet, CancelStays, CutStays, AttemptStays

\* A call that does not move is where its work says.
LEMMA WorkStays ==
  ASSUME Quiet, Calls, NEW c \in Callers, Work(c), pc'[c] = pc[c], job'[c] = job[c],
         pc[c] \notin Ahead => AttemptStays(job[c].attempt)
  PROVE  Work(c)'
<1>1. pc[c] \in PCs
  BY DEF Calls
<1>2. /\ Unopened(job[c].attempt)' = Unopened(job[c].attempt)
      /\ Answered(job[c].attempt)' = Answered(job[c].attempt)
  BY OpenedStays DEF Quiet, RowsMove, PlansSame, Unopened, Answered
<1>3. QED
  BY <1>1, <1>2
  DEF Work, Quiet, GatesStay, CancelStays, CutStays, AttemptStays, PCs, Ahead, Recovering,
      Planless, Answering, Falling

\* What the host leaves of a plan does not get ready again.
LEMMA HostStays ==
  ASSUME Tables, Host, RowsMove, pc'["host"] = pc["host"], left' = left,
         failed \in 0..Len(plans), pc["host"] # "idle" => failed' = failed
  PROVE  Host'
<1>1. CASE pc["host"] = "idle"
  BY <1>1 DEF Host, Recovering
<1>2. CASE pc["host"] # "idle"
  <2>1. failed \in DOMAIN plans /\ failed' = failed
    BY <1>2, PlanIds DEF Host
  <2>2. \A r \in Rows : Over(failed, r) => Over(failed, r)'
    BY <2>1 DEF RowsMove, OverStays, Over, Row
  <2>3. QED
    BY <1>2, <2>1, <2>2 DEF Host
<1>3. QED
  BY <1>1, <1>2

-----------------------------------------------------------------------------
(* Steps beside the calls *)

\* A step that moves no call keeps the invariant.
LEMMA BackgroundKeeps ==
  ASSUME IInv, Quiet, Scalars', attempts' = attempts, pc' = pc, job' = job, left' = left,
         pc["host"] # "idle" => failed' = failed
  PROVE  IInv'
<1>1. Shapes'
  BY TablesStay DEF IInv, Shapes, Calls, Quiet, RowsMove
<1>2. AttemptsAreDistinct' /\ PlansAreAccounted' /\ ReplacedIsOver'
  BY DistinctStays, AccountedStays, ReplacedStays DEF IInv, Shapes, Quiet, RowsMove
<1>3. Fitting'
  BY FitsStays DEF IInv, Fitting, Held, AttemptStays
<1>4. ASSUME NEW c \in Callers PROVE Work(c)'
  BY WorkStays DEF IInv, Shapes, Work, AttemptStays
<1>5. Apart'
  BY DEF IInv, Apart
<1>6. Host'
  BY HostStays DEF IInv, Shapes, Quiet, Scalars
<1>7. QED
  BY <1>1, <1>2, <1>3, <1>4, <1>5, <1>6 DEF IInv

\* A cancelled task goes nowhere.
LEMMA CancelledForGood ==
  ASSUME NEW status, Allowed("cancelled", status)
  PROVE  status = "cancelled"
BY DEF Allowed, AllowedFrom

\* The gates, the moves and the plans that exist are within their bounds.
LEMMA EvaluateNowKeeps ==
  ASSUME IInv, NEW gate \in Outcomes, EvaluateNow(gate)
  PROVE  IInv'
<1>1. GatesStay /\ Len(gates') \in 0..MaxGates
  BY GateAdded DEF IInv, Shapes, EvaluateNow
<1>2. Quiet
  BY <1>1, PlansUntouched
  DEF IInv, Shapes, Scalars, EvaluateNow, Quiet, CancelStays, CutStays
<1>3. Scalars'
  BY <1>1, RepairAssumption DEF IInv, Shapes, Scalars, EvaluateNow, Command, recovery
<1>4. QED
  BY <1>2, <1>3, BackgroundKeeps DEF EvaluateNow, recovery

\* Applying a gate leaves a cancelled task alone.
LEMMA AppliedLeavesCancelled ==
  ASSUME NEW g, task \in TaskStatus, task' \in Applied(g)
  PROVE  CancelStays
BY DEF Applied, CancelStays, TaskStatus

\* The user's gate is applied.
LEMMA ApplyNowKeeps ==
  ASSUME IInv, ApplyNow
  PROVE  IInv'
<1>1. CancelStays
  BY AppliedLeavesCancelled DEF IInv, Shapes, Scalars, ApplyNow
<1>2. Quiet
  BY <1>1, GatesUntouched, PlansUntouched
  DEF IInv, Shapes, Scalars, ApplyNow, Quiet, CutStays, bounds
<1>3. Scalars'
  BY <1>1, RepairAssumption
  DEF IInv, Shapes, Scalars, CancelStays, ApplyNow, recovery, bounds
<1>4. QED
  BY <1>2, <1>3, BackgroundKeeps DEF ApplyNow, recovery

\* A write of one row, by whatever moves no call.
LEMMA RowKeeps ==
  ASSUME IInv, NEW p \in DOMAIN plans, NEW r \in Rows, NEW row \in RowState, SetRow(p, r, row),
         Over(p, r) => (OpenRow(row) => row.exec # "none"),
         CancelStays, moves' \in 0..MaxMoves, failed' \in 0..Len(plans),
         pc["host"] # "idle" => failed' = failed,
         UNCHANGED <<gates, attempts, retried, pc, job, left, found, applying, cut, faults>>
  PROVE  IInv'
<1>1. RowsMove
  BY RowMoved DEF IInv, Shapes
<1>2. Quiet
  BY <1>1, GatesUntouched DEF IInv, Shapes, Scalars, Quiet, CutStays
<1>3. Scalars'
  BY <1>1 DEF IInv, Shapes, Scalars, CancelStays, RowsMove, PlansSame
<1>4. QED
  BY <1>2, <1>3, BackgroundKeeps

\* An approval is for a row that could start already.
LEMMA ApproveKeeps ==
  ASSUME IInv, NEW p \in DOMAIN plans, NEW r \in Rows, Approve(p, r)
  PROVE  IInv'
<1>1. Row(p, r) \in RowState
  BY PlanIds DEF IInv, Shapes
<1>2. [Row(p, r) EXCEPT !.status = "approved"] \in RowState
  BY <1>1 DEF RowState
<1>3. ~Over(p, r)
  BY DEF Approve, Over, OpenRow
<1>4. QED
  BY <1>2, <1>3, RowKeeps
  DEF IInv, Shapes, Scalars, Approve, CancelStays, recovery, bounds

\* A rejected row cannot start.
LEMMA RejectKeeps ==
  ASSUME IInv, NEW p \in DOMAIN plans, NEW r \in Rows, Reject(p, r)
  PROVE  IInv'
<1>1. Row(p, r) \in RowState
  BY PlanIds DEF IInv, Shapes
<1>2. [Row(p, r) EXCEPT !.status = "rejected"] \in RowState
  BY <1>1 DEF RowState
<1>3. ~Over(p, r)
  BY DEF Reject, Over
<1>4. CancelStays
  BY DEF IInv, Shapes, Scalars, Reject, Closed, CancelStays, TaskStatus
<1>5. moves' \in 0..MaxMoves
  BY RepairAssumption DEF IInv, Shapes, Scalars, Reject, Command
<1>6. QED
  BY <1>2, <1>3, <1>4, <1>5, RowKeeps DEF IInv, Shapes, Scalars, Reject, recovery

\* A claimed row has started.
LEMMA ClaimKeeps ==
  ASSUME IInv, NEW p \in DOMAIN plans, NEW r \in Rows, Claim(p, r)
  PROVE  IInv'
<1>1. Row(p, r) \in RowState
  BY PlanIds DEF IInv, Shapes
<1>2. /\ [Row(p, r) EXCEPT !.exec = "claimed"] \in RowState
      /\ [Row(p, r) EXCEPT !.exec = "claimed"].exec # "none"
  BY <1>1 DEF RowState
<1>3. QED
  BY <1>2, RowKeeps DEF IInv, Shapes, Scalars, Claim, CancelStays, recovery, bounds

\* A row that begins runs, or nobody knows.
LEMMA BeginKeeps ==
  ASSUME IInv, NEW p \in DOMAIN plans, NEW r \in Rows, Begin(p, r)
  PROVE  IInv'
<1>1. Row(p, r) \in RowState
  BY PlanIds DEF IInv, Shapes
<1>2. PICK exec \in {"running", "uncertain"} : SetRow(p, r, [Row(p, r) EXCEPT !.exec = exec])
  BY DEF Begin
<1>3. /\ [Row(p, r) EXCEPT !.exec = exec] \in RowState
      /\ [Row(p, r) EXCEPT !.exec = exec].exec # "none"
  BY <1>1 DEF RowState
<1>4. CancelStays
  BY CancelledForGood DEF IInv, Shapes, Scalars, Begin, CancelStays, TaskStatus
<1>5. QED
  BY <1>2, <1>3, <1>4, RowKeeps DEF IInv, Shapes, Scalars, Begin, recovery, bounds

\* A row that succeeds is over.
LEMMA SucceedKeeps ==
  ASSUME IInv, NEW p \in DOMAIN plans, NEW r \in Rows, Succeed(p, r)
  PROVE  IInv'
<1> DEFINE row == [status |-> "executed", exec |-> "succeeded"]
<1>1. row \in RowState /\ row.exec # "none"
  BY DEF RowState
<1>2. SetRow(p, r, row)
  BY DEF Succeed
<1>3. CancelStays
  BY DEF IInv, Shapes, Scalars, Succeed, CancelStays, TaskStatus
<1> HIDE DEF row
<1>4. QED
  BY <1>1, <1>2, <1>3, RowKeeps DEF IInv, Shapes, Scalars, Succeed, recovery, bounds

\* A row that fails is over, and the host may take note of its plan.
LEMMA FailKeeps ==
  ASSUME IInv, NEW p \in DOMAIN plans, NEW r \in Rows, Fail(p, r)
  PROVE  IInv'
<1>1. Row(p, r) \in RowState
  BY PlanIds DEF IInv, Shapes
<1>2. /\ [Row(p, r) EXCEPT !.exec = "uncertain"] \in RowState
      /\ [Row(p, r) EXCEPT !.exec = "uncertain"].exec # "none"
      /\ [status |-> "executed", exec |-> "failed"] \in RowState
      /\ [status |-> "executed", exec |-> "failed"].exec # "none"
  BY <1>1 DEF RowState
<1>3. PICK row \in RowState : SetRow(p, r, row) /\ row.exec # "none"
  BY <1>2 DEF Fail
<1>4. CancelStays
  BY DEF IInv, Shapes, Scalars, Fail, CancelStays, TaskStatus
<1>5. failed' \in 0..Len(plans) /\ (pc["host"] # "idle" => failed' = failed)
  BY PlanIds DEF IInv, Shapes, Scalars, Fail
<1>6. QED
  BY <1>3, <1>4, <1>5, RowKeeps DEF IInv, Shapes, Scalars, Fail, bounds

\* Another status of the task.
LEMMA MoveTaskKeeps ==
  ASSUME IInv, NEW status \in Moves, MoveTask(status)
  PROVE  IInv'
<1>1. CancelStays
  BY RepairAssumption, CancelledForGood DEF MoveTask, CancelStays
<1>2. Quiet
  BY <1>1, GatesUntouched, PlansUntouched
  DEF IInv, Shapes, Scalars, MoveTask, Quiet, CutStays
<1>3. Scalars'
  BY <1>1, RepairAssumption
  DEF IInv, Shapes, Scalars, CancelStays, MoveTask, Command, recovery
<1>4. QED
  BY <1>2, <1>3, BackgroundKeeps DEF MoveTask, recovery

\* The attempt of an invocation that is cancelled is cut off.
LEMMA AbortKeeps ==
  ASSUME IInv, NEW c \in Callers, Abort(c)
  PROVE  IInv'
<1>1. job[c].attempt \in 1..MaxAttempts
  <2>1. Tables /\ pc[c] \notin Ahead /\ Work(c) /\ Len(attempts) <= MaxAttempts
    BY DEF IInv, Shapes, Abort, Ahead, Recovering, AttemptsAreDistinct
  <2>2. job[c].attempt \in DOMAIN attempts
    BY <2>1 DEF Work
  <2>3. QED
    BY <2>1, <2>2, RepairAssumption DEF Tables
<1>2. CutStays
  BY <1>1 DEF IInv, Shapes, Scalars, Abort, CutOff, CutStays
<1>3. Quiet
  BY <1>2, GatesUntouched, PlansUntouched
  DEF IInv, Shapes, Scalars, Abort, Quiet, CancelStays, stored
<1>4. Scalars'
  BY <1>2, RepairAssumption
  DEF IInv, Shapes, Scalars, CutStays, Abort, Command, stored, recovery
<1>5. QED
  BY <1>3, <1>4, BackgroundKeeps DEF Abort, stored, recovery

-----------------------------------------------------------------------------
(* How a call moves *)

\* Call c is at point now; the others are where they were.
Moved(c, point) ==
  /\ Calls' /\ pc'[c] = point
  /\ \A d \in Callers \ {c} : pc'[d] = pc[d] /\ job'[d] = job[d]

\* It goes on with what it works on.
LEMMA Went ==
  ASSUME Calls, NEW c \in Callers, NEW point \in PCs, Goto(c, point), job' = job
  PROVE  Moved(c, point) /\ job'[c] = job[c]
BY DEF Calls, Goto, Moved

\* It returns.
LEMMA Returned ==
  ASSUME Calls, NEW c \in Callers, Return(c)
  PROVE  Moved(c, "idle") /\ job'[c] = Idle
<1>1. Idle \in Job /\ "idle" \in PCs
  BY RepairAssumption DEF Idle, Job, PCs, Ahead
<1>2. pc' = [pc EXCEPT ![c] = "idle"] /\ job' = [job EXCEPT ![c] = Idle]
  BY DEF Return, Goto
<1>3. QED
  BY <1>1, <1>2 DEF Calls, Moved

\* It goes on with new work.
LEMMA Took ==
  ASSUME Calls, NEW c \in Callers, NEW point \in PCs, NEW work \in Job,
         pc' = [pc EXCEPT ![c] = point], job' = [job EXCEPT ![c] = work]
  PROVE  Moved(c, point) /\ job'[c] = work
BY DEF Calls, Moved

\* It throws.
LEMMA Caught ==
  ASSUME Calls, NEW c \in Callers, NEW error \in {"none", "provider", "other"}, Catch(c, error)
  PROVE  /\ Moved(c, "stopping") /\ job'[c].error = error
         /\ job'[c].gate = job[c].gate /\ job'[c].attempt = job[c].attempt
         /\ job'[c].plan = job[c].plan
<1> DEFINE work == [job[c] EXCEPT !.error = error]
<1>1. job[c] \in Job
  BY DEF Calls
<1>2. /\ work \in Job /\ work.error = error /\ work.gate = job[c].gate
      /\ work.attempt = job[c].attempt /\ work.plan = job[c].plan
  BY <1>1 DEF Job
<1>3. pc' = [pc EXCEPT ![c] = "stopping"] /\ job' = [job EXCEPT ![c] = work]
  BY DEF Catch, Goto
<1> HIDE DEF work
<1>4. "stopping" \in PCs
  BY DEF PCs
<1>5. QED
  BY <1>2, <1>3, <1>4, Took

\* The attempts stay, but for the status of the one call c works for.
AttemptsStay(c) ==
  /\ attempts' \in Seq(AttemptRow) /\ Len(attempts') = Len(attempts)
  /\ DOMAIN attempts' = DOMAIN attempts
  /\ \A i \in DOMAIN attempts : attempts'[i].gate = attempts[i].gate
  /\ \A i \in DOMAIN attempts \ {job[c].attempt} : attempts'[i] = attempts[i]

\* They stay altogether.
LEMMA AttemptsUntouched ==
  ASSUME Tables, NEW c, attempts' = attempts
  PROVE  AttemptsStay(c)
BY DEF Tables, AttemptsStay

\* The status of an attempt is written.
LEMMA AttemptWritten ==
  ASSUME Tables, NEW c, job[c].attempt \in DOMAIN attempts,
         NEW status \in {"planned", "waiting_for_approval", "stopped"},
         attempts' = [attempts EXCEPT ![job[c].attempt].status = status]
  PROVE  AttemptsStay(c) /\ attempts'[job[c].attempt].status = status
<1> DEFINE i == job[c].attempt
           row == [attempts[i] EXCEPT !.status = status]
<1>1. attempts \in Seq(AttemptRow) /\ attempts[i] \in AttemptRow
  BY DEF Tables
<1>2. row \in AttemptRow /\ row.gate = attempts[i].gate /\ row.status = status
  BY <1>1 DEF AttemptRow
<1>3. attempts' = [attempts EXCEPT ![i] = row]
  OBVIOUS
<1> HIDE DEF row
<1>4. QED
  BY <1>1, <1>2, <1>3 DEF AttemptsStay

\* A call that opens no plan and reserves nothing keeps the invariant when its
\* work is in order, and what it leaves tells what came of it.
LEMMA CallKeeps ==
  ASSUME IInv, Quiet, Scalars', NEW c \in Callers, NEW point \in PCs, Moved(c, point),
         AttemptsStay(c), Work(c)', Host',
         job'[c].attempt \in {0, job[c].attempt},
         \A i \in DOMAIN attempts : i = job[c].attempt /\ job'[c].attempt = 0 => Fits(i)'
  PROVE  IInv'
<1>1. Shapes'
  BY DEF IInv, Shapes, Tables, Quiet, GatesStay, RowsMove, PlansSame, AttemptsStay, Moved
<1>2. AttemptsAreDistinct' /\ PlansAreAccounted' /\ ReplacedIsOver'
  BY DistinctStays, AccountedStays, ReplacedStays
  DEF IInv, Shapes, Quiet, RowsMove, AttemptsStay
<1>3. ASSUME NEW d \in Callers, d # c
      PROVE  pc[d] \notin Ahead => AttemptStays(job[d].attempt)
  <2>1. pc[d] \notin Ahead => job[d].attempt \in DOMAIN attempts /\ 0 \notin DOMAIN attempts
    BY <1>3 DEF IInv, Shapes, Tables, Work
  <2>2. QED
    BY <1>3, <2>1 DEF IInv, Apart, AttemptStays, AttemptsStay
<1>4. ASSUME NEW d \in Callers PROVE Work(d)'
  <2>1. CASE d = c
    BY <2>1
  <2>2. CASE d # c
    BY <1>3, <2>2, WorkStays DEF IInv, Shapes, Moved
  <2>3. QED
    BY <2>1, <2>2
<1>5. Apart'
  BY DEF IInv, Apart, Moved
<1>6. ASSUME NEW i \in DOMAIN attempts' PROVE Held(i)' \/ Fits(i)'
  <2>1. i \in DOMAIN attempts /\ i # 0
    BY DEF IInv, Shapes, Tables, AttemptsStay
  <2>2. CASE i = job[c].attempt
    BY <2>1, <2>2 DEF Held
  <2>3. CASE i # job[c].attempt /\ Held(i)
    BY <2>3 DEF Held, Moved
  <2>4. CASE i # job[c].attempt /\ Fits(i)
    BY <2>1, <2>4, FitsStays DEF AttemptsStay, AttemptStays
  <2>5. QED
    BY <2>1, <2>2, <2>3, <2>4 DEF IInv, Fitting
<1>7. QED
  BY <1>1, <1>2, <1>4, <1>5, <1>6 DEF IInv, Fitting

-----------------------------------------------------------------------------
(* The reservation and the plan *)

\* The host is where nothing of the failed plan can start.
LEMMA HostGoesOn ==
  ASSUME Shapes, Host, NEW c \in Callers, RowsMove, UNCHANGED <<failed, left>>,
         pc[c] \notin {"idle"} \cup Recovering, pc'[c] \notin Recovering,
         \A d \in Callers \ {c} : pc'[d] = pc[d]
  PROVE  Host'
<1>1. CASE c = "host"
  <2>1. failed \in DOMAIN plans /\ failed' = failed
    BY <1>1, PlanIds DEF Shapes, Scalars, Host
  <2>2. \A r \in Rows : Over(failed, r)
    BY <1>1 DEF Host
  <2>3. \A r \in Rows : Over(failed, r)'
    BY <2>1, <2>2 DEF RowsMove, OverStays, Over, Row
  <2>4. QED
    BY <1>1, <2>1, <2>3 DEF Host, Shapes, Scalars
<1>2. CASE c # "host"
  <2>1. pc'["host"] = pc["host"]
    BY <1>2 DEF Callers
  <2>2. QED
    BY <2>1, HostStays DEF Shapes, Scalars
<1>3. QED
  BY <1>1, <1>2

\* Only pc, job and the status of an attempt change.
CallOnly == UNCHANGED <<gates, plans, retried, recovery, applying, bounds>>

\* Then nothing is disturbed but by a change of the task or of what is cut off.
LEMMA CallQuiet ==
  ASSUME Shapes, CallOnly, CancelStays, CutStays
  PROVE  Quiet /\ Scalars'
<1>1. GatesStay /\ RowsMove
  BY GatesUntouched, PlansUntouched DEF Shapes, CallOnly
<1>2. QED
  BY <1>1 DEF Shapes, Scalars, CallOnly, Quiet, CancelStays, CutStays, recovery, bounds

\* The latest gate asks for a repair.
LEMMA RequireGateKeeps ==
  ASSUME IInv, NEW c \in Callers, RequireGate(c)
  PROVE  IInv'
<1>1. /\ Shapes /\ Calls /\ Work(c) /\ pc[c] = "requesting" /\ job[c] \in Job
      /\ job[c].attempt = 0 /\ job[c].plan = 0
  BY DEF IInv, Shapes, Calls, RequireGate, Work, Ahead
<1>2. Quiet /\ Scalars' /\ AttemptsStay(c)
  BY <1>1, CallQuiet, AttemptsUntouched
  DEF Shapes, Scalars, CallOnly, CancelStays, CutStays, RequireGate, stored
<1>3. CASE gates # <<>> /\ Last(gates).status # "passed"
  <2> DEFINE work == [job[c] EXCEPT !.gate = Len(gates)]
  <2>1. Len(gates) \in 1..MaxGates /\ Len(gates) \in DOMAIN gates
    BY <1>1, <1>3, RepairAssumption DEF Shapes, Tables
  <2>2. work \in Job /\ work.gate = Len(gates) /\ work.attempt = 0 /\ work.plan = 0
    BY <1>1, <2>1 DEF Job
  <2>3. pc' = [pc EXCEPT ![c] = "reserving"] /\ job' = [job EXCEPT ![c] = work]
    BY <1>3 DEF RequireGate, Goto
  <2> HIDE DEF work
  <2>4. Moved(c, "reserving") /\ job'[c] = work
    BY <1>1, <2>2, <2>3, Took DEF PCs, Ahead
  <2>5. Work(c)'
    BY <2>1, <2>2, <2>4 DEF Work, Moved, Ahead, Planless, Answering, RequireGate, stored
  <2>6. Host'
    BY <1>1, <1>2, <2>4, HostGoesOn
    DEF IInv, Quiet, Moved, RequireGate, recovery, Recovering
  <2>7. QED
    BY <1>1, <1>2, <2>2, <2>4, <2>5, <2>6, CallKeeps DEF PCs, Ahead, Shapes, Tables
<1>4. CASE ~(gates # <<>> /\ Last(gates).status # "passed")
  <2>1. Moved(c, "idle") /\ job'[c] = Idle
    BY <1>1, <1>4, Returned DEF RequireGate
  <2>2. Work(c)'
    BY <2>1 DEF Work, Moved, Ahead, Planless, Answering, Idle
  <2>3. Host'
    BY <1>1, <1>2, <2>1, HostGoesOn
    DEF IInv, Quiet, Moved, RequireGate, recovery, Recovering
  <2>4. QED
    BY <1>1, <1>2, <2>1, <2>2, <2>3, CallKeeps DEF PCs, Ahead, Idle, Shapes, Tables
<1>5. QED
  BY <1>3, <1>4

\* Failures are repeated both ways.
LEMMA RepeatedBothWays ==
  ASSUME NEW f, NEW g, ~Repeated(f, g)
  PROVE  ~Repeated(g, f)
BY DEF Repeated

\* An attempt is reserved: only for a failure that no attempt was for.
LEMMA ReserveTakenKeeps ==
  ASSUME IInv, NEW c \in Callers, Reserve(c), Reservable(job[c].gate)
  PROVE  IInv'
<1> DEFINE n == Len(attempts) + 1
           row == [gate |-> job[c].gate, status |-> "planned"]
           work == [job[c] EXCEPT !.attempt = n]
<1>1. /\ Shapes /\ Tables /\ Calls /\ Work(c) /\ pc[c] = "reserving" /\ job[c] \in Job
      /\ job[c].attempt = 0 /\ job[c].plan = 0 /\ job[c].gate \in DOMAIN gates
  BY DEF IInv, Shapes, Calls, Reserve, Work, Ahead
<1>2. job[c].gate \in 1..MaxGates /\ Len(attempts) \in Nat /\ n \in 1..MaxAttempts
  BY <1>1, RepairAssumption DEF Tables, Reservable, Job
<1>3. row \in AttemptRow
  BY <1>2 DEF AttemptRow
<1>4. /\ attempts' \in Seq(AttemptRow) /\ Len(attempts') = n /\ attempts'[n] = row
      /\ n \notin DOMAIN attempts /\ DOMAIN attempts' = DOMAIN attempts \cup {n}
      /\ \A i \in DOMAIN attempts : attempts'[i] = attempts[i]
  <2>1. attempts' = Append(attempts, row) /\ attempts \in Seq(AttemptRow)
    BY <1>1 DEF Tables, Reserve
  <2> HIDE DEF row
  <2>2. QED
    BY <1>3, <2>1
<1>5. work \in Job /\ work.attempt = n /\ work.plan = 0 /\ work.gate = job[c].gate
  BY <1>1, <1>2 DEF Job
<1>6. pc' = [pc EXCEPT ![c] = "entering"] /\ job' = [job EXCEPT ![c] = work]
  BY <1>4 DEF Reserve, Goto
<1>7. row.gate = job[c].gate /\ row.status = "planned"
  OBVIOUS
<1> HIDE DEF work, row, n
<1>8. Moved(c, "entering") /\ job'[c] = work
  BY <1>1, <1>5, <1>6, Took DEF PCs, Planless
<1>9. /\ Quiet /\ Scalars'
      /\ UNCHANGED <<gates, plans, failed, left>>
  BY <1>1, CallQuiet DEF Shapes, Scalars, CallOnly, CancelStays, CutStays, Reserve, recovery
<1>10. Shapes'
  BY <1>1, <1>4, <1>7, <1>8, <1>9 DEF Shapes, Tables, Moved
<1>11. ASSUME NEW p \in DOMAIN plans PROVE plans[p].attempt # n
  <2>1. plans[p] \in PlanRow /\ n # 0
    BY <1>1, <1>2 DEF Tables
  <2>2. plans[p].by \in {"plan", "retry"} => plans[p].attempt = 0
    BY <1>1 DEF Tables
  <2>3. plans[p].by \in {"agent", "template"} => plans[p].attempt \in DOMAIN attempts
    BY DEF IInv, PlansAreAccounted
  <2>4. QED
    BY <1>4, <2>1, <2>2, <2>3 DEF PlanRow
<1>12. AttemptsAreDistinct'
  <2>1. /\ gates[job[c].gate].status # "passed"
        /\ \A i \in DOMAIN attempts :
             /\ ~Repeated(FailureOf(job[c].gate), FailureOf(attempts[i].gate))
             /\ ~Repeated(FailureOf(attempts[i].gate), FailureOf(job[c].gate))
    BY RepeatedBothWays DEF Reservable
  <2>2. \A i \in DOMAIN attempts' :
          /\ gates'[attempts'[i].gate].status # "passed"
          /\ \A j \in DOMAIN attempts' : i # j =>
               ~Repeated(gates'[attempts'[i].gate].failure, gates'[attempts'[j].gate].failure)
    BY <1>4, <1>7, <1>9, <2>1 DEF IInv, AttemptsAreDistinct, FailureOf
  <2>3. Len(attempts') <= MaxAttempts
    BY <1>2, <1>4, RepairAssumption
  <2>4. QED
    BY <2>2, <2>3 DEF AttemptsAreDistinct, FailureOf
<1>13. PlansAreAccounted' /\ ReplacedIsOver'
  BY <1>4, <1>9, AccountedStays, ReplacedStays, <1>1 DEF IInv, Quiet, RowsMove
<1>14. Work(c)'
  BY <1>4, <1>5, <1>7, <1>8, <1>9, <1>11
  DEF Work, Moved, Ahead, Recovering, Planless, Answering, Falling, Unopened
<1>15. ASSUME NEW d \in Callers PROVE Work(d)'
  <2>1. CASE d # c
    BY <1>1, <1>4, <1>8, <1>9, <2>1, WorkStays DEF IInv, Shapes, Work, Moved, AttemptStays
  <2>2. QED
    BY <1>14, <2>1
<1>16. Apart'
  <2>1. \A d \in Callers : job[d].attempt # n
    BY <1>1, <1>2, <1>4 DEF IInv, Work, Calls, PCs
  <2>2. QED
    BY <1>1, <1>5, <1>8, <2>1 DEF IInv, Apart, Moved
<1>17. Host'
  BY <1>1, <1>8, <1>9, HostGoesOn DEF IInv, Quiet, Moved, Recovering
<1>18. ASSUME NEW i \in DOMAIN attempts' PROVE Held(i)' \/ Fits(i)'
  <2>1. CASE i = n
    BY <1>5, <1>8, <2>1 DEF Held
  <2>2. CASE i \in DOMAIN attempts /\ Held(i)
    <3>1. PICK d \in Callers : job[d].attempt = i
      BY <2>2 DEF Held
    <3>2. i # 0
      BY <1>1, <2>2 DEF Tables
    <3>3. job'[d] = job[d]
      BY <1>1, <1>8, <3>1, <3>2 DEF Moved
    <3>4. QED
      BY <3>1, <3>3 DEF Held
  <2>3. CASE i \in DOMAIN attempts /\ Fits(i)
    BY <1>4, <1>9, <2>3, FitsStays DEF AttemptStays
  <2>4. QED
    BY <1>4, <2>1, <2>2, <2>3 DEF IInv, Fitting
<1>19. QED
  BY <1>10, <1>12, <1>13, <1>15, <1>16, <1>17, <1>18 DEF IInv, Fitting

\* A reservation that is refused ends the call.
LEMMA ReserveRefusedKeeps ==
  ASSUME IInv, NEW c \in Callers, Reserve(c), ~Reservable(job[c].gate)
  PROVE  IInv'
<1>1. Shapes /\ Calls /\ Tables /\ Work(c) /\ pc[c] = "reserving" /\ job[c].attempt = 0
  BY DEF IInv, Shapes, Reserve, Work, Ahead
<1>2. Quiet /\ Scalars' /\ AttemptsStay(c)
  BY <1>1, CallQuiet, AttemptsUntouched
  DEF Shapes, Scalars, CallOnly, CancelStays, CutStays, Reserve
<1>3. Moved(c, "idle") /\ job'[c] = Idle
  BY <1>1, Returned DEF Reserve
<1>4. Work(c)'
  BY <1>3 DEF Work, Moved, Ahead, Planless, Answering, Idle
<1>5. Host'
  BY <1>1, <1>2, <1>3, HostGoesOn DEF IInv, Quiet, Moved, Reserve, recovery, Recovering
<1>6. QED
  BY <1>1, <1>2, <1>3, <1>4, <1>5, CallKeeps DEF PCs, Ahead, Idle, Tables

\* The model is asked, or the call throws before.
LEMMA EnterKeeps ==
  ASSUME IInv, NEW c \in Callers, Enter(c)
  PROVE  IInv'
<1>1. Shapes /\ Calls /\ Tables /\ Work(c) /\ pc[c] = "entering"
  BY DEF IInv, Shapes, Enter
<1>2. /\ Quiet /\ Scalars' /\ AttemptsStay(c)
      /\ UNCHANGED <<gates, plans, attempts, failed, left>>
  BY <1>1, CallQuiet, AttemptsUntouched
  DEF Shapes, Scalars, CallOnly, CancelStays, CutStays, Enter, stored, recovery
<1>3. /\ job[c].attempt \in DOMAIN attempts /\ attempts[job[c].attempt].status = "planned"
      /\ Unopened(job[c].attempt) /\ job[c].plan = 0
  BY <1>1 DEF Work, Ahead, Recovering, Planless, Falling
<1>4. /\ Unopened(job[c].attempt) => \A p \in DOMAIN plans : plans[p].attempt # job[c].attempt
  BY DEF Unopened
<1>5. ASSUME NEW error \in {"provider", "other"}, Catch(c, error) PROVE IInv'
  <2>1. Moved(c, "stopping") /\ job'[c].attempt = job[c].attempt
    BY <1>1, <1>5, Caught
  <2>2. Work(c)'
    BY <1>2, <1>3, <2>1
    DEF Work, Moved, Ahead, Recovering, Planless, Answering, Falling, Unopened, Answered
  <2>3. Host'
    BY <1>1, <1>2, <2>1, HostGoesOn DEF IInv, Quiet, Moved, Recovering
  <2>4. QED
    BY <1>1, <1>2, <1>3, <2>1, <2>2, <2>3, CallKeeps DEF PCs, Tables
<1>6. CASE Goto(c, "planning") /\ job' = job
  <2>1. Moved(c, "planning") /\ job'[c] = job[c]
    BY <1>1, <1>6, Went DEF PCs, Planless
  <2>2. Work(c)'
    BY <1>2, <1>3, <1>6, <2>1
    DEF Work, Moved, Ahead, Recovering, Planless, Answering, Falling, Unopened
  <2>3. Host'
    BY <1>1, <1>2, <2>1, HostGoesOn DEF IInv, Quiet, Moved, Recovering
  <2>4. QED
    BY <1>1, <1>2, <1>3, <2>1, <2>2, <2>3, CallKeeps DEF PCs, Planless, Tables
<1>7. QED
  BY <1>5, <1>6 DEF Enter

\* The model call fails.
LEMMA PlanningFailsKeeps ==
  ASSUME IInv, NEW c \in Callers, PlanningFails(c)
  PROVE  IInv'
<1>1. Shapes /\ Calls /\ Tables /\ Work(c) /\ pc[c] = "planning" /\ task \in TaskStatus
  BY DEF IInv, Shapes, Scalars, PlanningFails
<1>2. CancelStays
  BY <1>1, CancelledForGood DEF PlanningFails, CancelStays, TaskStatus
<1>3. /\ Quiet /\ Scalars' /\ AttemptsStay(c)
      /\ UNCHANGED <<gates, plans, attempts, failed, left>>
  BY <1>1, <1>2, CallQuiet, AttemptsUntouched DEF Shapes, Scalars, CutStays, CallOnly, PlanningFails, recovery
<1>4. /\ job[c].attempt \in DOMAIN attempts /\ attempts[job[c].attempt].status = "planned"
      /\ Unopened(job[c].attempt)
  BY <1>1 DEF Work, Ahead, Recovering, Planless, Falling
<1>5. PICK error \in {"provider", "other"} : Catch(c, error)
  BY DEF PlanningFails
<1>6. Moved(c, "stopping") /\ job'[c].attempt = job[c].attempt
  BY <1>1, <1>5, Caught
<1>7. Work(c)'
  BY <1>3, <1>4, <1>6
  DEF Work, Moved, Ahead, Recovering, Planless, Answering, Falling, Unopened, Answered
<1>8. Host'
  BY <1>1, <1>3, <1>6, HostGoesOn DEF IInv, Quiet, Moved, Recovering
<1>9. QED
  BY <1>1, <1>3, <1>4, <1>6, <1>7, <1>8, CallKeeps DEF PCs, Tables

\* The task may take what the answer asks for, unless it is cancelled.
LEMMA AnswersAreTaken ==
  ASSUME task \in TaskStatus, ~Allowed(task, "waiting_for_approval")
  PROVE  task = "cancelled"
BY DEF Allowed, AllowedFrom, TaskStatus

\* The model answers with words.
LEMMA AnswerWordsKeeps ==
  ASSUME IInv, NEW c \in Callers, Answer(c), UNCHANGED <<plans, job>>
  PROVE  IInv'
<1>1. Shapes /\ Calls /\ Tables /\ Work(c) /\ pc[c] = "planning"
  BY DEF IInv, Shapes, Answer
<1>2. /\ Quiet /\ Scalars' /\ AttemptsStay(c)
      /\ UNCHANGED <<gates, plans, attempts, failed, left, task, cut>>
  BY <1>1, CallQuiet, AttemptsUntouched
  DEF Shapes, Scalars, CancelStays, CutStays, CallOnly, Answer, recovery
<1>3. /\ job[c].attempt \in DOMAIN attempts /\ attempts[job[c].attempt].status = "planned"
      /\ Unopened(job[c].attempt) /\ job[c].plan = 0
  BY <1>1 DEF Work, Ahead, Recovering, Planless, Falling
<1>4. Moved(c, "moving") /\ job'[c] = job[c]
  BY <1>1, Went DEF PCs, Answering, Answer
<1>5. Work(c)'
  BY <1>1, <1>2, <1>3, <1>4
  DEF Work, Moved, Ahead, Recovering, Planless, Answering, Falling, Unopened
<1>6. Host'
  BY <1>1, <1>2, <1>4, HostGoesOn DEF IInv, Quiet, Moved, Recovering
<1>7. QED
  BY <1>1, <1>2, <1>3, <1>4, <1>5, <1>6, CallKeeps DEF PCs, Answering, Tables

\* A call that takes the answer over.
LEMMA AnsweringKnows ==
  ASSUME Tables, NEW c \in Callers, Work(c), pc[c] \in Answering
  PROVE  /\ job[c].attempt \in DOMAIN attempts /\ job[c].attempt # 0
         /\ attempts[job[c].attempt].status = "planned"
         /\ IF job[c].plan = 0 THEN Unopened(job[c].attempt) /\ ~Answered(job[c].attempt)
                               ELSE Answered(job[c].attempt)
BY DEF Tables, Work, Ahead, Recovering, Answering, Falling, Unopened, Answered

\* The task takes the answer, or the call throws.
LEMMA MoveTaskOnKeeps ==
  ASSUME IInv, NEW c \in Callers, MoveTaskOn(c)
  PROVE  IInv'
<1> DEFINE to == IF job[c].plan = 0 THEN "ready_for_review" ELSE "waiting_for_approval"
           i == job[c].attempt
<1>1. Shapes /\ Calls /\ Tables /\ Work(c) /\ pc[c] = "moving" /\ task \in TaskStatus
  BY DEF IInv, Shapes, Scalars, MoveTaskOn
<1>2. /\ i \in DOMAIN attempts /\ i # 0 /\ attempts[i].status = "planned"
      /\ IF job[c].plan = 0 THEN Unopened(i) /\ ~Answered(i) ELSE Answered(i)
  BY <1>1, AnsweringKnows DEF Answering
<1>3. CancelStays
  BY <1>1, CancelledForGood DEF MoveTaskOn, CancelStays, TaskStatus
<1>4. /\ Quiet /\ Scalars' /\ AttemptsStay(c)
      /\ UNCHANGED <<gates, plans, attempts, failed, left, cut>>
  BY <1>1, <1>3, CallQuiet, AttemptsUntouched DEF Shapes, Scalars, CutStays, CallOnly, MoveTaskOn, recovery
<1>5. \A k : Unopened(k)' = Unopened(k) /\ Answered(k)' = Answered(k)
  BY <1>4 DEF Unopened, Answered
<1>6. CASE ~IsCut(c) /\ Allowed(task, to)
  <2>1. Moved(c, "recording") /\ job'[c] = job[c]
    BY <1>1, <1>6, Went DEF PCs, Answering, MoveTaskOn
  <2>2. Work(c)'
    BY <1>1, <1>2, <1>4, <1>6, <2>1
    DEF Work, Moved, Ahead, Recovering, Planless, Answering, Falling, Unopened, Answered
  <2>3. Host'
    BY <1>1, <1>4, <2>1, HostGoesOn DEF IInv, Quiet, Moved, Recovering
  <2>4. QED
    BY <1>2, <1>4, <2>1, <2>2, <2>3, CallKeeps DEF PCs, Answering
<1>7. CASE ~(~IsCut(c) /\ Allowed(task, to))
  <2>1. Catch(c, "other") /\ task' = task
    BY <1>7 DEF MoveTaskOn
  <2>2. Moved(c, "stopping") /\ job'[c].attempt = i /\ job'[c].error = "other"
    BY <1>1, <2>1, Caught
  <2>3. Answered(i) => i \in cut \/ task = "cancelled"
    BY <1>1, <1>2, <1>7, AnswersAreTaken DEF IsCut
  <2>4. Work(c)'
    BY <1>2, <1>4, <2>1, <2>2, <2>3
    DEF Work, Moved, Ahead, Recovering, Planless, Answering, Falling, Unopened, Answered
  <2>5. Host'
    BY <1>1, <1>4, <2>2, HostGoesOn DEF IInv, Quiet, Moved, Recovering
  <2>6. QED
    BY <1>2, <1>4, <2>2, <2>4, <2>5, CallKeeps DEF PCs
<1>8. QED
  BY <1>6, <1>7

\* The attempt tells what came of it.
LEMMA RecordKeeps ==
  ASSUME IInv, NEW c \in Callers, Record(c)
  PROVE  IInv'
<1> DEFINE i == job[c].attempt
<1>1. Shapes /\ Calls /\ Tables /\ Work(c) /\ pc[c] = "recording"
  BY DEF IInv, Shapes, Scalars, Record
<1>2. /\ i \in DOMAIN attempts /\ i # 0 /\ attempts[i].status = "planned"
      /\ IF job[c].plan = 0 THEN Unopened(i) /\ ~Answered(i) ELSE Answered(i)
  BY <1>1, AnsweringKnows DEF Answering
<1>3. /\ Quiet /\ Scalars'
      /\ UNCHANGED <<gates, plans, failed, left, cut, task>>
  BY <1>1, CallQuiet DEF Shapes, Scalars, CancelStays, CutStays, CallOnly, Record, recovery
<1>4. CASE IsCut(c)
  <2>1. Catch(c, "other") /\ attempts' = attempts
    BY <1>4 DEF Record
  <2>2. Moved(c, "stopping") /\ job'[c].attempt = i /\ job'[c].error = "other" /\ AttemptsStay(c)
    BY <1>1, <2>1, Caught, AttemptsUntouched
  <2>3. Work(c)'
    BY <1>2, <1>3, <1>4, <2>1, <2>2
    DEF Work, Moved, Ahead, Recovering, Planless, Answering, Falling, Unopened, Answered, IsCut
  <2>4. Host'
    BY <1>1, <1>3, <2>2, HostGoesOn DEF IInv, Quiet, Moved, Recovering
  <2>5. QED
    BY <1>2, <1>3, <2>2, <2>3, <2>4, CallKeeps DEF PCs
<1>5. CASE ~IsCut(c)
  <2> DEFINE status == IF job[c].plan = 0 THEN "stopped" ELSE "waiting_for_approval"
  <2>1. AttemptsStay(c) /\ attempts'[i].status = status
    BY <1>1, <1>2, <1>5, AttemptWritten DEF Record
  <2>2. Moved(c, "idle") /\ job'[c] = Idle
    BY <1>1, <1>5, Returned DEF Record
  <2>3. Work(c)'
    BY <2>2 DEF Work, Moved, Ahead, Planless, Answering, Idle
  <2>4. Host'
    BY <1>1, <1>3, <2>2, HostGoesOn DEF IInv, Quiet, Moved, Recovering
  <2>5. ASSUME NEW k \in DOMAIN attempts, k = i PROVE Fits(k)'
    <3>1. Answered(k)' = Answered(k)
      BY <1>3 DEF Answered
    <3>2. QED
      BY <1>2, <1>3, <2>1, <2>5, <3>1 DEF Fits
  <2>6. QED
    BY <1>3, <2>1, <2>2, <2>3, <2>4, <2>5, CallKeeps DEF PCs, Ahead, Idle
<1>6. QED
  BY <1>4, <1>5

\* The attempt is over.
LEMMA StopKeeps ==
  ASSUME IInv, NEW c \in Callers, Stop(c)
  PROVE  IInv'
<1> DEFINE i == job[c].attempt
<1>1. Shapes /\ Calls /\ Tables /\ Work(c) /\ pc[c] = "stopping"
  BY DEF IInv, Shapes, Scalars, Stop
<1>2. /\ i \in DOMAIN attempts /\ i # 0
      /\ job[c].error = "provider" => Unopened(i)
      /\ Answered(i) => i \in cut \/ task = "cancelled"
  BY <1>1 DEF Tables, Work, Ahead, Recovering
<1>3. /\ Quiet /\ Scalars'
      /\ UNCHANGED <<gates, plans, failed, left, cut, task>>
  BY <1>1, CallQuiet DEF Shapes, Scalars, CancelStays, CutStays, CallOnly, Stop, recovery
<1>4. AttemptsStay(c) /\ attempts'[i].status = "stopped"
  BY <1>1, <1>2, AttemptWritten DEF Stop
<1>5. CASE job[c].error = "provider"
  <2>1. Moved(c, "falling") /\ job'[c] = job[c]
    BY <1>1, <1>5, Went DEF Stop, PCs, Falling
  <2>2. Work(c)'
    BY <1>2, <1>3, <1>4, <1>5, <2>1
    DEF Work, Moved, Ahead, Recovering, Planless, Answering, Falling, Unopened, AttemptsStay
  <2>3. Host'
    BY <1>1, <1>3, <2>1, HostGoesOn DEF IInv, Quiet, Moved, Recovering
  <2>4. QED
    BY <1>2, <1>3, <1>4, <2>1, <2>2, <2>3, CallKeeps DEF PCs, Falling
<1>6. CASE job[c].error # "provider"
  <2>1. Moved(c, "idle") /\ job'[c] = Idle
    BY <1>1, <1>6, Returned DEF Stop
  <2>2. Work(c)'
    BY <2>1 DEF Work, Moved, Ahead, Planless, Answering, Idle
  <2>3. Host'
    BY <1>1, <1>3, <2>1, HostGoesOn DEF IInv, Quiet, Moved, Recovering
  <2>4. ASSUME NEW k \in DOMAIN attempts, k = i PROVE Fits(k)'
    <3>1. Answered(k)' = Answered(k)
      BY <1>3 DEF Answered
    <3>2. QED
      BY <1>2, <1>3, <1>4, <2>4, <3>1 DEF Fits
  <2>5. QED
    BY <1>3, <1>4, <2>1, <2>2, <2>3, <2>4, CallKeeps DEF PCs, Ahead, Idle
<1>7. QED
  BY <1>5, <1>6

\* There is nothing to fall back for, or a template is due.
LEMMA FallKeeps ==
  ASSUME IInv, NEW c \in Callers, Fall(c)
  PROVE  IInv'
<1> DEFINE i == job[c].attempt
<1>1. Shapes /\ Calls /\ Tables /\ Work(c) /\ pc[c] = "falling"
  BY DEF IInv, Shapes, Fall
<1>2. i \in DOMAIN attempts /\ i # 0 /\ attempts[i].status = "stopped" /\ Unopened(i)
  BY <1>1 DEF Tables, Work, Ahead, Recovering, Falling
<1>3. /\ Quiet /\ Scalars' /\ AttemptsStay(c)
      /\ UNCHANGED <<gates, plans, attempts, failed, left, cut, task>>
  BY <1>1, CallQuiet, AttemptsUntouched
  DEF Shapes, Scalars, CancelStays, CutStays, CallOnly, Fall, stored, recovery
<1>4. CASE Goto(c, "drafting") /\ job' = job
  <2>1. Moved(c, "drafting") /\ job'[c] = job[c]
    BY <1>1, <1>4, Went DEF PCs, Falling
  <2>2. Work(c)'
    BY <1>2, <1>3, <2>1
    DEF Work, Moved, Ahead, Recovering, Planless, Answering, Falling, Unopened
  <2>3. Host'
    BY <1>1, <1>3, <2>1, HostGoesOn DEF IInv, Quiet, Moved, Recovering
  <2>4. QED
    BY <1>2, <1>3, <2>1, <2>2, <2>3, CallKeeps DEF PCs, Falling
<1>5. CASE Return(c)
  <2>1. Moved(c, "idle") /\ job'[c] = Idle
    BY <1>1, <1>5, Returned
  <2>2. Work(c)'
    BY <2>1 DEF Work, Moved, Ahead, Planless, Answering, Idle
  <2>3. Host'
    BY <1>1, <1>3, <2>1, HostGoesOn DEF IInv, Quiet, Moved, Recovering
  <2>4. ASSUME NEW k \in DOMAIN attempts, k = i PROVE Fits(k)'
    BY <1>2, <1>3, <2>4 DEF Fits, Answered, Unopened
  <2>5. QED
    BY <1>3, <2>1, <2>2, <2>3, <2>4, CallKeeps DEF PCs, Ahead, Idle
<1>6. QED
  BY <1>4, <1>5 DEF Fall

\* The call with a template returns.
LEMMA SettleKeeps ==
  ASSUME IInv, NEW c \in Callers, Settle(c)
  PROVE  IInv'
<1> DEFINE i == job[c].attempt
<1>1. Shapes /\ Calls /\ Tables /\ Work(c) /\ pc[c] = "settling" /\ task \in TaskStatus
  BY DEF IInv, Shapes, Scalars, Settle
<1>2. i \in DOMAIN attempts /\ attempts[i].status = "stopped" /\ ~Answered(i)
  BY <1>1 DEF Work, Ahead, Recovering, Falling
<1>3. CancelStays
  BY <1>1, CancelledForGood DEF Settle, CancelStays, TaskStatus
<1>4. /\ Quiet /\ Scalars' /\ AttemptsStay(c)
      /\ UNCHANGED <<gates, plans, attempts, failed, left, cut>>
  BY <1>1, <1>3, CallQuiet, AttemptsUntouched DEF Shapes, Scalars, CutStays, CallOnly, Settle, recovery
<1>5. Moved(c, "idle") /\ job'[c] = Idle
  BY <1>1, Returned DEF Settle
<1>6. Work(c)'
  BY <1>5 DEF Work, Moved, Ahead, Planless, Answering, Idle
<1>7. Host'
  BY <1>1, <1>4, <1>5, HostGoesOn DEF IInv, Quiet, Moved, Recovering
<1>8. ASSUME NEW k \in DOMAIN attempts, k = i PROVE Fits(k)'
  BY <1>2, <1>4, <1>8 DEF Fits, Answered
<1>9. QED
  BY <1>4, <1>5, <1>6, <1>7, <1>8, CallKeeps DEF PCs, Ahead, Idle

-----------------------------------------------------------------------------
(* A plan is opened *)

\* A new plan, that replaces none or one of which nothing can start any more.
Opened(plan) ==
  /\ Len(plans) < MaxPlans /\ plan \in PlanRow /\ plans' = Append(plans, plan)
  /\ plan.replaces \in 0..Len(plans)
  /\ plan.replaces # 0 => \A r \in Rows : Over(plan.replaces, r)
  /\ plan.by \in {"plan", "retry"} => plan.attempt = 0

\* For other attempts nothing was opened.
LEMMA OpenedElsewhere ==
  ASSUME Tables, NEW plan, Opened(plan), NEW i, i # plan.attempt
  PROVE  Unopened(i)' = Unopened(i) /\ Answered(i)' = Answered(i)
<1> DEFINE n == Len(plans) + 1
<1>1. /\ DOMAIN plans' = DOMAIN plans \cup {n} /\ plans'[n] = plan
      /\ \A q \in DOMAIN plans : plans'[q] = plans[q]
  BY PlanAdded DEF Opened
<1> HIDE DEF n
<1>2. QED
  BY <1>1 DEF Unopened, Answered

\* The tables keep their shape, and what was replaced stays over.
LEMMA OpenedTables ==
  ASSUME Tables, ReplacedIsOver, NEW plan, Opened(plan), UNCHANGED <<gates, attempts>>
  PROVE  Tables' /\ ReplacedIsOver' /\ Len(plans) \in Nat /\ Len(plans') = Len(plans) + 1
<1> DEFINE n == Len(plans) + 1
<1>1. /\ plans' \in Seq(PlanRow) /\ Len(plans') = n /\ n \in 1..MaxPlans
      /\ n \notin DOMAIN plans /\ DOMAIN plans' = DOMAIN plans \cup {n}
      /\ plans'[n] = plan /\ \A q \in DOMAIN plans : plans'[q] = plans[q]
  BY PlanAdded DEF Opened
<1>2. Len(plans) \in Nat /\ DOMAIN plans = 1..Len(plans)
  BY PlanIds, RepairAssumption
<1>3. Tables'
  <2>1. \A q \in DOMAIN plans' : plans'[q].replaces \in 0..n
    BY <1>1, <1>2 DEF Tables, Opened
  <2>2. \A q \in DOMAIN plans' : plans'[q].by \in {"plan", "retry"} => plans'[q].attempt = 0
    BY <1>1 DEF Tables, Opened
  <2>3. n <= MaxPlans
    BY <1>1, RepairAssumption
  <2> HIDE DEF n
  <2>4. QED
    BY <1>1, <2>1, <2>2, <2>3 DEF Tables
<1>4. ReplacedIsOver'
  <2>1. ASSUME NEW q \in DOMAIN plans', plans'[q].replaces # 0, NEW r \in Rows
        PROVE  /\ plans'[q].replaces \in DOMAIN plans
               /\ Over(plans'[q].replaces, r)
    <3>1. plans'[q].replaces \in DOMAIN plans
      BY <1>1, <1>2, <2>1 DEF Tables, Opened
    <3>2. CASE q = n
      BY <1>1, <2>1, <3>2 DEF Opened
    <3>3. CASE q \in DOMAIN plans
      <4>1. plans'[q].replaces = plans[q].replaces
        BY <1>1, <3>3
      <4>2. Over(plans[q].replaces, r)
        BY <2>1, <3>3, <4>1 DEF ReplacedIsOver, Over
      <4>3. QED
        BY <3>1, <4>1, <4>2
    <3>4. QED
      BY <1>1, <3>1, <3>2, <3>3
  <2>2. QED
    BY <1>1, <2>1 DEF ReplacedIsOver, Over, Row
<1>5. QED
  BY <1>1, <1>2, <1>3, <1>4

\* What is left of a failed plan stays as it is.
LEMMA OpenedHost ==
  ASSUME Tables, Host, failed \in 0..Len(plans), NEW plan, Opened(plan), UNCHANGED <<failed, left>>,
         \/ pc'["host"] = pc["host"]
         \/ pc["host"] \notin {"idle"} \cup Recovering /\ pc'["host"] \notin Recovering
  PROVE  Host'
<1> DEFINE n == Len(plans) + 1
<1>1. /\ DOMAIN plans' = DOMAIN plans \cup {n} /\ \A q \in DOMAIN plans : plans'[q] = plans[q]
  BY PlanAdded DEF Opened
<1> HIDE DEF n
<1>2. CASE failed = 0
  BY <1>2 DEF Host, Recovering
<1>3. CASE failed # 0
  <2>1. failed \in DOMAIN plans /\ failed' = failed
    BY <1>3, PlanIds
  <2>2. \A r \in Rows : Over(failed, r)' = Over(failed, r)
    BY <1>1, <2>1 DEF Over, Row
  <2>3. QED
    BY <1>3, <2>1, <2>2 DEF Host, Recovering
<1>4. QED
  BY <1>2, <1>3

\* A call opens the plan of its attempt.
LEMMA OpenKeeps ==
  ASSUME IInv, NEW c \in Callers, NEW plan, Opened(plan),
         plan.by \in {"agent", "template"}, plan.attempt = job[c].attempt,
         job[c].attempt \in DOMAIN attempts, Unopened(job[c].attempt),
         UNCHANGED <<task, gates, attempts, retried, recovery, applying, cut, bounds>>,
         pc[c] \notin {"idle"} \cup Recovering,
         NEW point \in PCs \ Recovering, Moved(c, point), job'[c].attempt = job[c].attempt,
         Work(c)'
  PROVE  IInv'
<1> DEFINE n == Len(plans) + 1
           i == job[c].attempt
<1>1. /\ DOMAIN plans' = DOMAIN plans \cup {n} /\ n \notin DOMAIN plans /\ plans'[n] = plan
      /\ \A q \in DOMAIN plans : plans'[q] = plans[q]
  BY PlanAdded DEF IInv, Shapes, Opened
<1>2. Shapes' /\ ReplacedIsOver'
  BY OpenedTables DEF IInv, Shapes, Scalars, Moved, recovery, bounds
<1> HIDE DEF n
<1>3. i # 0
  BY DEF IInv, Shapes, Tables
<1> HIDE DEF i
<1>4. AttemptsAreDistinct'
  BY DEF IInv, AttemptsAreDistinct, FailureOf
<1>5. PlansAreAccounted'
  <2>1. \A q \in DOMAIN plans : plans[q].attempt # i
    BY DEF Unopened, i
  <2>2. QED
    BY <1>1, <2>1 DEF IInv, PlansAreAccounted, i
<1>6. ASSUME NEW k, k # i
      PROVE  Unopened(k)' = Unopened(k) /\ Answered(k)' = Answered(k)
  BY <1>6, OpenedElsewhere DEF IInv, Shapes, i
<1>7. ASSUME NEW d \in Callers PROVE Work(d)'
  <2>1. CASE d # c
    <3>1. pc'[d] = pc[d] /\ job'[d] = job[d] /\ job[d].attempt # i /\ pc[d] \in PCs
      BY <1>3, <2>1 DEF IInv, Shapes, Calls, Moved, Apart, i
    <3>2. /\ Unopened(job[d].attempt)' = Unopened(job[d].attempt)
          /\ Answered(job[d].attempt)' = Answered(job[d].attempt)
      <4>1. PICK k : k = job[d].attempt /\ k = job'[d].attempt
        BY <3>1
      <4>2. Unopened(k)' = Unopened(k) /\ Answered(k)' = Answered(k)
        BY <1>6, <3>1, <4>1
      <4>3. QED
        BY <4>1, <4>2 DEF Unopened, Answered
    <3>3. Work(d)
      BY DEF IInv
    <3>4. QED
      BY <3>1, <3>2, <3>3 DEF Work
  <2>2. QED
    BY <2>1
<1>8. Apart'
  BY DEF IInv, Apart, Moved
<1>9. Host'
  <2>1. \/ pc'["host"] = pc["host"]
        \/ pc["host"] \notin {"idle"} \cup Recovering /\ pc'["host"] \notin Recovering
    BY DEF Moved, Callers
  <2>2. QED
    BY <2>1, OpenedHost DEF IInv, Shapes, Scalars, recovery
<1>10. ASSUME NEW k \in DOMAIN attempts' PROVE Held(k)' \/ Fits(k)'
  <2>1. CASE Held(k)
    BY <2>1 DEF Held, Moved
  <2>2. CASE ~Held(k)
    <3>1. k # i /\ Fits(k)
      BY <2>2 DEF IInv, Fitting, Held, i
    <3>2. QED
      BY <1>6, <3>1 DEF Fits, bounds
  <2>3. QED
    BY <2>1, <2>2
<1>11. QED
  BY <1>2, <1>4, <1>5, <1>7, <1>8, <1>9, <1>10 DEF IInv, Fitting

\* The plan of a call is a row, and replaces what the host has retired.
LEMMA PlanOfCall ==
  ASSUME IInv, NEW c \in Callers, NEW by \in {"agent", "template"}, NEW rows \in SUBSET Rows,
         AddPlan(c, by, Proposing(rows)), Len(plans) < MaxPlans,
         pc[c] \notin {"idle"} \cup Recovering, job[c] \in Job
  PROVE  LET plan == [by |-> by, attempt |-> job[c].attempt,
                      replaces |-> IF c = "host" THEN failed ELSE 0, rows |-> Proposing(rows)] IN
         Opened(plan) /\ plan.by = by /\ plan.attempt = job[c].attempt
<1> DEFINE plan == [by |-> by, attempt |-> job[c].attempt,
                    replaces |-> IF c = "host" THEN failed ELSE 0, rows |-> Proposing(rows)]
<1>1. Proposing(rows) \in [Rows -> RowState]
  BY DEF Proposing, RowState, Proposed, Absent
<1>2. failed \in 0..Len(plans) /\ failed \in 0..MaxPlans
  BY PlanIds, RepairAssumption DEF IInv, Shapes, Scalars
<1>3. c = "host" => \A r \in Rows : Over(failed, r)
  BY DEF IInv, Host
<1>4. plan \in PlanRow
  BY <1>1, <1>2, RepairAssumption DEF PlanRow, Job
<1>5. plan.replaces \in 0..Len(plans) /\ (plan.replaces # 0 => \A r \in Rows : Over(plan.replaces, r))
  BY <1>2, <1>3, PlanIds DEF IInv, Shapes
<1>6. plan.by = by /\ plan.attempt = job[c].attempt
  OBVIOUS
<1>7. plans' = Append(plans, plan)
  BY DEF AddPlan
<1> HIDE DEF plan
<1>8. Opened(plan)
  BY <1>4, <1>5, <1>6, <1>7 DEF Opened
<1>9. QED
  BY <1>6, <1>8 DEF plan

\* The model answers with a plan.
LEMMA AnswerPlanKeeps ==
  ASSUME IInv, NEW c \in Callers, Answer(c), NEW rows \in Proposals,
         Len(plans) < MaxPlans, AddPlan(c, "agent", Proposing(rows)),
         job' = [job EXCEPT ![c].plan = Len(plans')]
  PROVE  IInv'
<1> DEFINE plan == [by |-> "agent", attempt |-> job[c].attempt,
                    replaces |-> IF c = "host" THEN failed ELSE 0, rows |-> Proposing(rows)]
           i == job[c].attempt
           work == [job[c] EXCEPT !.plan = Len(plans')]
<1>1. Shapes /\ Calls /\ Tables /\ Work(c) /\ pc[c] = "planning" /\ job[c] \in Job
  BY DEF IInv, Shapes, Calls, Answer
<1>2. i \in DOMAIN attempts /\ attempts[i].status = "planned" /\ Unopened(i)
  BY <1>1 DEF Work, Ahead, Recovering, Planless, Falling
<1>3. rows \in SUBSET Rows
  BY RepairAssumption DEF Rows
<1>4. Opened(plan) /\ plan.by = "agent" /\ plan.attempt = i
  BY <1>1, <1>3, PlanOfCall DEF Recovering
<1> HIDE DEF plan
<1>5. /\ Len(plans') \in 1..MaxPlans /\ plans'[Len(plans')] = plan
      /\ Len(plans') \in DOMAIN plans'
  BY <1>1, <1>4, PlanAdded DEF Opened
<1>6. work \in Job /\ work.attempt = i /\ work.plan = Len(plans')
  BY <1>1, <1>5 DEF Job
<1>7. pc' = [pc EXCEPT ![c] = "moving"] /\ job' = [job EXCEPT ![c] = work]
  BY DEF Answer, Goto
<1> HIDE DEF work
<1>8. Moved(c, "moving") /\ job'[c] = work
  BY <1>1, <1>6, <1>7, Took DEF PCs, Answering
<1>9. /\ UNCHANGED <<task, gates, attempts, retried, recovery, applying, cut, bounds>>
  BY DEF Answer
<1>10. \E p \in DOMAIN plans' : plans'[p].by = "agent" /\ plans'[p].attempt = i
  BY <1>4, <1>5
<1> HIDE DEF i
<1>11. Work(c)'
  <2>1. pc'[c] = "moving" /\ job'[c].attempt = i
    BY <1>6, <1>8 DEF Moved
  <2>4. job'[c].plan # 0
    <3>1. Len(plans') # 0
      BY <1>5, RepairAssumption
    <3>2. QED
      BY <1>6, <1>8, <3>1
  <2>2. Answered(job[c].attempt)'
    BY <1>10, <2>1 DEF Answered
  <2>3. /\ job'[c].attempt \in DOMAIN attempts'
        /\ attempts'[job'[c].attempt].status = "planned"
    BY <1>2, <1>9, <2>1
  <2>5. QED
    BY <2>1, <2>2, <2>3, <2>4 DEF Work, Ahead, Recovering, Planless, Answering, Falling
<1>12. QED
  BY <1>1, <1>2, <1>4, <1>6, <1>8, <1>9, <1>11, OpenKeeps
  DEF PCs, Answering, Recovering, i

\* A template is drafted.
LEMMA DraftKeeps ==
  ASSUME IInv, NEW c \in Callers, Draft(c)
  PROVE  IInv'
<1> DEFINE rows == {"check"}
           plan == [by |-> "template", attempt |-> job[c].attempt,
                    replaces |-> IF c = "host" THEN failed ELSE 0, rows |-> Proposing(rows)]
           i == job[c].attempt
<1>1. Shapes /\ Calls /\ Tables /\ Work(c) /\ pc[c] = "drafting" /\ job[c] \in Job
  BY DEF IInv, Shapes, Calls, Draft
<1>2. i \in DOMAIN attempts /\ attempts[i].status = "stopped" /\ Unopened(i)
  BY <1>1 DEF Work, Ahead, Recovering, Falling
<1>3. rows \in SUBSET Rows /\ Len(plans) < MaxPlans /\ AddPlan(c, "template", Proposing(rows))
  BY DEF Rows, Draft
<1> HIDE DEF rows
<1>4. Opened(plan) /\ plan.by = "template" /\ plan.attempt = i
  BY <1>1, <1>3, PlanOfCall DEF Recovering
<1> HIDE DEF plan
<1>5. Moved(c, "settling") /\ job'[c] = job[c]
  BY <1>1, Went DEF Draft, PCs, Falling
<1>6. UNCHANGED <<task, gates, attempts, retried, recovery, applying, cut, bounds>>
  BY DEF Draft
<1>7. \A p \in DOMAIN plans' : plans'[p].by = "agent" => plans'[p].attempt # i
  BY <1>1, <1>2, <1>4, PlanAdded DEF Opened, Unopened
<1> HIDE DEF i
<1>8. Work(c)'
  BY <1>2, <1>5, <1>6, <1>7
  DEF Work, Moved, Ahead, Recovering, Planless, Answering, Falling, Answered, i
<1>9. QED
  BY <1>1, <1>2, <1>4, <1>5, <1>6, <1>8, OpenKeeps DEF PCs, Falling, Recovering, i

\* A retry is prepared beside the calls.
LEMMA PrepareRetryKeeps ==
  ASSUME IInv, NEW p \in DOMAIN plans, PrepareRetry(p)
  PROVE  IInv'
<1> DEFINE rows == {"check"}
           plan == [by |-> "retry", attempt |-> 0, replaces |-> 0, rows |-> Proposing(rows)]
<1>1. Proposing(rows) \in [Rows -> RowState]
  BY DEF Proposing, RowState, Proposed, Absent, Rows
<1>2. plan \in PlanRow
  BY <1>1, RepairAssumption DEF PlanRow
<1>3. plans' = Append(plans, plan) /\ plan.attempt = 0 /\ plan.replaces = 0 /\ plan.by = "retry"
  BY DEF PrepareRetry
<1> HIDE DEF plan
<1>4. Tables /\ Calls /\ Scalars /\ Opened(plan) /\ Len(plans) \in 0..MaxPlans
  BY <1>2, <1>3, PlanIds DEF IInv, Shapes, PrepareRetry, Opened
<1>5. /\ task # "cancelled" /\ task' = "waiting_for_approval"
      /\ moves' \in 0..MaxMoves
      /\ UNCHANGED <<gates, attempts, pc, job, failed, left, found, applying, cut, faults>>
  BY <1>4, RepairAssumption DEF PrepareRetry, Command, Scalars, recovery
<1>6. Tables' /\ ReplacedIsOver' /\ Len(plans') = Len(plans) + 1
  BY <1>4, <1>5, OpenedTables DEF IInv
<1>7. retried' \subseteq 1..MaxPlans
  <2>1. p \in 1..MaxPlans /\ retried \subseteq 1..MaxPlans
    BY <1>4, PlanIds, RepairAssumption DEF Scalars
  <2>2. retried' = retried \cup {p}
    BY DEF PrepareRetry
  <2>3. QED
    BY <2>1, <2>2
<1>8. Shapes'
  BY <1>4, <1>5, <1>6, <1>7 DEF Shapes, Calls, Scalars, TaskStatus
<1>9. AttemptsAreDistinct' /\ Apart'
  BY <1>5 DEF IInv, AttemptsAreDistinct, FailureOf, Apart
<1>10. 0 \notin DOMAIN attempts
  BY <1>4 DEF Tables
<1>11. ASSUME NEW k \in DOMAIN attempts
       PROVE  Unopened(k)' = Unopened(k) /\ Answered(k)' = Answered(k)
  BY <1>3, <1>4, <1>10, OpenedElsewhere
<1>12. PlansAreAccounted'
  BY <1>3, <1>4, <1>5, <1>10, PlanAdded DEF IInv, PlansAreAccounted, Opened
<1>13. ASSUME NEW c \in Callers PROVE Work(c)'
  <2>1. Work(c) /\ pc[c] \in PCs
    BY <1>4 DEF IInv, Calls
  <2>2. CASE pc[c] \in Ahead
    BY <1>5, <2>1, <2>2 DEF Work, Ahead, Recovering, Planless, Answering
  <2>3. CASE pc[c] \notin Ahead
    <3>1. job[c].attempt \in DOMAIN attempts
      BY <2>1, <2>3 DEF Work
    <3>2. /\ Unopened(job[c].attempt)' = Unopened(job[c].attempt)
          /\ Answered(job[c].attempt)' = Answered(job[c].attempt)
      BY <1>5, <1>11, <3>1 DEF Unopened, Answered
    <3>3. ~Planning /\ task # "cancelled"
      BY <1>5 DEF PrepareRetry
    <3>4. QED
      BY <1>5, <2>1, <3>2, <3>3 DEF Work
  <2>4. QED
    BY <2>2, <2>3
<1>14. Host'
  BY <1>4, <1>5, OpenedHost DEF IInv, Scalars
<1>15. ASSUME NEW k \in DOMAIN attempts PROVE Held(k)' \/ Fits(k)'
  BY <1>5, <1>11 DEF IInv, Fitting, Held, Fits
<1>16. QED
  BY <1>5, <1>6, <1>8, <1>9, <1>12, <1>13, <1>14, <1>15 DEF IInv, Fitting

-----------------------------------------------------------------------------
(* The host's recovery and a crash *)

\* The host works for no attempt while it recovers.
LEMMA HostIsAhead ==
  ASSUME IInv, pc["host"] \in {"idle"} \cup Recovering
  PROVE  /\ Tables /\ Calls /\ Scalars /\ Host /\ "host" \in Callers /\ job["host"] \in Job
         /\ job["host"].attempt = 0 /\ job["host"].plan = 0
         /\ pc["host"] # "idle" => failed \in DOMAIN plans /\ failed # 0
<1>1. /\ Tables /\ Calls /\ Scalars /\ Host /\ "host" \in Callers /\ Work("host")
  BY DEF IInv, Shapes, Callers
<1>2. job["host"] \in Job /\ job["host"].attempt = 0 /\ job["host"].plan = 0
  BY <1>1 DEF Calls, Work, Ahead
<1>3. pc["host"] # "idle" => failed \in DOMAIN plans /\ failed # 0
  BY <1>1, PlanIds DEF Host, Scalars
<1>4. QED
  BY <1>1, <1>2, <1>3

\* A step of the recovery keeps the invariant when the host knows what is left.
LEMMA HostKeeps ==
  ASSUME IInv, Quiet, Scalars', attempts' = attempts, pc["host"] \in {"idle"} \cup Recovering,
         NEW point \in {"idle", "requesting"} \cup Recovering, Moved("host", point),
         job'["host"].attempt = 0, job'["host"].plan = 0, Host'
  PROVE  IInv'
<1>1. Tables /\ "host" \in Callers /\ job["host"].attempt = 0
  BY HostIsAhead
<1>2. AttemptsStay("host")
  BY <1>1, AttemptsUntouched
<1>3. Work("host")'
  BY DEF Work, Moved, Ahead, Recovering, Planless, Answering, Falling
<1>4. \A i \in DOMAIN attempts : i # 0
  BY <1>1 DEF Tables
<1>5. QED
  BY <1>1, <1>2, <1>3, <1>4, CallKeeps DEF PCs, Ahead

\* The host gives up.
LEMMA GiveUpKeeps ==
  ASSUME IInv, Quiet, attempts' = attempts, pc["host"] \in {"idle"} \cup Recovering, GiveUp,
         retried' = retried, applying' = applying, cut' = cut, moves' = moves,
         faults' \in 0..MaxFaults
  PROVE  IInv'
<1>1. /\ Tables /\ Calls /\ Scalars /\ "host" \in Callers
  BY HostIsAhead
<1>2. Moved("host", "idle") /\ job'["host"] = Idle
  BY <1>1, Returned DEF GiveUp
<1>3. Scalars'
  <2>1. 0 \in 0..Len(plans')
    BY <1>1, PlanIds DEF Quiet, RowsMove, PlansSame
  <2>2. QED
    BY <1>1, <2>1 DEF Scalars, Quiet, CancelStays, GiveUp, Nothing, Rows
<1>4. Host'
  BY <1>2 DEF Host, Moved, Recovering
<1>5. QED
  BY <1>2, <1>3, <1>4, HostKeeps DEF Idle

\* The host takes a confirmed failure up.
LEMMA RecoverKeeps ==
  ASSUME IInv, Recover
  PROVE  IInv'
<1>1. Tables /\ Calls /\ Scalars /\ Host /\ "host" \in Callers /\ pc["host"] = "idle"
  BY HostIsAhead DEF Recover
<1>2. job["host"].attempt = 0 /\ job["host"].plan = 0
  BY <1>1, HostIsAhead
<1>3. Moved("host", "evaluating") /\ job'["host"] = job["host"]
  BY <1>1, Went DEF Recover, PCs, Ahead, Recovering
<1>4. Quiet /\ Scalars' /\ attempts' = attempts
  BY <1>1, GatesUntouched, PlansUntouched
  DEF Recover, Quiet, Scalars, CancelStays, CutStays, stored, recovery, bounds
<1>5. Host'
  BY <1>3 DEF Recover, Host, Moved, Recovering, recovery
<1>6. QED
  BY <1>1, <1>2, <1>3, <1>4, <1>5, HostKeeps DEF Recovering

\* It stores a gate.
LEMMA EvaluateKeeps ==
  ASSUME IInv, NEW gate \in Outcomes, Evaluate(gate)
  PROVE  IInv'
<1> DEFINE work == [job["host"] EXCEPT !.gate = Len(gates')]
<1>1. /\ Tables /\ Calls /\ Scalars /\ Host /\ "host" \in Callers /\ job["host"] \in Job
      /\ pc["host"] = "evaluating"
      /\ job["host"].attempt = 0 /\ job["host"].plan = 0 /\ failed # 0
  BY HostIsAhead DEF Evaluate, Recovering
<1>2. GatesStay /\ Len(gates') \in 0..MaxGates
  BY <1>1, GateAdded DEF Evaluate
<1>3. work \in Job /\ work.attempt = 0 /\ work.plan = 0
  BY <1>1, <1>2 DEF Job
<1>4. pc' = [pc EXCEPT !["host"] = "applying"] /\ job' = [job EXCEPT !["host"] = work]
  BY DEF Evaluate, Goto
<1> HIDE DEF work
<1>5. Moved("host", "applying") /\ job'["host"] = work
  BY <1>1, <1>3, <1>4, Took DEF PCs, Ahead, Recovering
<1>6. Quiet /\ Scalars' /\ attempts' = attempts /\ failed' = failed
  BY <1>1, <1>2, PlansUntouched
  DEF Evaluate, Quiet, Scalars, CancelStays, CutStays, recovery, bounds
<1>7. Host'
  BY <1>1, <1>5, <1>6 DEF Host, Moved, Recovering
<1>8. QED
  BY <1>1, <1>3, <1>5, <1>6, <1>7, HostKeeps DEF Recovering

\* It applies it.
LEMMA ApplyKeeps ==
  ASSUME IInv, Apply
  PROVE  IInv'
<1>1. /\ Tables /\ Calls /\ Scalars /\ Host /\ "host" \in Callers
      /\ pc["host"] = "applying" /\ pc["host"] \in Recovering
      /\ job["host"].attempt = 0 /\ job["host"].plan = 0 /\ failed # 0
  BY HostIsAhead DEF Apply, Recovering
<1>2. CancelStays
  BY <1>1, AppliedLeavesCancelled DEF Scalars, Apply
<1>3. Quiet /\ attempts' = attempts
  BY <1>1, <1>2, GatesUntouched, PlansUntouched
  DEF Apply, Scalars, Quiet, CutStays, bounds
<1>4. CASE GiveUp
  BY <1>1, <1>3, <1>4, GiveUpKeeps DEF Apply, Scalars, bounds
<1>5. CASE Goto("host", "reading") /\ UNCHANGED <<job, recovery>>
  <2>1. Moved("host", "reading") /\ job'["host"] = job["host"]
    BY <1>1, <1>5, Went DEF PCs, Ahead, Recovering
  <2>2. Scalars'
    BY <1>1, <1>2, <1>5 DEF Scalars, CancelStays, Apply, recovery, bounds
  <2>3. Host'
    BY <1>1, <1>5, <2>1 DEF Host, Moved, Recovering, recovery
  <2>4. QED
    BY <1>1, <1>3, <2>1, <2>2, <2>3, HostKeeps DEF Recovering
<1>6. QED
  BY <1>4, <1>5 DEF Apply

\* What it has not to reject is over.
LEMMA ReadFailureKeeps ==
  ASSUME IInv, ReadFailure
  PROVE  IInv'
<1>1. /\ Tables /\ Calls /\ Scalars /\ Host /\ "host" \in Callers
      /\ pc["host"] = "reading" /\ pc["host"] \in Recovering
      /\ job["host"].attempt = 0 /\ job["host"].plan = 0 /\ failed # 0
  BY HostIsAhead DEF ReadFailure, Recovering
<1>2. Quiet /\ attempts' = attempts
  BY <1>1, GatesUntouched, PlansUntouched
  DEF ReadFailure, Quiet, Scalars, CancelStays, CutStays, stored, bounds
<1>3. CASE GiveUp
  BY <1>1, <1>2, <1>3, GiveUpKeeps DEF ReadFailure, Scalars, stored, bounds
<1>4. CASE /\ failed \notin retried /\ left' = Rivals(failed)
           /\ Goto("host", "retiring") /\ UNCHANGED <<job, failed, found>>
  <2>1. Moved("host", "retiring") /\ job'["host"] = job["host"]
    BY <1>1, <1>4, Went DEF PCs, Ahead, Recovering
  <2>2. Scalars'
    BY <1>1, <1>4 DEF Scalars, Rivals, ReadFailure, stored, bounds
  <2>3. \A r \in Rows \ left' : Over(failed, r)
    BY <1>4 DEF Rivals, Over
  <2>4. Host'
    BY <1>1, <1>4, <2>1, <2>3 DEF Host, Moved, Recovering, ReadFailure, stored, Over, Row
  <2>5. QED
    BY <1>1, <1>2, <2>1, <2>2, <2>4, HostKeeps DEF Recovering
<1>5. QED
  BY <1>3, <1>4 DEF ReadFailure

\* It looks for the next row to reject, and is through when there is none.
LEMMA RetireKeeps ==
  ASSUME IInv, Retire
  PROVE  IInv'
<1>1. /\ Tables /\ Calls /\ Scalars /\ Host /\ "host" \in Callers
      /\ pc["host"] = "retiring" /\ pc["host"] \in Recovering
      /\ job["host"].attempt = 0 /\ job["host"].plan = 0 /\ failed # 0 /\ failed \in DOMAIN plans
  BY HostIsAhead DEF Retire, Recovering
<1>2. Quiet /\ UNCHANGED <<attempts, plans>>
  BY <1>1, GatesUntouched, PlansUntouched
  DEF Retire, Quiet, Scalars, CancelStays, CutStays, stored, bounds
<1>3. \A r \in Rows \ left : Over(failed, r)
  BY <1>1 DEF Host
<1>4. CASE GiveUp
  BY <1>1, <1>2, <1>4, GiveUpKeeps DEF Retire, Scalars, stored, bounds
<1>5. CASE left = {} /\ Goto("host", "closing") /\ UNCHANGED <<job, recovery>>
  <2>1. Moved("host", "closing") /\ job'["host"] = job["host"]
    BY <1>1, <1>5, Went DEF PCs, Ahead, Recovering
  <2>2. Scalars'
    BY <1>1, <1>2, <1>5 DEF Scalars, Retire, stored, recovery, bounds
  <2>3. Host'
    BY <1>1, <1>2, <1>3, <1>5, <2>1 DEF Host, Moved, Recovering, recovery, Over, Row
  <2>4. QED
    BY <1>1, <1>2, <2>1, <2>2, <2>3, HostKeeps DEF Recovering
<1>6. ASSUME NEW r \in left, OpenRow(Row(failed, r)), Goto("host", "deciding"),
             found' = [row |-> r, status |-> Row(failed, r).status],
             UNCHANGED <<job, failed, left>>
      PROVE  IInv'
  <2>1. Moved("host", "deciding") /\ job'["host"] = job["host"]
    BY <1>1, <1>6, Went DEF PCs, Ahead, Recovering
  <2>2. found' \in [row : Rows, status : {"absent", "pending", "approved"}]
    BY <1>1, <1>6 DEF Scalars, OpenRow
  <2>3. Scalars'
    BY <1>1, <1>2, <1>6, <2>2 DEF Scalars, Retire, stored, bounds
  <2>4. Host'
    BY <1>1, <1>2, <1>3, <1>6, <2>1 DEF Host, Moved, Recovering, Over, Row
  <2>5. QED
    BY <1>1, <1>2, <2>1, <2>3, <2>4, HostKeeps DEF Recovering
<1>7. QED
  BY <1>4, <1>5, <1>6 DEF Retire

\* A row that is rejected is over.
LEMMA DecideKeeps ==
  ASSUME IInv, Decide
  PROVE  IInv'
<1>1. /\ Tables /\ Calls /\ Scalars /\ Host /\ "host" \in Callers
      /\ pc["host"] = "deciding" /\ pc["host"] \in Recovering
      /\ job["host"].attempt = 0 /\ job["host"].plan = 0 /\ failed # 0 /\ failed \in DOMAIN plans
  BY HostIsAhead DEF Decide, Recovering
<1>2. GatesStay /\ CancelStays /\ CutStays /\ UNCHANGED <<attempts, faults, retried, moves, applying, cut>>
  BY <1>1, GatesUntouched
  DEF Decide, Scalars, CancelStays, CutStays, stored, bounds
<1>3. CASE plans' = plans /\ GiveUp
  <2>1. Quiet
    BY <1>1, <1>2, <1>3, PlansUntouched DEF Quiet, Decide, bounds
  <2>2. QED
    BY <1>1, <1>2, <1>3, <2>1, GiveUpKeeps DEF Scalars
<1>4. CASE /\ SetRow(failed, found.row, [Row(failed, found.row) EXCEPT !.status = "rejected"])
           /\ left' = left \ {found.row}
           /\ Goto("host", "retiring") /\ found' = Nothing /\ UNCHANGED <<job, failed>>
  <2> DEFINE row == [Row(failed, found.row) EXCEPT !.status = "rejected"]
  <2>1. found.row \in Rows /\ Row(failed, found.row) \in RowState
    BY <1>1, PlanIds DEF Scalars
  <2>2. row \in RowState /\ row.status = "rejected"
    BY <2>1 DEF RowState
  <2>3. SetRow(failed, found.row, row)
    BY <1>4
  <2> HIDE DEF row
  <2>4. ~OpenRow(row)
    BY <2>2 DEF OpenRow
  <2>5. RowsMove
    BY <1>1, <2>1, <2>2, <2>3, <2>4, RowMoved
  <2>6. Quiet
    BY <1>2, <2>5 DEF Quiet
  <2>7. Moved("host", "retiring") /\ job'["host"] = job["host"]
    BY <1>1, <1>4, Went DEF PCs, Ahead, Recovering
  <2>8. Scalars'
    BY <1>1, <1>2, <1>4, <2>5 DEF Scalars, CancelStays, RowsMove, PlansSame, Nothing, Rows
  <2>9. ASSUME NEW r \in Rows \ left' PROVE Over(failed, r)'
    <3>1. CASE r = found.row
      BY <1>1, <1>4, <2>1, <2>2, <2>3, <2>4, <3>1, RowWritten DEF Over, Row
    <3>2. CASE r # found.row
      BY <1>1, <1>4, <2>5, <3>2 DEF Host, RowsMove, OverStays, Over, Row
    <3>3. QED
      BY <3>1, <3>2
  <2>10. Host'
    BY <1>1, <1>4, <2>7, <2>9 DEF Host, Moved, Recovering
  <2>11. QED
    BY <1>1, <1>2, <2>6, <2>7, <2>8, <2>10, HostKeeps DEF Recovering
<1>5. QED
  BY <1>3, <1>4 DEF Decide

\* A repair is requested.
LEMMA CloseFailedKeeps ==
  ASSUME IInv, CloseFailed
  PROVE  IInv'
<1>1. /\ Tables /\ Calls /\ Scalars /\ Host /\ "host" \in Callers
      /\ pc["host"] = "closing" /\ pc["host"] \in Recovering
      /\ job["host"].attempt = 0 /\ job["host"].plan = 0 /\ failed # 0
  BY HostIsAhead DEF CloseFailed, Recovering
<1>2. Quiet /\ UNCHANGED <<attempts, plans>>
  BY <1>1, GatesUntouched, PlansUntouched
  DEF CloseFailed, Quiet, Scalars, CancelStays, CutStays, stored, bounds
<1>3. CASE GiveUp
  BY <1>1, <1>2, <1>3, GiveUpKeeps DEF CloseFailed, Scalars, stored, bounds
<1>4. CASE Goto("host", "requesting") /\ UNCHANGED <<job, recovery>>
  <2>1. Moved("host", "requesting") /\ job'["host"] = job["host"]
    BY <1>1, <1>4, Went DEF PCs, Ahead
  <2>2. Scalars'
    BY <1>1, <1>2, <1>4 DEF Scalars, CloseFailed, stored, recovery, bounds
  <2>3. Host'
    BY <1>1, <1>2, <1>4, <2>1 DEF Host, Moved, Recovering, recovery, Over, Row
  <2>4. QED
    BY <1>1, <1>2, <2>1, <2>2, <2>3, HostKeeps
<1>5. QED
  BY <1>3, <1>4 DEF CloseFailed

\* The user asks for a repair.
LEMMA RequestRepairKeeps ==
  ASSUME IInv, RequestRepair
  PROVE  IInv'
<1>1. /\ Tables /\ Calls /\ Scalars /\ Host /\ "user" \in Callers /\ Work("user")
      /\ pc["user"] = "idle"
  BY DEF IInv, Shapes, Callers, RequestRepair
<1>2. job["user"].attempt = 0 /\ job["user"].plan = 0
  BY <1>1 DEF Work, Ahead
<1>3. Quiet /\ AttemptsStay("user") /\ RowsMove /\ UNCHANGED <<left, failed>>
  BY <1>1, GatesUntouched, PlansUntouched, AttemptsUntouched
  DEF RequestRepair, Quiet, Scalars, CancelStays, CutStays, stored, recovery
<1>4. Scalars'
  BY <1>1, RepairAssumption DEF RequestRepair, Command, Scalars, stored, recovery
<1>5. Moved("user", "requesting") /\ job'["user"] = job["user"]
  BY <1>1, Went DEF RequestRepair, PCs, Ahead
<1>6. Work("user")'
  BY <1>2, <1>5 DEF Work, Moved, Ahead, Recovering, Planless, Answering, Falling
<1>7. Host'
  <2>1. pc'["host"] = pc["host"]
    BY <1>5 DEF Moved, Callers
  <2>2. QED
    BY <1>1, <1>3, <2>1, HostStays DEF Scalars
<1>8. \A i \in DOMAIN attempts : i # 0
  BY <1>1 DEF Tables
<1>9. QED
  BY <1>1, <1>2, <1>3, <1>4, <1>5, <1>6, <1>7, <1>8, CallKeeps DEF PCs, Ahead

\* What an attempt in a call's hands tells when the call ends early.
LEMMA LeftBehind ==
  ASSUME IInv, NEW c \in Callers, NEW i \in DOMAIN attempts, job[c].attempt = i,
         UNCHANGED <<attempts, cut, task>>, Answered(i)' = Answered(i), faults' > 0
  PROVE  Fits(i)'
<1>1. i # 0 /\ Work(c)
  BY DEF IInv, Shapes, Tables
<1>2. pc[c] \notin Ahead
  BY <1>1 DEF Work
<1>3. attempts[i].status = "planned" \/ ~Answered(i)
  <2>1. CASE pc[c] \notin Falling
    BY <1>1, <1>2, <2>1 DEF Work
  <2>2. CASE pc[c] \in {"falling", "drafting"}
    BY <1>1, <1>2, <2>2 DEF Work, Unopened, Answered
  <2>3. CASE pc[c] = "settling"
    BY <1>1, <1>2, <2>3 DEF Work
  <2>4. QED
    BY <2>1, <2>2, <2>3 DEF Falling
<1>4. attempts[i].status # "waiting_for_approval"
  BY <1>1, <1>2 DEF Work
<1>5. QED
  BY <1>3, <1>4 DEF Fits

\* A failure of the storage ends the attempt, the recovery or the call.
LEMMA StorageFailsKeeps ==
  ASSUME IInv, NEW c \in Callers, StorageFails(c)
  PROVE  IInv'
<1>1. /\ Shapes /\ Tables /\ Calls /\ Scalars /\ Work(c) /\ Host
      /\ Len(attempts) <= MaxAttempts
  BY DEF IInv, Shapes, AttemptsAreDistinct
<1>2. /\ faults' \in 0..MaxFaults /\ faults' > 0
      /\ UNCHANGED <<task, gates, attempts, plans, retried, applying, moves>>
  BY <1>1, RepairAssumption DEF StorageFails, Scalars, stored
<1>3. GatesStay /\ RowsMove /\ CancelStays /\ AttemptsStay(c)
  BY <1>1, <1>2, GatesUntouched, PlansUntouched, AttemptsUntouched DEF Scalars, CancelStays
<1>4. CASE pc[c] \in Trying /\ Catch(c, "other") /\ CutOff(c) /\ UNCHANGED recovery
  <2> DEFINE i == job[c].attempt
  <2>1. i \in DOMAIN attempts /\ attempts[i].status = "planned"
    BY <1>1, <1>4 DEF Work, Trying, Ahead, Recovering, Falling
  <2>2. i \in 1..MaxAttempts
    BY <1>1, <2>1, RepairAssumption DEF Tables
  <2>3. CutStays /\ i \in cut'
    BY <1>1, <1>4, <2>2 DEF Scalars, CutOff, CutStays
  <2>4. Quiet
    BY <1>2, <1>3, <2>3 DEF Quiet
  <2>5. Scalars'
    BY <1>1, <1>2, <1>4, <2>3 DEF Scalars, CutStays, recovery
  <2>6. Moved(c, "stopping") /\ job'[c].attempt = i /\ job'[c].error = "other"
    BY <1>1, <1>4, Caught
  <2>7. Work(c)'
    BY <1>2, <2>1, <2>3, <2>6
    DEF Work, Moved, Ahead, Recovering, Planless, Answering, Falling
  <2>8. Host'
    BY <1>1, <1>3, <1>4, <2>6, HostGoesOn DEF Moved, Trying, Recovering, recovery
  <2>9. i # 0
    BY <1>1, <2>1 DEF Tables
  <2> HIDE DEF i
  <2>10. QED
    BY <1>3, <2>4, <2>5, <2>6, <2>7, <2>8, <2>9, CallKeeps DEF PCs, i
<1>5. CASE c = "host" /\ pc[c] \in Recovering /\ GiveUp /\ cut' = cut
  <2>1. Quiet
    BY <1>1, <1>2, <1>3, <1>5 DEF Quiet, CutStays, Scalars
  <2>2. QED
    BY <1>2, <1>5, <2>1, GiveUpKeeps
<1>6. CASE pc[c] \notin Trying \cup Recovering /\ Return(c) /\ UNCHANGED <<cut, recovery>>
  <2>1. Quiet
    BY <1>1, <1>2, <1>3, <1>6 DEF Quiet, CutStays, Scalars
  <2>2. Scalars'
    BY <1>1, <1>2, <1>6 DEF Scalars, recovery
  <2>3. Moved(c, "idle") /\ job'[c] = Idle
    BY <1>1, <1>6, Returned
  <2>4. Work(c)'
    BY <2>3 DEF Work, Moved, Ahead, Planless, Answering, Idle
  <2>5. Host'
    BY <1>1, <1>3, <1>6, <2>3, HostGoesOn DEF StorageFails, Moved, Recovering, recovery
  <2>6. ASSUME NEW i \in DOMAIN attempts, i = job[c].attempt PROVE Fits(i)'
    <3>1. Answered(i)' = Answered(i)
      BY <1>2 DEF Answered
    <3>2. QED
      BY <1>2, <1>6, <2>6, <3>1, LeftBehind
  <2>7. QED
    BY <1>3, <2>1, <2>2, <2>3, <2>4, <2>5, <2>6, CallKeeps DEF PCs, Ahead, Idle
<1>7. QED
  BY <1>4, <1>5, <1>6 DEF StorageFails

\* A crash ends the calls; what they held stays planned, or is over.
LEMMA CrashKeeps ==
  ASSUME IInv, Crash
  PROVE  IInv'
<1>1. Tables /\ Calls /\ Scalars
  BY DEF IInv, Shapes
<1>2. /\ \A p \in DOMAIN plans : plans[p] \in PlanRow
      /\ Len(plans) \in Nat /\ DOMAIN plans = 1..Len(plans)
  BY <1>1, PlanIds DEF Tables
<1>3. ASSUME NEW p \in DOMAIN plans
      PROVE  /\ plans'[p] \in PlanRow /\ plans'[p].by = plans[p].by
             /\ plans'[p].attempt = plans[p].attempt /\ plans'[p].replaces = plans[p].replaces
             /\ \A r \in Rows : Over(p, r) =>
                  (OpenRow(plans'[p].rows[r]) => plans'[p].rows[r].exec # "none")
  <2> DEFINE rows == [r \in Rows |-> IF plans[p].rows[r].exec \in {"claimed", "running"}
                                     THEN [plans[p].rows[r] EXCEPT !.exec = "uncertain"]
                                     ELSE plans[p].rows[r]]
  <2>1. plans'[p] = [plans[p] EXCEPT !.rows = rows]
    <3>1. plans[p].rows \in [Rows -> RowState]
      BY <1>2 DEF PlanRow
    <3>2. QED
      BY <3>1 DEF Crash
  <2>2. ASSUME NEW r \in Rows
        PROVE  /\ rows[r] \in RowState
               /\ Over(p, r) => (OpenRow(rows[r]) => rows[r].exec # "none")
    <3>1. plans[p].rows[r] \in RowState
      BY <1>2 DEF PlanRow
    <3>2. [plans[p].rows[r] EXCEPT !.exec = "uncertain"] \in RowState
      BY <3>1 DEF RowState
    <3>3. QED
      BY <3>1, <3>2 DEF Over, Row, RowState
  <2>3. rows \in [Rows -> RowState]
    BY <2>2
  <2> HIDE DEF rows
  <2>4. /\ plans'[p] \in PlanRow /\ plans'[p].rows = rows /\ plans'[p].by = plans[p].by
        /\ plans'[p].attempt = plans[p].attempt /\ plans'[p].replaces = plans[p].replaces
    BY <1>2, <2>1, <2>3 DEF PlanRow
  <2>5. QED
    BY <2>2, <2>4
<1>4. plans' \in [1..Len(plans) -> PlanRow]
  <2>1. DOMAIN plans' = DOMAIN plans /\ plans' = [p \in DOMAIN plans |-> plans'[p]]
    BY DEF Crash
  <2>2. QED
    BY <1>2, <1>3, <2>1
<1>5. plans' \in Seq(PlanRow) /\ Len(plans') = Len(plans) /\ DOMAIN plans' = DOMAIN plans
  BY <1>2, <1>4
<1>6. RowsMove
  BY <1>3, <1>5 DEF RowsMove, PlansSame, OverStays
<1>7. GatesStay /\ faults' = faults + 1 /\ UNCHANGED <<task, attempts, gates, cut>>
  BY <1>1, GatesUntouched DEF Crash
<1>8. \A c \in Callers : pc'[c] = "idle" /\ job'[c] = Idle
  BY DEF Crash
<1>9. Shapes'
  <2>1. Tables'
    BY <1>1, <1>6, <1>7, TablesStay DEF RowsMove
  <2>2. Calls'
    BY RepairAssumption DEF Crash, Calls, PCs, Ahead, Idle, Job
  <2>3. faults' \in 0..MaxFaults /\ 0 \in 0..Len(plans')
    BY <1>1, <1>2, <1>5, RepairAssumption DEF Crash, Scalars
  <2>4. Scalars'
    BY <1>1, <2>3, RepairAssumption DEF Crash, Scalars, Nothing, Rows
  <2>5. QED
    BY <2>1, <2>2, <2>4 DEF Shapes
<1>10. AttemptsAreDistinct' /\ PlansAreAccounted' /\ ReplacedIsOver'
  BY <1>1, <1>6, <1>7, DistinctStays, AccountedStays, ReplacedStays DEF IInv, RowsMove
<1>11. Apart' /\ Host' /\ \A c \in Callers : Work(c)'
  BY <1>8 DEF Apart, Host, Work, Idle, Ahead, Recovering, Planless, Answering, Callers
<1>12. ASSUME NEW i \in DOMAIN attempts PROVE Fits(i)'
  <2>1. Answered(i)' = Answered(i)
    BY <1>6, OpenedStays DEF RowsMove
  <2>2. faults' > 0 /\ faults' # 0
    BY <1>1, <1>7, RepairAssumption DEF Scalars
  <2>3. CASE Fits(i)
    BY <1>7, <2>1, <2>2, <2>3 DEF Fits
  <2>4. CASE Held(i)
    BY <1>7, <2>1, <2>2, <2>4, LeftBehind DEF Held
  <2>5. QED
    BY <2>3, <2>4 DEF IInv, Fitting
<1>13. QED
  BY <1>7, <1>9, <1>10, <1>11, <1>12 DEF IInv, Fitting

-----------------------------------------------------------------------------
(* The specification keeps it *)

\* One plan, whose check failed, and nothing under way.
LEMMA InitInv == Init => IInv
<1> SUFFICES ASSUME Init PROVE IInv
  OBVIOUS
<1>1. PICK consent \in [Rest -> {"pending", "approved"}] :
        plans = <<[by |-> "plan", attempt |-> 0, replaces |-> 0,
                   rows |-> [r \in Rows |->
                     IF r = "check" THEN [status |-> "executed", exec |-> "failed"]
                     ELSE [status |-> consent[r], exec |-> "none"]]]>>
  BY DEF Init
<1> DEFINE rows == [r \in Rows |-> IF r = "check" THEN [status |-> "executed", exec |-> "failed"]
                                   ELSE [status |-> consent[r], exec |-> "none"]]
           plan == [by |-> "plan", attempt |-> 0, replaces |-> 0, rows |-> rows]
<1>2. rows \in [Rows -> RowState]
  BY DEF Rows, RowState
<1> HIDE DEF rows
<1>3. plan \in PlanRow /\ plan.by = "plan" /\ plan.attempt = 0 /\ plan.replaces = 0
  BY <1>2, RepairAssumption DEF PlanRow
<1>4. plans = <<plan>>
  BY <1>1 DEF rows
<1> HIDE DEF plan
<1>5. /\ plans \in Seq(PlanRow) /\ Len(plans) = 1 /\ DOMAIN plans = {1} /\ plans[1] = plan
  BY <1>3, <1>4
<1>6. /\ gates \in Seq(Outcomes) /\ Len(gates) = 0
      /\ attempts \in Seq(AttemptRow) /\ Len(attempts) = 0 /\ DOMAIN attempts = {}
  BY DEF Init
<1>7. Tables
  BY <1>3, <1>5, <1>6, RepairAssumption DEF Tables
<1>8. Calls
  BY RepairAssumption DEF Init, Calls, PCs, Ahead, Idle, Job
<1>9. Scalars
  BY <1>5, RepairAssumption DEF Init, Scalars, TaskStatus, Nothing, Rows
<1>10. AttemptsAreDistinct /\ PlansAreAccounted /\ Fitting /\ ReplacedIsOver
  BY <1>3, <1>5, <1>6, RepairAssumption
  DEF AttemptsAreDistinct, PlansAreAccounted, Fitting, ReplacedIsOver
<1>11. Apart /\ Host /\ \A c \in Callers : Work(c)
  BY DEF Init, Apart, Host, Work, Idle, Ahead, Recovering, Planless, Answering, Callers
<1>12. QED
  BY <1>7, <1>8, <1>9, <1>10, <1>11 DEF IInv, Shapes

\* A step of a repair keeps it.
LEMMA RepairStepKeeps ==
  ASSUME IInv, NEW c \in Callers, RepairStep(c)
  PROVE  IInv'
<1>1. CASE Answer(c)
  <2>1. CASE UNCHANGED <<plans, job>>
    BY <1>1, <2>1, AnswerWordsKeeps
  <2>2. CASE ~UNCHANGED <<plans, job>>
    <3>1. PICK rows \in Proposals :
            /\ Len(plans) < MaxPlans /\ AddPlan(c, "agent", Proposing(rows))
            /\ job' = [job EXCEPT ![c].plan = Len(plans')]
      BY <1>1, <2>2 DEF Answer
    <3>2. QED
      BY <1>1, <3>1, AnswerPlanKeeps
  <2>3. QED
    BY <2>1, <2>2
<1>2. CASE Reserve(c)
  BY <1>2, ReserveTakenKeeps, ReserveRefusedKeeps
<1>3. CASE RequireGate(c) \/ Enter(c) \/ PlanningFails(c) \/ MoveTaskOn(c)
  BY <1>3, RequireGateKeeps, EnterKeeps, PlanningFailsKeeps, MoveTaskOnKeeps
<1>4. CASE Record(c) \/ Stop(c) \/ Fall(c) \/ Draft(c) \/ Settle(c)
  BY <1>4, RecordKeeps, StopKeeps, FallKeeps, DraftKeeps, SettleKeeps
<1>5. QED
  BY <1>1, <1>2, <1>3, <1>4 DEF RepairStep

\* A step that changes nothing keeps it.
LEMMA StutterKeeps ==
  ASSUME IInv, UNCHANGED vars
  PROVE  IInv'
<1>1. Quiet
  BY GatesUntouched, PlansUntouched
  DEF IInv, Shapes, Scalars, Quiet, CancelStays, CutStays, vars, stored, bounds
<1>2. QED
  BY <1>1, BackgroundKeeps DEF IInv, Shapes, Scalars, vars, stored, recovery, bounds

\* Every step keeps it.
LEMMA NextInv == IInv /\ [Next]_vars => IInv'
<1> SUFFICES ASSUME IInv, [Next]_vars PROVE IInv'
  OBVIOUS
<1>1. CASE Recover \/ ApplyNow \/ Crash \/ RequestRepair
  BY <1>1, RecoverKeeps, ApplyNowKeeps, CrashKeeps, RequestRepairKeeps
<1>2. CASE RecoveryStep
  BY <1>2, EvaluateKeeps, ApplyKeeps, ReadFailureKeeps, RetireKeeps, DecideKeeps, CloseFailedKeeps
  DEF RecoveryStep
<1>3. ASSUME NEW c \in Callers, RepairStep(c) \/ Abort(c) \/ StorageFails(c) PROVE IInv'
  BY <1>3, RepairStepKeeps, AbortKeeps, StorageFailsKeeps
<1>4. ASSUME NEW gate \in Outcomes, EvaluateNow(gate) PROVE IInv'
  BY <1>4, EvaluateNowKeeps
<1>5. ASSUME NEW p \in DOMAIN plans, PrepareRetry(p) PROVE IInv'
  BY <1>5, PrepareRetryKeeps
<1>6. ASSUME NEW p \in DOMAIN plans, NEW r \in Rows,
             \/ Approve(p, r) \/ Reject(p, r) \/ Claim(p, r)
             \/ Begin(p, r) \/ Succeed(p, r) \/ Fail(p, r)
      PROVE  IInv'
  BY <1>6, ApproveKeeps, RejectKeeps, ClaimKeeps, BeginKeeps, SucceedKeeps, FailKeeps
<1>7. ASSUME NEW status \in Moves, MoveTask(status) PROVE IInv'
  BY <1>7, MoveTaskKeeps
<1>8. CASE UNCHANGED vars
  BY <1>8, StutterKeeps
<1>9. QED
  BY <1>1, <1>2, <1>3, <1>4, <1>5, <1>6, <1>7, <1>8 DEF Next

\* The invariant holds in every reachable state.
THEOREM Invariant == Spec => []IInv
BY InitInv, NextInv, PTL DEF Spec

-----------------------------------------------------------------------------
(* What the run checks *)

\* An attempt nobody works for fits what became of it.
LEMMA TellsFromInv ==
  ASSUME IInv
  PROVE  AttemptsTellTheirPlan
<1>1. ASSUME NEW i \in DOMAIN attempts, ~Held(i)
      PROVE  /\ Fits(i)
             /\ attempts[i].status \in {"planned", "waiting_for_approval", "stopped"}
  <2>1. Fits(i)
    BY <1>1 DEF IInv, Fitting
  <2>2. attempts[i] \in AttemptRow
    BY DEF IInv, Shapes, Tables
  <2>3. QED
    BY <2>1, <2>2 DEF AttemptRow
<1>2. QED
  BY <1>1 DEF AttemptsTellTheirPlan, Fits, Answered

\* Whatever the gates come to, whoever asks, and however calls, evaluations, cancellations
\* of an invocation or the task, failures of the storage and crashes interleave: at most
\* MaxAttempts repairs are asked for, none for a failure that another was for, a plan belongs
\* to one attempt, and an attempt nobody works for tells what became of it, unless it was cut
\* off (reserve, createRepairPlan and its catch block).
THEOREM RepairsAreAccounted == Spec => []RepairInv
<1>1. ASSUME IInv PROVE TypeOK
  <2>1. /\ Tables /\ Calls /\ Scalars /\ Len(plans) \in 0..MaxPlans
    BY <1>1, PlanIds DEF IInv, Shapes
  <2>2. failed \in 0..MaxPlans
    BY <2>1, RepairAssumption DEF Scalars
  <2>3. pc \in [Callers -> PCs] /\ job \in [Callers -> Job]
    BY <2>1 DEF Calls
  <2>4. QED
    BY <2>1, <2>2, <2>3
    DEF TypeOK, Tables, Scalars, PlanRow, RowState, AttemptRow, Job, PCs, Ahead, Recovering,
        Planless, Answering, Falling
<1>2. IInv => RepairInv
  BY <1>1, TellsFromInv DEF IInv, RepairInv
<1>3. QED
  BY <1>2, Invariant, PTL

\* Nothing of a plan the host has replaced can start, for any plan and any interleaving of
\* its rejections with the user and the runner (recoverTaskValidationFailure).
THEOREM ReplacedStaysOver == Spec => []ReplacedIsOver
<1>1. IInv => ReplacedIsOver
  BY DEF IInv
<1>2. QED
  BY <1>1, Invariant, PTL
=============================================================================
