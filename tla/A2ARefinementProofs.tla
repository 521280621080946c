------------------------ MODULE A2ARefinementProofs ------------------------
(***************************************************************************)
(* What holds of refinements for any number of feedbacks and executions,   *)
(* any limits, moves and crashes.                                          *)
(***************************************************************************)
EXTENDS A2ARefinement, FiniteSetTheorems, TLAPS

-----------------------------------------------------------------------------
(* The inductive invariant *)

\* Every point an execution can be at; the turn of the event loop ends at the
\* first two only.
Resting == {"off", "waiting"}
PCs == Resting \cup {"begun", "moved", "prepared", "answered", "ended", "recorded",
                     "stepped", "consumed", "failing", "blocking"}

\* The points between the read of the approval and the call, and the points at
\* which an execution may still write its invocation.
Starting == {"begun", "moved", "prepared"}
Open == {"prepared", "waiting", "answered", "ended"}
Holding == {"waiting", "answered", "ended"}
Told == {"recorded", "stepped"}

Maps ==
  /\ pc \in [Executions -> PCs] /\ on \in [Executions -> Nat]
  /\ asked \in [Executions -> Nat] /\ answer \in [Executions -> Answers]

Shapes == Types /\ Maps /\ doubled \cup cut \subseteq Ids

\* One actor is in the middle of a turn.
OneTurn ==
  /\ \A e, f \in Executions : pc[e] \notin Resting /\ pc[f] \notin Resting => e = f
  /\ request # "none" => \A e \in Executions : pc[e] \in Resting

\* A request that goes on: its attempt has no approval yet.
RequestInv ==
  request = "created" => Len(attempts) > 0 /\ attempts[Len(attempts)].approval = "none"

\* What an execution knows where it is.
Knows(e) ==
  /\ pc[e] # "off" => on[e] \in Ids /\ attempts[on[e]].approval # "none"
  /\ pc[e] \in Open \cup Told =>
       asked[e] \in DOMAIN invocations /\ invocations[asked[e]].attempt = on[e]
  /\ pc[e] \in Starting =>
       attempts[on[e]].approval = "approved" /\ attempts[on[e]].step = "running"
  /\ pc[e] \in {"moved", "prepared"} => task = "running"
  /\ pc[e] = "prepared" => enabled
  /\ pc[e] = "ended" => invocations[asked[e]].answer = answer[e]
                          \/ invocations[asked[e]].status = "cancelled"
  /\ pc[e] \in {"ended"} \cup Told => invocations[asked[e]].status # "running"
  /\ pc[e] \in Told => answer[e] \in Results /\ attempts[on[e]].status = answer[e]
  /\ pc[e] = "waiting" => on[e] \in doubled \/ attempts[on[e]].step = "running"

\* Two executions share an attempt only as recorded, and never an invocation.
Pairs ==
  \A e, f \in Executions : e # f =>
    /\ pc[e] # "off" /\ pc[f] # "off" /\ on[e] = on[f] => on[e] \in doubled
    /\ pc[e] \in Open /\ pc[f] \in Open => asked[e] # asked[f]

\* One attempt per feedback is active.
OneActive ==
  \A i, j \in Ids : i # j /\ attempts[i].feedback = attempts[j].feedback =>
    attempts[i].status \notin Indexed \/ attempts[j].status \notin Indexed

\* The limits that requests count.
Counted ==
  /\ Len(attempts) <= MaxPerTask
  /\ \A feedback \in Feedbacks :
       Cardinality({i \in Ids : attempts[i].feedback = feedback}) <= MaxPerFeedback

\* Invocation v tells what attempt i says, and nobody will write it any more.
Tells(v, i) ==
  /\ invocations[v].attempt = i
  /\ \/ invocations[v].status = "cancelled"
     \/ /\ invocations[v].answer = attempts[i].status
        /\ \A e \in Executions : pc[e] \in Open => asked[e] # v

\* What an attempt says of its past.
Attested(i) ==
  /\ attempts[i].status \in Results => \E v \in DOMAIN invocations : Tells(v, i)
  /\ attempts[i].status = "running" =>
       i \in cut \/ \E e \in Executions : pc[e] \in Holding /\ on[e] = i

IInv ==
  /\ Shapes /\ OneTurn /\ RequestInv
  /\ \A e \in Executions : Knows(e)
  /\ Pairs /\ OneActive /\ Counted
  /\ \A i \in Ids : Attested(i)
  /\ ExecutedIsAnswered /\ DoneIsQuiet

-----------------------------------------------------------------------------
(* Writes of a row *)

\* A write keeps the rows, their number and their feedbacks.
SameRows ==
  /\ attempts' \in Seq(Attempt) /\ Len(attempts') = Len(attempts) /\ Ids' = Ids
  /\ \A j \in Ids : attempts'[j].feedback = attempts[j].feedback

\* The columns a write leaves alone, and the one it writes.
SameStatus == \A j \in Ids : attempts'[j].status = attempts[j].status
SameApproval == \A j \in Ids : attempts'[j].approval = attempts[j].approval
SameStep == \A j \in Ids : attempts'[j].step = attempts[j].step
NewStatus(i, x) == \A j \in Ids : attempts'[j].status = IF j = i THEN x ELSE attempts[j].status
NewApproval(i, x) == \A j \in Ids : attempts'[j].approval = IF j = i THEN x ELSE attempts[j].approval
NewStep(i, x) == \A j \in Ids : attempts'[j].step = IF j = i THEN x ELSE attempts[j].step

StatusWritten(i, x) == SameRows /\ NewStatus(i, x) /\ SameApproval /\ SameStep
ApprovalWritten(i, x) == SameRows /\ SameStatus /\ NewApproval(i, x) /\ SameStep
StepWritten(i, x) == SameRows /\ SameStatus /\ SameApproval /\ NewStep(i, x)
AttemptsKept == SameRows /\ SameStatus /\ SameApproval /\ SameStep

\* Identifiers are positions.
LEMMA Positions ==
  ASSUME Types
  PROVE  /\ Len(attempts) \in Nat /\ Ids = 1..Len(attempts)
         /\ Len(invocations) \in Nat /\ DOMAIN invocations = 1..Len(invocations)
BY DEF Types, Ids

\* What does not touch the attempts keeps them.
LEMMA Untouched ==
  ASSUME Types, attempts' = attempts
  PROVE  AttemptsKept
BY DEF Types, AttemptsKept, SameRows, SameStatus, SameApproval, SameStep, Ids

\* The counts stay while no row is added.
LEMMA CountedStays ==
  ASSUME Counted, SameRows
  PROVE  Counted'
<1>1. ASSUME NEW feedback \in Feedbacks
      PROVE  {i \in Ids : attempts[i].feedback = feedback}'
               = {i \in Ids : attempts[i].feedback = feedback}
  BY DEF SameRows
<1>2. QED
  BY <1>1 DEF Counted, SameRows

\* An attempt is a row of its table.
LEMMA RowType ==
  ASSUME Types, NEW i \in Ids
  PROVE  attempts[i] \in Attempt
BY DEF Types, Ids

\* Replacing one row of a sequence.
LEMMA RowReplaced ==
  ASSUME NEW S, NEW s \in Seq(S), NEW i \in DOMAIN s, NEW row \in S
  PROVE  LET t == [s EXCEPT ![i] = row] IN
         /\ t \in Seq(S) /\ Len(t) = Len(s) /\ DOMAIN t = DOMAIN s
         /\ t[i] = row /\ \A j \in DOMAIN s \ {i} : t[j] = s[j]
<1> DEFINE t == [s EXCEPT ![i] = row]
<1>1. DOMAIN s = 1..Len(s) /\ Len(s) \in Nat
  OBVIOUS
<1>2. t \in [1..Len(s) -> S]
  BY <1>1
<1>3. t \in Seq(S)
  BY <1>1, <1>2
<1>4. QED
  BY <1>1, <1>2, <1>3

\* A write of the status of one attempt.
LEMMA StatusWrite ==
  ASSUME Types, NEW i \in Ids, NEW status \in Indexed \cup {"succeeded", "failed", "stopped", "cancelled"},
         attempts' = [attempts EXCEPT ![i].status = status]
  PROVE  StatusWritten(i, status)
<1>1. attempts \in Seq(Attempt) /\ attempts[i] \in Attempt
  BY RowType DEF Types
<1>2. [attempts[i] EXCEPT !.status = status] \in Attempt
  BY <1>1 DEF Attempt
<1>3. attempts' = [attempts EXCEPT ![i] = [attempts[i] EXCEPT !.status = status]]
  OBVIOUS
<1>4. QED
  BY <1>1, <1>2, <1>3, RowReplaced
  DEF StatusWritten, SameRows, SameStatus, SameApproval, SameStep, NewStatus, Ids, Attempt

\* A write of the step of one attempt.
LEMMA StepWrite ==
  ASSUME Types, NEW i \in Ids, NEW step \in {"none", "pending", "running", "succeeded", "failed"},
         attempts' = [attempts EXCEPT ![i].step = step]
  PROVE  StepWritten(i, step)
<1>1. attempts \in Seq(Attempt) /\ attempts[i] \in Attempt
  BY RowType DEF Types
<1>2. [attempts[i] EXCEPT !.step = step] \in Attempt
  BY <1>1 DEF Attempt
<1>3. attempts' = [attempts EXCEPT ![i] = [attempts[i] EXCEPT !.step = step]]
  OBVIOUS
<1>4. QED
  BY <1>1, <1>2, <1>3, RowReplaced
  DEF StepWritten, SameRows, SameStatus, SameApproval, SameStep, NewStep, Ids, Attempt

\* A write of the approval of one attempt.
LEMMA ApprovalWrite ==
  ASSUME Types, NEW i \in Ids, NEW approval \in {"none", "pending", "approved", "rejected", "executed"},
         attempts' = [attempts EXCEPT ![i].approval = approval]
  PROVE  ApprovalWritten(i, approval)
<1>1. attempts \in Seq(Attempt) /\ attempts[i] \in Attempt
  BY RowType DEF Types
<1>2. [attempts[i] EXCEPT !.approval = approval] \in Attempt
  BY <1>1 DEF Attempt
<1>3. attempts' = [attempts EXCEPT ![i] = [attempts[i] EXCEPT !.approval = approval]]
  OBVIOUS
<1>4. QED
  BY <1>1, <1>2, <1>3, RowReplaced
  DEF ApprovalWritten, SameRows, SameStatus, SameApproval, SameStep, NewApproval, Ids, Attempt

\* No attempt becomes active by a write that leaves the statuses alone.
LEMMA OneActiveStays ==
  ASSUME OneActive, SameRows, SameStatus
  PROVE  OneActive'
BY DEF OneActive, SameRows, SameStatus

\* Nor by one that writes an inactive status, or one the index lets pass.
LEMMA OneActiveWritten ==
  ASSUME OneActive, NEW i \in Ids, NEW status, StatusWritten(i, status),
         status \in Indexed => ~Clashes(i, attempts[i].feedback)
  PROVE  OneActive'
BY DEF OneActive, StatusWritten, SameRows, NewStatus, Clashes

-----------------------------------------------------------------------------
(* Writes of an invocation *)

\* Rows of agent_invocations stay, a cancelled one for good, and one that ended
\* does not run again.
InvocationsStay ==
  /\ invocations' \in Seq(Invocation) /\ DOMAIN invocations \subseteq DOMAIN invocations'
  /\ \A v \in DOMAIN invocations :
       /\ invocations'[v].attempt = invocations[v].attempt
       /\ invocations[v].status = "cancelled" => invocations'[v].status = "cancelled"
       /\ invocations[v].status # "running" => invocations'[v].status # "running"

\* The answer of an invocation stays, unless it is cancelled.
AnswerStays(v) ==
  invocations'[v].answer = invocations[v].answer \/ invocations'[v].status = "cancelled"

\* What does not touch the invocations keeps them.
LEMMA InvocationsUntouched ==
  ASSUME Types, invocations' = invocations
  PROVE  InvocationsStay /\ \A v \in DOMAIN invocations : AnswerStays(v)
BY DEF Types, InvocationsStay, AnswerStays

\* A new invocation has a number of its own.
LEMMA InvocationAdded ==
  ASSUME Types, NEW row \in Invocation, invocations' = Append(invocations, row)
  PROVE  LET v == Len(invocations) + 1 IN
         /\ InvocationsStay /\ \A u \in DOMAIN invocations : AnswerStays(u)
         /\ v \in Nat /\ v \notin DOMAIN invocations /\ v \in DOMAIN invocations'
         /\ invocations'[v] = row
BY Positions DEF Types, InvocationsStay, AnswerStays

\* The UPDATE that ends an invocation touches no other.
LEMMA InvocationEnded ==
  ASSUME Types, NEW e \in Executions, asked[e] \in DOMAIN invocations,
         NEW status \in {"succeeded", "failed", "cancelled"}, answer[e] \in Answers,
         invocations' = Ended(e, status)
  PROVE  /\ InvocationsStay
         /\ \A v \in DOMAIN invocations \ {asked[e]} : AnswerStays(v)
         /\ invocations'[asked[e]].status # "running"
         /\ invocations'[asked[e]].answer = answer[e]
            \/ invocations'[asked[e]].status = "cancelled"
<1> DEFINE row == invocations[asked[e]]
<1>1. invocations \in Seq(Invocation) /\ row \in Invocation
  BY DEF Types
<1>2. CASE row.status = "cancelled"
  BY <1>1, <1>2 DEF Ended, InvocationsStay, AnswerStays
<1>3. CASE row.status # "cancelled"
  <2> DEFINE ended == [row EXCEPT !.status = status, !.answer = answer[e]]
  <2>1. /\ ended \in Invocation /\ ended.attempt = row.attempt
        /\ ended.status = status /\ ended.answer = answer[e]
    BY <1>1 DEF Invocation
  <2>2. invocations' = [invocations EXCEPT ![asked[e]] = ended]
    BY <1>1, <1>3 DEF Ended
  <2> HIDE DEF ended
  <2>3. /\ invocations' \in Seq(Invocation) /\ DOMAIN invocations' = DOMAIN invocations
        /\ invocations'[asked[e]] = ended
        /\ \A v \in DOMAIN invocations \ {asked[e]} : invocations'[v] = invocations[v]
    BY <1>1, <2>1, <2>2, RowReplaced
  <2>4. QED
    BY <1>3, <2>1, <2>3 DEF InvocationsStay, AnswerStays
<1>4. QED
  BY <1>2, <1>3

\* A cancellation leaves the answers of the rows it does not touch.
LEMMA InvocationCancelled ==
  ASSUME Types, NEW v \in DOMAIN invocations,
         invocations' = [invocations EXCEPT ![v].status = "cancelled"]
  PROVE  InvocationsStay /\ \A u \in DOMAIN invocations : AnswerStays(u)
<1> DEFINE row == [invocations[v] EXCEPT !.status = "cancelled"]
<1>1. invocations \in Seq(Invocation) /\ invocations[v] \in Invocation
  BY DEF Types
<1>2. row \in Invocation /\ row.attempt = invocations[v].attempt /\ row.status = "cancelled"
  BY <1>1 DEF Invocation
<1>3. invocations' = [invocations EXCEPT ![v] = row]
  OBVIOUS
<1> HIDE DEF row
<1>4. /\ invocations' \in Seq(Invocation) /\ DOMAIN invocations' = DOMAIN invocations
      /\ invocations'[v] = row
      /\ \A u \in DOMAIN invocations \ {v} : invocations'[u] = invocations[u]
  BY <1>1, <1>2, <1>3, RowReplaced
<1>5. QED
  BY <1>2, <1>4 DEF InvocationsStay, AnswerStays

\* The same for all that run.
LEMMA InvocationsCancelled ==
  ASSUME Types,
         invocations' = [v \in DOMAIN invocations |->
           IF invocations[v].status = "running"
           THEN [invocations[v] EXCEPT !.status = "cancelled"] ELSE invocations[v]]
  PROVE  InvocationsStay /\ \A u \in DOMAIN invocations : AnswerStays(u)
<1>1. ASSUME NEW v \in DOMAIN invocations
      PROVE  /\ invocations'[v] \in Invocation
             /\ invocations'[v].attempt = invocations[v].attempt
             /\ invocations'[v] = invocations[v] \/ invocations'[v].status = "cancelled"
  <2>1. invocations[v] \in Invocation
    BY DEF Types
  <2>2. QED
    BY <2>1 DEF Invocation
<1>2. invocations' \in [1..Len(invocations) -> Invocation] /\ Len(invocations) \in Nat
  BY <1>1, Positions
<1>3. invocations' \in Seq(Invocation) /\ DOMAIN invocations' = DOMAIN invocations
  BY <1>2, Positions
<1>4. QED
  BY <1>1, <1>3 DEF InvocationsStay, AnswerStays

-----------------------------------------------------------------------------
(* What others know across a step *)

\* No approval disappears, and no row.
RowsStay ==
  /\ Ids \subseteq Ids'
  /\ \A j \in Ids : attempts[j].approval # "none" => attempts'[j].approval # "none"

\* An execution that rests knows what it knew.
LEMMA KnowsStays ==
  ASSUME NEW f \in Executions, Knows(f), pc[f] \in Resting,
         pc'[f] = pc[f], on'[f] = on[f], asked'[f] = asked[f],
         RowsStay, InvocationsStay, doubled \subseteq doubled',
         pc[f] = "waiting" /\ on[f] \in Ids => on[f] \in doubled' \/ attempts'[on[f]].step = attempts[on[f]].step
  PROVE  Knows(f)'
BY DEF Knows, Resting, Starting, Open, Told, RowsStay, InvocationsStay

\* An invocation that tells goes on telling, unless an execution that wrote it anew
\* were still at it.
LEMMA TellsStays ==
  ASSUME NEW i \in Ids, NEW v \in DOMAIN invocations, Tells(v, i),
         attempts'[i].status = attempts[i].status, InvocationsStay,
         AnswerStays(v) \/ \E e \in Executions : pc[e] \in Open /\ asked[e] = v,
         \A e \in Executions : pc'[e] \in Open /\ asked'[e] = v => pc[e] \in Open /\ asked[e] = v
  PROVE  v \in DOMAIN invocations' /\ Tells(v, i)'
BY DEF Tells, InvocationsStay, AnswerStays

\* An attempt goes on being backed and held.
LEMMA AttestedStays ==
  ASSUME NEW i \in Ids, Attested(i), attempts'[i].status = attempts[i].status,
         InvocationsStay, cut \subseteq cut',
         \A v \in DOMAIN invocations :
           AnswerStays(v) \/ \E e \in Executions : pc[e] \in Open /\ asked[e] = v,
         \A v \in DOMAIN invocations : \A e \in Executions :
           pc'[e] \in Open /\ asked'[e] = v => pc[e] \in Open /\ asked[e] = v,
         attempts[i].status = "running" => \A e \in Executions :
           pc[e] \in Holding /\ on[e] = i => pc'[e] \in Holding /\ on'[e] = i
  PROVE  Attested(i)'
<1>1. ASSUME attempts[i].status \in Results
      PROVE  \E v \in DOMAIN invocations' : Tells(v, i)'
  BY <1>1, TellsStays DEF Attested
<1>2. ASSUME attempts[i].status = "running"
      PROVE  i \in cut' \/ \E e \in Executions : pc'[e] \in Holding /\ on'[e] = i
  BY <1>2 DEF Attested
<1>3. QED
  BY <1>1, <1>2 DEF Attested

\* An approval that was used up stays backed.
LEMMA ExecutedStays ==
  ASSUME ExecutedIsAnswered, Ids' = Ids, InvocationsStay,
         \A i \in Ids : attempts'[i].approval = "executed" =>
           /\ attempts[i].approval = "executed"
           /\ attempts'[i].status = attempts[i].status
              \/ attempts'[i].status \notin {"pending_approval", "running"}
  PROVE  ExecutedIsAnswered'
BY DEF ExecutedIsAnswered, InvocationsStay

-----------------------------------------------------------------------------
(* Executions keep the invariant *)

\* An approved attempt is begun; a second execution at it is recorded.
LEMMA BeginKeeps ==
  ASSUME IInv, NEW e \in Executions, NEW k \in Ids, Begin(e, k)
  PROVE  IInv'
<1>1. StepWritten(k, "running")
  BY StepWrite DEF IInv, Shapes, Begin
<1>2. InvocationsStay /\ \A v \in DOMAIN invocations : AnswerStays(v)
  BY InvocationsUntouched DEF IInv, Shapes, Begin
<1>3. /\ attempts[k].approval = "approved" /\ pc[e] = "off" /\ pc' = [pc EXCEPT ![e] = "begun"]
      /\ request = "none" /\ \A f \in Executions : pc[f] \in Resting
      /\ on' = [on EXCEPT ![e] = k] /\ asked' = [asked EXCEPT ![e] = 0]
      /\ doubled \subseteq doubled' /\ doubled' \subseteq doubled \cup {k}
      /\ \A f \in Executions \ {e} : pc[f] # "off" /\ on[f] = k => k \in doubled'
      /\ begun' = begun + 1 /\ answer' = [answer EXCEPT ![e] = "failed"]
      /\ UNCHANGED <<task, enabled, request, cut, moves, crashes>>
  BY DEF Begin, At, Goto, history, bounds, Yields, Company, Resting
<1>4. /\ \A f \in Executions \ {e} : pc[f] \in Resting
      /\ Knows(e)
  BY <1>3 DEF IInv, OneTurn, Resting
<1>5. Shapes'
  <2>1. k \in Nat
    BY Positions DEF IInv, Shapes
  <2>2. Maps'
    BY <1>3, <2>1 DEF IInv, Shapes, Maps, PCs, Answers
  <2>3. Types'
    BY <1>1, <1>2, <1>3, <2>2 DEF IInv, Shapes, Types, Maps, StepWritten, SameRows, InvocationsStay
  <2>4. doubled' \cup cut' \subseteq Ids'
    BY <1>1, <1>3, Positions DEF IInv, Shapes, StepWritten, SameRows, Ids
  <2> QED
    BY <2>2, <2>3, <2>4 DEF Shapes
<1>6. OneTurn' /\ RequestInv'
  BY <1>1, <1>2, <1>3, <1>4 DEF IInv, Shapes, Maps, OneTurn, RequestInv, Resting, StepWritten, SameRows, SameStatus, SameApproval, NewStep
<1>7. Pairs'
  BY <1>1, <1>2, <1>3, <1>4 DEF IInv, Shapes, Maps, Knows, Pairs, Open
<1>8. ASSUME NEW f \in Executions PROVE Knows(f)'
  <2>1. CASE f = e
    BY <1>1, <1>2, <1>3, <1>4, <2>1 DEF IInv, Shapes, Maps, Knows, Open, Told, Starting, Resting, InvocationsStay, StepWritten, SameRows, SameStatus, SameApproval, NewStep
  <2>2. CASE f # e
    BY <1>1, <1>2, <1>3, <1>4, <2>2, KnowsStays DEF IInv, Shapes, Maps, RowsStay, StepWritten, SameRows, SameStatus, SameApproval, NewStep
  <2>3. QED
    BY <2>1, <2>2
<1>9. OneActive' /\ Counted'
  BY <1>1, OneActiveStays, CountedStays DEF IInv, StepWritten
<1>10. ASSUME NEW i \in Ids' PROVE Attested(i)'
  BY <1>1, <1>2, <1>3, <1>4, AttestedStays DEF IInv, Shapes, Maps, Holding, Open, StepWritten, SameRows, SameStatus, SameApproval, NewStep
<1>11. ExecutedIsAnswered'
  BY <1>1, <1>2, ExecutedStays DEF IInv, StepWritten, SameRows, SameStatus, SameApproval, NewStep
<1>12. DoneIsQuiet'
  BY <1>1, <1>2, <1>3, <1>4 DEF IInv, Shapes, Maps, DoneIsQuiet, At
<1>13. QED
  BY <1>5, <1>6, <1>7, <1>8, <1>9, <1>10, <1>11, <1>12 DEF IInv

\* The refusal of the status write leaves the step running.
LEMMA MoveToRunningKeeps ==
  ASSUME IInv, NEW e \in Executions, MoveToRunning(e)
  PROVE  IInv'
<1>1. AttemptsKept
  BY Untouched DEF IInv, Shapes, MoveToRunning
<1>2. InvocationsStay /\ \A v \in DOMAIN invocations : AnswerStays(v)
  BY InvocationsUntouched DEF IInv, Shapes, MoveToRunning
<1>3. /\ pc[e] = "begun"
      /\ \/ pc' = [pc EXCEPT ![e] = "moved"] /\ task' = "running"
         \/ pc' = [pc EXCEPT ![e] = "off"] /\ task' = task
      /\ UNCHANGED <<enabled, request, on, asked, answer, doubled, cut, begun, moves, crashes>>
  BY DEF MoveToRunning, At, Goto, history, bounds
<1>4. /\ \A f \in Executions \ {e} : pc[f] \in Resting
      /\ Knows(e)
  BY <1>3 DEF IInv, OneTurn, Resting
<1>5. Shapes'
  BY <1>1, <1>2, <1>3, <1>4 DEF IInv, Shapes, Types, Maps, PCs, Resting, AttemptsKept, SameRows, InvocationsStay, TaskStatus
<1>6. OneTurn' /\ RequestInv'
  BY <1>1, <1>2, <1>3, <1>4 DEF IInv, Shapes, Maps, OneTurn, RequestInv, Resting, AttemptsKept, SameRows, SameStatus, SameApproval, SameStep
<1>7. Pairs'
  BY <1>1, <1>2, <1>3, <1>4 DEF IInv, Shapes, Maps, Knows, Pairs, Open
<1>8. ASSUME NEW f \in Executions PROVE Knows(f)'
  <2>1. CASE f = e
    BY <1>1, <1>2, <1>3, <1>4, <2>1 DEF IInv, Shapes, Maps, Knows, Open, Told, Starting, Resting, InvocationsStay, AttemptsKept, SameRows, SameStatus, SameApproval, SameStep
  <2>2. CASE f # e
    BY <1>1, <1>2, <1>3, <1>4, <2>2, KnowsStays DEF IInv, Shapes, Maps, RowsStay, AttemptsKept, SameRows, SameStatus, SameApproval, SameStep
  <2>3. QED
    BY <2>1, <2>2
<1>9. OneActive' /\ Counted'
  BY <1>1, OneActiveStays, CountedStays DEF IInv, AttemptsKept
<1>10. ASSUME NEW i \in Ids' PROVE Attested(i)'
  BY <1>1, <1>2, <1>3, <1>4, AttestedStays DEF IInv, Shapes, Maps, Holding, Open, AttemptsKept, SameRows, SameStatus, SameApproval, SameStep
<1>11. ExecutedIsAnswered'
  BY <1>1, <1>2, ExecutedStays DEF IInv, AttemptsKept, SameRows, SameStatus, SameApproval, SameStep
<1>12. DoneIsQuiet'
  BY <1>1, <1>2, <1>3, <1>4 DEF IInv, Shapes, Maps, DoneIsQuiet, At
<1>13. QED
  BY <1>5, <1>6, <1>7, <1>8, <1>9, <1>10, <1>11, <1>12 DEF IInv

\* A running invocation is created.
LEMMA PrepareCallKeeps ==
  ASSUME IInv, NEW e \in Executions, Prepare(e), enabled
  PROVE  IInv'
<1>1. AttemptsKept
  BY Untouched DEF IInv, Shapes, Prepare
<1>2. /\ InvocationsStay /\ \A v \in DOMAIN invocations : AnswerStays(v)
      /\ Len(invocations) + 1 \in Nat
      /\ Len(invocations) + 1 \in DOMAIN invocations' \ DOMAIN invocations
      /\ invocations'[Len(invocations) + 1] = [attempt |-> on[e], status |-> "running", answer |-> "none"]
  <2>1. [attempt |-> on[e], status |-> "running", answer |-> "none"] \in Invocation
    BY Positions DEF IInv, Shapes, Maps, Prepare, At, Knows, Invocation
  <2>2. QED
    BY <2>1, InvocationAdded DEF IInv, Shapes, Prepare
<1>3. /\ pc[e] = "moved" /\ pc' = [pc EXCEPT ![e] = "prepared"]
      /\ asked' = [asked EXCEPT ![e] = Len(invocations) + 1]
      /\ UNCHANGED <<task, enabled, request, on, answer, doubled, cut, begun, moves, crashes>>
  BY DEF Prepare, At, Goto, history, bounds
<1>4. /\ \A f \in Executions \ {e} : pc[f] \in Resting
      /\ Knows(e)
  BY <1>3 DEF IInv, OneTurn, Resting
<1>5. Shapes'
  BY <1>1, <1>2, <1>3, <1>4 DEF IInv, Shapes, Types, Maps, PCs, Resting, AttemptsKept, SameRows, InvocationsStay
<1>6. OneTurn' /\ RequestInv'
  BY <1>1, <1>2, <1>3, <1>4 DEF IInv, Shapes, Maps, OneTurn, RequestInv, Resting, AttemptsKept, SameRows, SameStatus, SameApproval, SameStep
<1>7. Pairs'
  BY <1>1, <1>2, <1>3, <1>4 DEF IInv, Shapes, Maps, Knows, Pairs, Open
<1>8. ASSUME NEW f \in Executions PROVE Knows(f)'
  <2>1. CASE f = e
    BY <1>1, <1>2, <1>3, <1>4, <2>1 DEF IInv, Shapes, Maps, Knows, Open, Told, Starting, Resting, InvocationsStay, AttemptsKept, SameRows, SameStatus, SameApproval, SameStep
  <2>2. CASE f # e
    BY <1>1, <1>2, <1>3, <1>4, <2>2, KnowsStays DEF IInv, Shapes, Maps, RowsStay, AttemptsKept, SameRows, SameStatus, SameApproval, SameStep
  <2>3. QED
    BY <2>1, <2>2
<1>9. OneActive' /\ Counted'
  BY <1>1, OneActiveStays, CountedStays DEF IInv, AttemptsKept
<1>10. ASSUME NEW i \in Ids' PROVE Attested(i)'
  BY <1>1, <1>2, <1>3, <1>4, AttestedStays DEF IInv, Shapes, Maps, Holding, Open, AttemptsKept, SameRows, SameStatus, SameApproval, SameStep
<1>11. ExecutedIsAnswered'
  BY <1>1, <1>2, ExecutedStays DEF IInv, AttemptsKept, SameRows, SameStatus, SameApproval, SameStep
<1>12. DoneIsQuiet'
  BY <1>1, <1>2, <1>3, <1>4 DEF IInv, Shapes, Maps, DoneIsQuiet, At
<1>13. QED
  BY <1>5, <1>6, <1>7, <1>8, <1>9, <1>10, <1>11, <1>12 DEF IInv

\* An endpoint that is not available stops the attempt.
LEMMA PrepareStopKeeps ==
  ASSUME IInv, NEW e \in Executions, Prepare(e), ~enabled
  PROVE  IInv'
<1>1. StatusWritten(on[e], "stopped")
  BY StatusWrite DEF IInv, Shapes, Prepare, At, Knows, WithStatus
<1>2. InvocationsStay /\ \A v \in DOMAIN invocations : AnswerStays(v)
  BY InvocationsUntouched DEF IInv, Shapes, Prepare
<1>3. /\ pc[e] = "moved" /\ pc' = [pc EXCEPT ![e] = "failing"]
      /\ UNCHANGED <<task, enabled, request, on, asked, answer, doubled, cut, begun, moves, crashes>>
  BY DEF Prepare, At, Goto, history, bounds
<1>4. /\ \A f \in Executions \ {e} : pc[f] \in Resting
      /\ Knows(e)
  BY <1>3 DEF IInv, OneTurn, Resting
<1>5. Shapes'
  BY <1>1, <1>2, <1>3, <1>4 DEF IInv, Shapes, Types, Maps, PCs, Resting, StatusWritten, SameRows, InvocationsStay
<1>6. OneTurn' /\ RequestInv'
  BY <1>1, <1>2, <1>3, <1>4 DEF IInv, Shapes, Maps, OneTurn, RequestInv, Resting, StatusWritten, SameRows, NewStatus, SameApproval, SameStep
<1>7. Pairs'
  BY <1>1, <1>2, <1>3, <1>4 DEF IInv, Shapes, Maps, Knows, Pairs, Open
<1>8. ASSUME NEW f \in Executions PROVE Knows(f)'
  <2>1. CASE f = e
    BY <1>1, <1>2, <1>3, <1>4, <2>1 DEF IInv, Shapes, Maps, Knows, Open, Told, Starting, Resting, InvocationsStay, StatusWritten, SameRows, NewStatus, SameApproval, SameStep
  <2>2. CASE f # e
    BY <1>1, <1>2, <1>3, <1>4, <2>2, KnowsStays DEF IInv, Shapes, Maps, RowsStay, StatusWritten, SameRows, NewStatus, SameApproval, SameStep
  <2>3. QED
    BY <2>1, <2>2
<1>9. OneActive' /\ Counted'
  BY <1>1, <1>4, <1>3, OneActiveWritten, CountedStays DEF IInv, StatusWritten, Indexed, Knows
<1>10. ASSUME NEW i \in Ids' PROVE Attested(i)'
  <2>1. CASE i = on[e]
    BY <1>1, <1>2, <1>3, <1>4, <2>1 DEF IInv, Knows, Attested, StatusWritten, SameRows, NewStatus, Results
  <2>2. CASE i # on[e]
    BY <1>1, <1>2, <1>3, <1>4, <2>2, AttestedStays
    DEF IInv, Shapes, Maps, Holding, Open, StatusWritten, SameRows, NewStatus
  <2>3. QED
    BY <2>1, <2>2
<1>11. ExecutedIsAnswered'
  BY <1>1, <1>2, ExecutedStays DEF IInv, StatusWritten, SameRows, NewStatus, SameApproval, SameStep
<1>12. DoneIsQuiet'
  BY <1>1, <1>2, <1>3, <1>4 DEF IInv, Shapes, Maps, DoneIsQuiet, At
<1>13. QED
  BY <1>5, <1>6, <1>7, <1>8, <1>9, <1>10, <1>11, <1>12 DEF IInv

\* The index lets the attempt run.
LEMMA SendAskedKeeps ==
  ASSUME IInv, NEW e \in Executions, Send(e), ~Clashes(on[e], attempts[on[e]].feedback)
  PROVE  IInv'
<1>1. StatusWritten(on[e], "running")
  BY StatusWrite DEF IInv, Shapes, Send, At, Knows, WithStatus, Indexed
<1>2. InvocationsStay /\ \A v \in DOMAIN invocations : AnswerStays(v)
  BY InvocationsUntouched DEF IInv, Shapes, Send
<1>3. /\ pc[e] = "prepared" /\ pc' = [pc EXCEPT ![e] = "waiting"]
      /\ UNCHANGED <<task, enabled, request, on, asked, answer, doubled, cut, begun, moves, crashes>>
  BY DEF Send, At, Goto, history, bounds
<1>4. /\ \A f \in Executions \ {e} : pc[f] \in Resting
      /\ Knows(e)
  BY <1>3 DEF IInv, OneTurn, Resting
<1>5. Shapes'
  BY <1>1, <1>2, <1>3, <1>4 DEF IInv, Shapes, Types, Maps, PCs, Resting, StatusWritten, SameRows, InvocationsStay
<1>6. OneTurn' /\ RequestInv'
  BY <1>1, <1>2, <1>3, <1>4 DEF IInv, Shapes, Maps, OneTurn, RequestInv, Resting, StatusWritten, SameRows, NewStatus, SameApproval, SameStep
<1>7. Pairs'
  BY <1>1, <1>2, <1>3, <1>4 DEF IInv, Shapes, Maps, Knows, Pairs, Open
<1>8. ASSUME NEW f \in Executions PROVE Knows(f)'
  <2>1. CASE f = e
    BY <1>1, <1>2, <1>3, <1>4, <2>1 DEF IInv, Shapes, Maps, Knows, Open, Told, Starting, Resting, InvocationsStay, StatusWritten, SameRows, NewStatus, SameApproval, SameStep
  <2>2. CASE f # e
    BY <1>1, <1>2, <1>3, <1>4, <2>2, KnowsStays DEF IInv, Shapes, Maps, RowsStay, StatusWritten, SameRows, NewStatus, SameApproval, SameStep
  <2>3. QED
    BY <2>1, <2>2
<1>9. OneActive' /\ Counted'
  BY <1>1, <1>4, <1>3, OneActiveWritten, CountedStays DEF IInv, StatusWritten, Indexed, Knows
<1>10. ASSUME NEW i \in Ids' PROVE Attested(i)'
  <2>1. CASE i = on[e]
    BY <1>1, <1>2, <1>3, <1>4, <2>1 DEF IInv, Shapes, Maps, Knows, SameRows, Attested, StatusWritten, NewStatus, Results, Holding
  <2>2. CASE i # on[e]
    BY <1>1, <1>2, <1>3, <1>4, <2>2, AttestedStays
    DEF IInv, Shapes, Maps, Holding, Open, StatusWritten, SameRows, NewStatus
  <2>3. QED
    BY <2>1, <2>2
<1>11. ExecutedIsAnswered'
  BY <1>1, <1>2, <1>3, <1>4, ExecutedStays DEF IInv, Knows, Starting, StatusWritten, SameRows, NewStatus, SameApproval
<1>12. DoneIsQuiet'
  BY <1>1, <1>2, <1>3, <1>4 DEF IInv, Shapes, Maps, DoneIsQuiet, At, Knows
<1>13. QED
  BY <1>5, <1>6, <1>7, <1>8, <1>9, <1>10, <1>11, <1>12 DEF IInv

\* The index refuses it.
LEMMA SendRefusedKeeps ==
  ASSUME IInv, NEW e \in Executions, Send(e), Clashes(on[e], attempts[on[e]].feedback)
  PROVE  IInv'
<1>1. AttemptsKept
  BY Untouched DEF IInv, Shapes, Send
<1>2. InvocationsStay /\ \A v \in DOMAIN invocations : AnswerStays(v)
  BY InvocationsUntouched DEF IInv, Shapes, Send
<1>3. /\ pc[e] = "prepared" /\ pc' = [pc EXCEPT ![e] = "failing"]
      /\ UNCHANGED <<task, enabled, request, on, asked, answer, doubled, cut, begun, moves, crashes>>
  BY DEF Send, At, Goto, history, bounds
<1>4. /\ \A f \in Executions \ {e} : pc[f] \in Resting
      /\ Knows(e)
  BY <1>3 DEF IInv, OneTurn, Resting
<1>5. Shapes'
  BY <1>1, <1>2, <1>3, <1>4 DEF IInv, Shapes, Types, Maps, PCs, Resting, AttemptsKept, SameRows, InvocationsStay
<1>6. OneTurn' /\ RequestInv'
  BY <1>1, <1>2, <1>3, <1>4 DEF IInv, Shapes, Maps, OneTurn, RequestInv, Resting, AttemptsKept, SameRows, SameStatus, SameApproval, SameStep
<1>7. Pairs'
  BY <1>1, <1>2, <1>3, <1>4 DEF IInv, Shapes, Maps, Knows, Pairs, Open
<1>8. ASSUME NEW f \in Executions PROVE Knows(f)'
  <2>1. CASE f = e
    BY <1>1, <1>2, <1>3, <1>4, <2>1 DEF IInv, Shapes, Maps, Knows, Open, Told, Starting, Resting, InvocationsStay, AttemptsKept, SameRows, SameStatus, SameApproval, SameStep
  <2>2. CASE f # e
    BY <1>1, <1>2, <1>3, <1>4, <2>2, KnowsStays DEF IInv, Shapes, Maps, RowsStay, AttemptsKept, SameRows, SameStatus, SameApproval, SameStep
  <2>3. QED
    BY <2>1, <2>2
<1>9. OneActive' /\ Counted'
  BY <1>1, OneActiveStays, CountedStays DEF IInv, AttemptsKept
<1>10. ASSUME NEW i \in Ids' PROVE Attested(i)'
  BY <1>1, <1>2, <1>3, <1>4, AttestedStays DEF IInv, Shapes, Maps, Holding, Open, AttemptsKept, SameRows, SameStatus, SameApproval, SameStep
<1>11. ExecutedIsAnswered'
  BY <1>1, <1>2, ExecutedStays DEF IInv, AttemptsKept, SameRows, SameStatus, SameApproval, SameStep
<1>12. DoneIsQuiet'
  BY <1>1, <1>2, <1>3, <1>4 DEF IInv, Shapes, Maps, DoneIsQuiet, At
<1>13. QED
  BY <1>5, <1>6, <1>7, <1>8, <1>9, <1>10, <1>11, <1>12 DEF IInv

\* The remote agent answers.
LEMMA HearKeeps ==
  ASSUME IInv, NEW e \in Executions, NEW heard \in Answers, Hear(e, heard)
  PROVE  IInv'
<1>1. AttemptsKept
  BY Untouched DEF IInv, Shapes, Hear
<1>2. InvocationsStay /\ \A v \in DOMAIN invocations : AnswerStays(v)
  BY InvocationsUntouched DEF IInv, Shapes, Hear
<1>3. /\ pc[e] = "waiting" /\ pc' = [pc EXCEPT ![e] = "answered"]
      /\ request = "none" /\ \A f \in Executions : pc[f] \in Resting
      /\ answer' = [answer EXCEPT ![e] = heard]
      /\ UNCHANGED <<task, enabled, request, on, asked, doubled, cut, begun, moves, crashes>>
  BY DEF Hear, At, Goto, history, bounds, Yields, Resting
<1>4. /\ \A f \in Executions \ {e} : pc[f] \in Resting
      /\ Knows(e)
  BY <1>3 DEF IInv, OneTurn, Resting
<1>5. Shapes'
  BY <1>1, <1>2, <1>3, <1>4 DEF IInv, Shapes, Types, Maps, PCs, Resting, AttemptsKept, SameRows, InvocationsStay
<1>6. OneTurn' /\ RequestInv'
  BY <1>1, <1>2, <1>3, <1>4 DEF IInv, Shapes, Maps, OneTurn, RequestInv, Resting, AttemptsKept, SameRows, SameStatus, SameApproval, SameStep
<1>7. Pairs'
  BY <1>1, <1>2, <1>3, <1>4 DEF IInv, Shapes, Maps, Knows, Pairs, Open
<1>8. ASSUME NEW f \in Executions PROVE Knows(f)'
  <2>1. CASE f = e
    BY <1>1, <1>2, <1>3, <1>4, <2>1 DEF IInv, Shapes, Maps, Knows, Open, Told, Starting, Resting, InvocationsStay, AttemptsKept, SameRows, SameStatus, SameApproval, SameStep
  <2>2. CASE f # e
    BY <1>1, <1>2, <1>3, <1>4, <2>2, KnowsStays DEF IInv, Shapes, Maps, RowsStay, AttemptsKept, SameRows, SameStatus, SameApproval, SameStep
  <2>3. QED
    BY <2>1, <2>2
<1>9. OneActive' /\ Counted'
  BY <1>1, OneActiveStays, CountedStays DEF IInv, AttemptsKept
<1>10. ASSUME NEW i \in Ids' PROVE Attested(i)'
  BY <1>1, <1>2, <1>3, <1>4, AttestedStays DEF IInv, Shapes, Maps, Holding, Open, AttemptsKept, SameRows, SameStatus, SameApproval, SameStep
<1>11. ExecutedIsAnswered'
  BY <1>1, <1>2, ExecutedStays DEF IInv, AttemptsKept, SameRows, SameStatus, SameApproval, SameStep
<1>12. DoneIsQuiet'
  BY <1>1, <1>2, <1>3, <1>4 DEF IInv, Shapes, Maps, DoneIsQuiet, At
<1>13. QED
  BY <1>5, <1>6, <1>7, <1>8, <1>9, <1>10, <1>11, <1>12 DEF IInv

\* The invocation ends before the attempt does.
LEMMA EndInvocationKeeps ==
  ASSUME IInv, NEW e \in Executions, EndInvocation(e)
  PROVE  IInv'
<1>1. AttemptsKept
  BY Untouched DEF IInv, Shapes, EndInvocation
<1>2. /\ InvocationsStay
      /\ \A v \in DOMAIN invocations \ {asked[e]} : AnswerStays(v)
      /\ invocations'[asked[e]].status # "running"
      /\ invocations'[asked[e]].answer = answer[e] \/ invocations'[asked[e]].status = "cancelled"
  BY InvocationEnded DEF IInv, Shapes, Maps, EndInvocation, At, Knows, Open
<1>3. /\ pc[e] = "answered" /\ pc' = [pc EXCEPT ![e] = "ended"]
      /\ asked[e] \in DOMAIN invocations
      /\ UNCHANGED <<task, enabled, request, on, asked, answer, doubled, cut, begun, moves, crashes>>
  BY DEF EndInvocation, At, Goto, history, bounds, IInv, Knows, Open
<1>4. /\ \A f \in Executions \ {e} : pc[f] \in Resting
      /\ Knows(e)
  BY <1>3 DEF IInv, OneTurn, Resting
<1>5. Shapes'
  BY <1>1, <1>2, <1>3, <1>4 DEF IInv, Shapes, Types, Maps, PCs, Resting, AttemptsKept, SameRows, InvocationsStay
<1>6. OneTurn' /\ RequestInv'
  BY <1>1, <1>2, <1>3, <1>4 DEF IInv, Shapes, Maps, OneTurn, RequestInv, Resting, AttemptsKept, SameRows, SameStatus, SameApproval, SameStep
<1>7. Pairs'
  BY <1>1, <1>2, <1>3, <1>4 DEF IInv, Shapes, Maps, Knows, Pairs, Open
<1>8. ASSUME NEW f \in Executions PROVE Knows(f)'
  <2>1. CASE f = e
    BY <1>1, <1>2, <1>3, <1>4, <2>1 DEF IInv, Shapes, Maps, Knows, Open, Told, Starting, Resting, InvocationsStay, AttemptsKept, SameRows, SameStatus, SameApproval, SameStep
  <2>2. CASE f # e
    BY <1>1, <1>2, <1>3, <1>4, <2>2, KnowsStays DEF IInv, Shapes, Maps, RowsStay, AttemptsKept, SameRows, SameStatus, SameApproval, SameStep
  <2>3. QED
    BY <2>1, <2>2
<1>9. OneActive' /\ Counted'
  BY <1>1, OneActiveStays, CountedStays DEF IInv, AttemptsKept
<1>10. ASSUME NEW i \in Ids' PROVE Attested(i)'
  BY <1>1, <1>2, <1>3, <1>4, AttestedStays DEF IInv, Shapes, Maps, Holding, Open, AttemptsKept, SameRows, SameStatus, SameApproval, SameStep
<1>11. ExecutedIsAnswered'
  BY <1>1, <1>2, ExecutedStays DEF IInv, AttemptsKept, SameRows, SameStatus, SameApproval, SameStep
<1>12. DoneIsQuiet'
  BY <1>1, <1>2, <1>3, <1>4 DEF IInv, Shapes, Maps, DoneIsQuiet, At
<1>13. QED
  BY <1>5, <1>6, <1>7, <1>8, <1>9, <1>10, <1>11, <1>12 DEF IInv

\* A result that the index refuses becomes a failure.
LEMMA RecordRefusedKeeps ==
  ASSUME IInv, NEW e \in Executions, Record(e), answer[e] \in Indexed /\ Clashes(on[e], attempts[on[e]].feedback)
  PROVE  IInv'
<1>1. AttemptsKept
  BY Untouched DEF IInv, Shapes, Record
<1>2. InvocationsStay /\ \A v \in DOMAIN invocations : AnswerStays(v)
  BY InvocationsUntouched DEF IInv, Shapes, Record
<1>3. /\ pc[e] = "ended" /\ pc' = [pc EXCEPT ![e] = "answered"]
      /\ answer' = [answer EXCEPT ![e] = "failed"]
      /\ UNCHANGED <<task, enabled, request, on, asked, doubled, cut, begun, moves, crashes>>
  BY DEF Record, At, Goto, history, bounds
<1>4. /\ \A f \in Executions \ {e} : pc[f] \in Resting
      /\ Knows(e)
  BY <1>3 DEF IInv, OneTurn, Resting
<1>5. Shapes'
  BY <1>1, <1>2, <1>3, <1>4 DEF IInv, Shapes, Types, Maps, PCs, Resting, AttemptsKept, SameRows, InvocationsStay, Answers
<1>6. OneTurn' /\ RequestInv'
  BY <1>1, <1>2, <1>3, <1>4 DEF IInv, Shapes, Maps, OneTurn, RequestInv, Resting, AttemptsKept, SameRows, SameStatus, SameApproval, SameStep
<1>7. Pairs'
  BY <1>1, <1>2, <1>3, <1>4 DEF IInv, Shapes, Maps, Knows, Pairs, Open
<1>8. ASSUME NEW f \in Executions PROVE Knows(f)'
  <2>1. CASE f = e
    BY <1>1, <1>2, <1>3, <1>4, <2>1 DEF IInv, Shapes, Maps, Knows, Open, Told, Starting, Resting, InvocationsStay, AttemptsKept, SameRows, SameStatus, SameApproval, SameStep
  <2>2. CASE f # e
    BY <1>1, <1>2, <1>3, <1>4, <2>2, KnowsStays DEF IInv, Shapes, Maps, RowsStay, AttemptsKept, SameRows, SameStatus, SameApproval, SameStep
  <2>3. QED
    BY <2>1, <2>2
<1>9. OneActive' /\ Counted'
  BY <1>1, OneActiveStays, CountedStays DEF IInv, AttemptsKept
<1>10. ASSUME NEW i \in Ids' PROVE Attested(i)'
  BY <1>1, <1>2, <1>3, <1>4, AttestedStays DEF IInv, Shapes, Maps, Holding, Open, AttemptsKept, SameRows, SameStatus, SameApproval, SameStep
<1>11. ExecutedIsAnswered'
  BY <1>1, <1>2, ExecutedStays DEF IInv, AttemptsKept, SameRows, SameStatus, SameApproval, SameStep
<1>12. DoneIsQuiet'
  BY <1>1, <1>2, <1>3, <1>4 DEF IInv, Shapes, Maps, DoneIsQuiet, At
<1>13. QED
  BY <1>5, <1>6, <1>7, <1>8, <1>9, <1>10, <1>11, <1>12 DEF IInv

\* The attempt takes the outcome over.
LEMMA RecordTakenKeeps ==
  ASSUME IInv, NEW e \in Executions, Record(e), ~(answer[e] \in Indexed /\ Clashes(on[e], attempts[on[e]].feedback))
  PROVE  IInv'
<1>1. StatusWritten(on[e], answer[e])
  BY StatusWrite DEF IInv, Shapes, Maps, Record, At, Knows, WithStatus, Answers, Results, Indexed
<1>2. InvocationsStay /\ \A v \in DOMAIN invocations : AnswerStays(v)
  BY InvocationsUntouched DEF IInv, Shapes, Record
<1>3. /\ pc[e] = "ended"
      /\ pc' = [pc EXCEPT ![e] = IF answer[e] \in Results THEN "recorded" ELSE "failing"]
      /\ UNCHANGED <<task, enabled, request, on, asked, answer, doubled, cut, begun, moves, crashes>>
  BY DEF Record, At, Goto, history, bounds
<1>4. /\ \A f \in Executions \ {e} : pc[f] \in Resting
      /\ Knows(e)
  BY <1>3 DEF IInv, OneTurn, Resting
<1>5. Shapes'
  BY <1>1, <1>2, <1>3, <1>4 DEF IInv, Shapes, Types, Maps, PCs, Resting, StatusWritten, SameRows, InvocationsStay
<1>6. OneTurn' /\ RequestInv'
  BY <1>1, <1>2, <1>3, <1>4 DEF IInv, Shapes, Maps, OneTurn, RequestInv, Resting, StatusWritten, SameRows, NewStatus, SameApproval, SameStep
<1>7. Pairs'
  BY <1>1, <1>2, <1>3, <1>4 DEF IInv, Shapes, Maps, Knows, Pairs, Open
<1>8. ASSUME NEW f \in Executions PROVE Knows(f)'
  <2>1. CASE f = e
    BY <1>1, <1>2, <1>3, <1>4, <2>1 DEF IInv, Shapes, Maps, Knows, Open, Told, Starting, Resting, InvocationsStay, StatusWritten, SameRows, NewStatus, SameApproval, SameStep, Answers, Results
  <2>2. CASE f # e
    BY <1>1, <1>2, <1>3, <1>4, <2>2, KnowsStays DEF IInv, Shapes, Maps, RowsStay, StatusWritten, SameRows, NewStatus, SameApproval, SameStep
  <2>3. QED
    BY <2>1, <2>2
<1>9. OneActive' /\ Counted'
  BY <1>1, <1>4, <1>3, OneActiveWritten, CountedStays DEF IInv, StatusWritten, Knows
<1>10. ASSUME NEW i \in Ids' PROVE Attested(i)'
  <2>1. CASE i = on[e]
    <3>1. asked[e] \in DOMAIN invocations /\ Tells(asked[e], on[e])'
      BY <1>1, <1>2, <1>3, <1>4
      DEF IInv, Shapes, Maps, Knows, Pairs, Open, Tells, InvocationsStay, AnswerStays, StatusWritten, NewStatus
    <3>2. asked[e] \in DOMAIN invocations' /\ attempts'[i].status # "running"
      BY <1>1, <1>2, <1>3, <1>4, <2>1, <3>1
      DEF IInv, Shapes, Maps, Knows, InvocationsStay, StatusWritten, NewStatus, Answers, Results
    <3>3. QED
      BY <1>3, <2>1, <3>1, <3>2 DEF Attested
  <2>2. CASE i # on[e]
    BY <1>1, <1>2, <1>3, <1>4, <2>2, AttestedStays
    DEF IInv, Shapes, Maps, Holding, Open, StatusWritten, SameRows, NewStatus
  <2>3. QED
    BY <2>1, <2>2
<1>11. ExecutedIsAnswered'
  BY <1>1, <1>2, <1>3, <1>4, ExecutedStays DEF IInv, Shapes, Maps, Answers, Results, StatusWritten, SameRows, NewStatus, SameApproval
<1>12. DoneIsQuiet'
  BY <1>1, <1>2, <1>3, <1>4 DEF IInv, Shapes, Maps, DoneIsQuiet, At
<1>13. QED
  BY <1>5, <1>6, <1>7, <1>8, <1>9, <1>10, <1>11, <1>12 DEF IInv

\* The step ends.
LEMMA EndStepKeeps ==
  ASSUME IInv, NEW e \in Executions, EndStep(e)
  PROVE  IInv'
<1>1. StepWritten(on[e], IF answer[e] = "succeeded" THEN "succeeded" ELSE "failed")
  BY StepWrite DEF IInv, Shapes, EndStep, At, Knows
<1>2. InvocationsStay /\ \A v \in DOMAIN invocations : AnswerStays(v)
  BY InvocationsUntouched DEF IInv, Shapes, EndStep
<1>3. /\ pc[e] = "recorded" /\ pc' = [pc EXCEPT ![e] = "stepped"]
      /\ UNCHANGED <<task, enabled, request, on, asked, answer, doubled, cut, begun, moves, crashes>>
  BY DEF EndStep, At, Goto, history, bounds
<1>4. /\ \A f \in Executions \ {e} : pc[f] \in Resting
      /\ Knows(e)
  BY <1>3 DEF IInv, OneTurn, Resting
<1>5. Shapes'
  BY <1>1, <1>2, <1>3, <1>4 DEF IInv, Shapes, Types, Maps, PCs, Resting, StepWritten, SameRows, InvocationsStay
<1>6. OneTurn' /\ RequestInv'
  BY <1>1, <1>2, <1>3, <1>4 DEF IInv, Shapes, Maps, OneTurn, RequestInv, Resting, StepWritten, SameRows, SameStatus, SameApproval, NewStep
<1>7. Pairs'
  BY <1>1, <1>2, <1>3, <1>4 DEF IInv, Shapes, Maps, Knows, Pairs, Open
<1>8. ASSUME NEW f \in Executions PROVE Knows(f)'
  <2>1. CASE f = e
    BY <1>1, <1>2, <1>3, <1>4, <2>1 DEF IInv, Shapes, Maps, Knows, Open, Told, Starting, Resting, InvocationsStay, StepWritten, SameRows, SameStatus, SameApproval, NewStep
  <2>2. CASE f # e
    BY <1>1, <1>2, <1>3, <1>4, <2>2, KnowsStays DEF IInv, Shapes, Maps, RowsStay, StepWritten, SameRows, SameStatus, SameApproval, NewStep, Pairs
  <2>3. QED
    BY <2>1, <2>2
<1>9. OneActive' /\ Counted'
  BY <1>1, OneActiveStays, CountedStays DEF IInv, StepWritten
<1>10. ASSUME NEW i \in Ids' PROVE Attested(i)'
  BY <1>1, <1>2, <1>3, <1>4, AttestedStays DEF IInv, Shapes, Maps, Holding, Open, StepWritten, SameRows, SameStatus, SameApproval, NewStep
<1>11. ExecutedIsAnswered'
  BY <1>1, <1>2, ExecutedStays DEF IInv, StepWritten, SameRows, SameStatus, SameApproval, NewStep
<1>12. DoneIsQuiet'
  BY <1>1, <1>2, <1>3, <1>4 DEF IInv, Shapes, Maps, DoneIsQuiet, At
<1>13. QED
  BY <1>5, <1>6, <1>7, <1>8, <1>9, <1>10, <1>11, <1>12 DEF IInv

\* The approval is used up.
LEMMA ConsumeTakenKeeps ==
  ASSUME IInv, NEW e \in Executions, Consume(e), task \notin Closed
  PROVE  IInv'
<1>1. ApprovalWritten(on[e], "executed")
  BY ApprovalWrite DEF IInv, Shapes, Consume, At, Knows
<1>2. InvocationsStay /\ \A v \in DOMAIN invocations : AnswerStays(v)
  BY InvocationsUntouched DEF IInv, Shapes, Consume
<1>3. /\ pc[e] = "stepped" /\ pc' = [pc EXCEPT ![e] = "consumed"]
      /\ UNCHANGED <<task, enabled, request, on, asked, answer, doubled, cut, begun, moves, crashes>>
  BY DEF Consume, At, Goto, history, bounds
<1>4. /\ \A f \in Executions \ {e} : pc[f] \in Resting
      /\ Knows(e)
  BY <1>3 DEF IInv, OneTurn, Resting
<1>5. Shapes'
  BY <1>1, <1>2, <1>3, <1>4 DEF IInv, Shapes, Types, Maps, PCs, Resting, ApprovalWritten, SameRows, InvocationsStay
<1>6. OneTurn' /\ RequestInv'
  BY <1>1, <1>2, <1>3, <1>4 DEF IInv, Shapes, Maps, OneTurn, RequestInv, Resting, ApprovalWritten, SameRows, SameStatus, NewApproval, SameStep
<1>7. Pairs'
  BY <1>1, <1>2, <1>3, <1>4 DEF IInv, Shapes, Maps, Knows, Pairs, Open
<1>8. ASSUME NEW f \in Executions PROVE Knows(f)'
  <2>1. CASE f = e
    BY <1>1, <1>2, <1>3, <1>4, <2>1 DEF IInv, Shapes, Maps, Knows, Open, Told, Starting, Resting, InvocationsStay, ApprovalWritten, SameRows, SameStatus, NewApproval, SameStep
  <2>2. CASE f # e
    BY <1>1, <1>2, <1>3, <1>4, <2>2, KnowsStays DEF IInv, Shapes, Maps, RowsStay, ApprovalWritten, SameRows, SameStatus, NewApproval, SameStep
  <2>3. QED
    BY <2>1, <2>2
<1>9. OneActive' /\ Counted'
  BY <1>1, OneActiveStays, CountedStays DEF IInv, ApprovalWritten
<1>10. ASSUME NEW i \in Ids' PROVE Attested(i)'
  BY <1>1, <1>2, <1>3, <1>4, AttestedStays DEF IInv, Shapes, Maps, Holding, Open, ApprovalWritten, SameRows, SameStatus, NewApproval, SameStep
<1>11. ExecutedIsAnswered'
  <2>1. ASSUME NEW i \in Ids, attempts'[i].approval = "executed", i # on[e]
        PROVE  /\ attempts[i].approval = "executed" /\ attempts'[i].status = attempts[i].status
    BY <1>1, <2>1 DEF ApprovalWritten, SameStatus, NewApproval
  <2>2. /\ attempts'[on[e]].status \in Results
        /\ asked[e] \in DOMAIN invocations /\ invocations[asked[e]].attempt = on[e]
        /\ invocations[asked[e]].status # "running"
    BY <1>1, <1>3, <1>4 DEF Knows, Told, ApprovalWritten, SameStatus
  <2>3. ASSUME NEW i \in Ids, attempts'[i].approval = "executed"
        PROVE  /\ attempts'[i].status \notin {"pending_approval", "running"}
               /\ \E v \in DOMAIN invocations :
                    invocations[v].attempt = i /\ invocations[v].status # "running"
    BY <2>1, <2>2, <2>3 DEF IInv, ExecutedIsAnswered, Results
  <2>4. QED
    BY <1>1, <1>2, <2>3 DEF ExecutedIsAnswered, InvocationsStay, ApprovalWritten, SameRows
<1>12. DoneIsQuiet'
  BY <1>1, <1>2, <1>3, <1>4 DEF IInv, Shapes, Maps, DoneIsQuiet, At
<1>13. QED
  BY <1>5, <1>6, <1>7, <1>8, <1>9, <1>10, <1>11, <1>12 DEF IInv

\* A closed task refuses that.
LEMMA ConsumeRefusedKeeps ==
  ASSUME IInv, NEW e \in Executions, Consume(e), task \in Closed
  PROVE  IInv'
<1>1. AttemptsKept
  BY Untouched DEF IInv, Shapes, Consume
<1>2. InvocationsStay /\ \A v \in DOMAIN invocations : AnswerStays(v)
  BY InvocationsUntouched DEF IInv, Shapes, Consume
<1>3. /\ pc[e] = "stepped" /\ pc' = [pc EXCEPT ![e] = "failing"]
      /\ UNCHANGED <<task, enabled, request, on, asked, answer, doubled, cut, begun, moves, crashes>>
  BY DEF Consume, At, Goto, history, bounds
<1>4. /\ \A f \in Executions \ {e} : pc[f] \in Resting
      /\ Knows(e)
  BY <1>3 DEF IInv, OneTurn, Resting
<1>5. Shapes'
  BY <1>1, <1>2, <1>3, <1>4 DEF IInv, Shapes, Types, Maps, PCs, Resting, AttemptsKept, SameRows, InvocationsStay
<1>6. OneTurn' /\ RequestInv'
  BY <1>1, <1>2, <1>3, <1>4 DEF IInv, Shapes, Maps, OneTurn, RequestInv, Resting, AttemptsKept, SameRows, SameStatus, SameApproval, SameStep
<1>7. Pairs'
  BY <1>1, <1>2, <1>3, <1>4 DEF IInv, Shapes, Maps, Knows, Pairs, Open
<1>8. ASSUME NEW f \in Executions PROVE Knows(f)'
  <2>1. CASE f = e
    BY <1>1, <1>2, <1>3, <1>4, <2>1 DEF IInv, Shapes, Maps, Knows, Open, Told, Starting, Resting, InvocationsStay, AttemptsKept, SameRows, SameStatus, SameApproval, SameStep
  <2>2. CASE f # e
    BY <1>1, <1>2, <1>3, <1>4, <2>2, KnowsStays DEF IInv, Shapes, Maps, RowsStay, AttemptsKept, SameRows, SameStatus, SameApproval, SameStep
  <2>3. QED
    BY <2>1, <2>2
<1>9. OneActive' /\ Counted'
  BY <1>1, OneActiveStays, CountedStays DEF IInv, AttemptsKept
<1>10. ASSUME NEW i \in Ids' PROVE Attested(i)'
  BY <1>1, <1>2, <1>3, <1>4, AttestedStays DEF IInv, Shapes, Maps, Holding, Open, AttemptsKept, SameRows, SameStatus, SameApproval, SameStep
<1>11. ExecutedIsAnswered'
  BY <1>1, <1>2, ExecutedStays DEF IInv, AttemptsKept, SameRows, SameStatus, SameApproval, SameStep
<1>12. DoneIsQuiet'
  BY <1>1, <1>2, <1>3, <1>4 DEF IInv, Shapes, Maps, DoneIsQuiet, At
<1>13. QED
  BY <1>5, <1>6, <1>7, <1>8, <1>9, <1>10, <1>11, <1>12 DEF IInv

\* The task moves on, or refuses to.
LEMMA SettleKeeps ==
  ASSUME IInv, NEW e \in Executions, Settle(e)
  PROVE  IInv'
<1>1. AttemptsKept
  BY Untouched DEF IInv, Shapes, Settle
<1>2. InvocationsStay /\ \A v \in DOMAIN invocations : AnswerStays(v)
  BY InvocationsUntouched DEF IInv, Shapes, Settle
<1>3. /\ pc[e] = "consumed" /\ \E here \in {"off", "failing"} : pc' = [pc EXCEPT ![e] = here]
      /\ task' \in TaskStatus /\ (task' = "done" => task = "done")
      /\ UNCHANGED <<enabled, request, on, asked, answer, doubled, cut, begun, moves, crashes>>
  BY DEF Settle, At, Goto, history, bounds, Target, TaskStatus, IInv, Shapes, Types
<1>4. /\ \A f \in Executions \ {e} : pc[f] \in Resting
      /\ Knows(e)
  BY <1>3 DEF IInv, OneTurn, Resting
<1>5. Shapes'
  BY <1>1, <1>2, <1>3, <1>4 DEF IInv, Shapes, Types, Maps, PCs, Resting, AttemptsKept, SameRows, InvocationsStay
<1>6. OneTurn' /\ RequestInv'
  BY <1>1, <1>2, <1>3, <1>4 DEF IInv, Shapes, Maps, OneTurn, RequestInv, Resting, AttemptsKept, SameRows, SameStatus, SameApproval, SameStep
<1>7. Pairs'
  BY <1>1, <1>2, <1>3, <1>4 DEF IInv, Shapes, Maps, Knows, Pairs, Open
<1>8. ASSUME NEW f \in Executions PROVE Knows(f)'
  <2>1. CASE f = e
    BY <1>1, <1>2, <1>3, <1>4, <2>1 DEF IInv, Shapes, Maps, Knows, Open, Told, Starting, Resting, InvocationsStay, AttemptsKept, SameRows, SameStatus, SameApproval, SameStep
  <2>2. CASE f # e
    BY <1>1, <1>2, <1>3, <1>4, <2>2, KnowsStays DEF IInv, Shapes, Maps, RowsStay, AttemptsKept, SameRows, SameStatus, SameApproval, SameStep
  <2>3. QED
    BY <2>1, <2>2
<1>9. OneActive' /\ Counted'
  BY <1>1, OneActiveStays, CountedStays DEF IInv, AttemptsKept
<1>10. ASSUME NEW i \in Ids' PROVE Attested(i)'
  BY <1>1, <1>2, <1>3, <1>4, AttestedStays DEF IInv, Shapes, Maps, Holding, Open, AttemptsKept, SameRows, SameStatus, SameApproval, SameStep
<1>11. ExecutedIsAnswered'
  BY <1>1, <1>2, ExecutedStays DEF IInv, AttemptsKept, SameRows, SameStatus, SameApproval, SameStep
<1>12. DoneIsQuiet'
  BY <1>1, <1>2, <1>3, <1>4 DEF IInv, Shapes, Maps, DoneIsQuiet, At
<1>13. QED
  BY <1>5, <1>6, <1>7, <1>8, <1>9, <1>10, <1>11, <1>12 DEF IInv

\* The catch block ends the step.
LEMMA FailStepKeeps ==
  ASSUME IInv, NEW e \in Executions, FailStep(e)
  PROVE  IInv'
<1>1. StepWritten(on[e], "failed")
  BY StepWrite DEF IInv, Shapes, FailStep, At, Knows
<1>2. InvocationsStay /\ \A v \in DOMAIN invocations : AnswerStays(v)
  BY InvocationsUntouched DEF IInv, Shapes, FailStep
<1>3. /\ pc[e] = "failing" /\ pc' = [pc EXCEPT ![e] = "blocking"]
      /\ UNCHANGED <<task, enabled, request, on, asked, answer, doubled, cut, begun, moves, crashes>>
  BY DEF FailStep, At, Goto, history, bounds
<1>4. /\ \A f \in Executions \ {e} : pc[f] \in Resting
      /\ Knows(e)
  BY <1>3 DEF IInv, OneTurn, Resting
<1>5. Shapes'
  BY <1>1, <1>2, <1>3, <1>4 DEF IInv, Shapes, Types, Maps, PCs, Resting, StepWritten, SameRows, InvocationsStay
<1>6. OneTurn' /\ RequestInv'
  BY <1>1, <1>2, <1>3, <1>4 DEF IInv, Shapes, Maps, OneTurn, RequestInv, Resting, StepWritten, SameRows, SameStatus, SameApproval, NewStep
<1>7. Pairs'
  BY <1>1, <1>2, <1>3, <1>4 DEF IInv, Shapes, Maps, Knows, Pairs, Open
<1>8. ASSUME NEW f \in Executions PROVE Knows(f)'
  <2>1. CASE f = e
    BY <1>1, <1>2, <1>3, <1>4, <2>1 DEF IInv, Shapes, Maps, Knows, Open, Told, Starting, Resting, InvocationsStay, StepWritten, SameRows, SameStatus, SameApproval, NewStep
  <2>2. CASE f # e
    BY <1>1, <1>2, <1>3, <1>4, <2>2, KnowsStays DEF IInv, Shapes, Maps, RowsStay, StepWritten, SameRows, SameStatus, SameApproval, NewStep, Pairs
  <2>3. QED
    BY <2>1, <2>2
<1>9. OneActive' /\ Counted'
  BY <1>1, OneActiveStays, CountedStays DEF IInv, StepWritten
<1>10. ASSUME NEW i \in Ids' PROVE Attested(i)'
  BY <1>1, <1>2, <1>3, <1>4, AttestedStays DEF IInv, Shapes, Maps, Holding, Open, StepWritten, SameRows, SameStatus, SameApproval, NewStep
<1>11. ExecutedIsAnswered'
  BY <1>1, <1>2, ExecutedStays DEF IInv, StepWritten, SameRows, SameStatus, SameApproval, NewStep
<1>12. DoneIsQuiet'
  BY <1>1, <1>2, <1>3, <1>4 DEF IInv, Shapes, Maps, DoneIsQuiet, At
<1>13. QED
  BY <1>5, <1>6, <1>7, <1>8, <1>9, <1>10, <1>11, <1>12 DEF IInv

\* The task is blocked where the table allows it.
LEMMA BlockKeeps ==
  ASSUME IInv, NEW e \in Executions, Block(e)
  PROVE  IInv'
<1>1. AttemptsKept
  BY Untouched DEF IInv, Shapes, Block
<1>2. InvocationsStay /\ \A v \in DOMAIN invocations : AnswerStays(v)
  BY InvocationsUntouched DEF IInv, Shapes, Block
<1>3. /\ pc[e] = "blocking" /\ pc' = [pc EXCEPT ![e] = "off"]
      /\ task' \in TaskStatus /\ (task' = "done" => task = "done")
      /\ UNCHANGED <<enabled, request, on, asked, answer, doubled, cut, begun, moves, crashes>>
  BY DEF Block, At, Goto, history, bounds, TaskStatus, IInv, Shapes, Types
<1>4. /\ \A f \in Executions \ {e} : pc[f] \in Resting
      /\ Knows(e)
  BY <1>3 DEF IInv, OneTurn, Resting
<1>5. Shapes'
  BY <1>1, <1>2, <1>3, <1>4 DEF IInv, Shapes, Types, Maps, PCs, Resting, AttemptsKept, SameRows, InvocationsStay
<1>6. OneTurn' /\ RequestInv'
  BY <1>1, <1>2, <1>3, <1>4 DEF IInv, Shapes, Maps, OneTurn, RequestInv, Resting, AttemptsKept, SameRows, SameStatus, SameApproval, SameStep
<1>7. Pairs'
  BY <1>1, <1>2, <1>3, <1>4 DEF IInv, Shapes, Maps, Knows, Pairs, Open
<1>8. ASSUME NEW f \in Executions PROVE Knows(f)'
  <2>1. CASE f = e
    BY <1>1, <1>2, <1>3, <1>4, <2>1 DEF IInv, Shapes, Maps, Knows, Open, Told, Starting, Resting, InvocationsStay, AttemptsKept, SameRows, SameStatus, SameApproval, SameStep
  <2>2. CASE f # e
    BY <1>1, <1>2, <1>3, <1>4, <2>2, KnowsStays DEF IInv, Shapes, Maps, RowsStay, AttemptsKept, SameRows, SameStatus, SameApproval, SameStep
  <2>3. QED
    BY <2>1, <2>2
<1>9. OneActive' /\ Counted'
  BY <1>1, OneActiveStays, CountedStays DEF IInv, AttemptsKept
<1>10. ASSUME NEW i \in Ids' PROVE Attested(i)'
  BY <1>1, <1>2, <1>3, <1>4, AttestedStays DEF IInv, Shapes, Maps, Holding, Open, AttemptsKept, SameRows, SameStatus, SameApproval, SameStep
<1>11. ExecutedIsAnswered'
  BY <1>1, <1>2, ExecutedStays DEF IInv, AttemptsKept, SameRows, SameStatus, SameApproval, SameStep
<1>12. DoneIsQuiet'
  BY <1>1, <1>2, <1>3, <1>4 DEF IInv, Shapes, Maps, DoneIsQuiet, At
<1>13. QED
  BY <1>5, <1>6, <1>7, <1>8, <1>9, <1>10, <1>11, <1>12 DEF IInv

-----------------------------------------------------------------------------
(* The user, the other services and a crash keep the invariant *)

\* The task waits for the user, or refuses to.
LEMMA AwaitUserKeeps ==
  ASSUME IInv, AwaitUser
  PROVE  IInv'
<1>1. AttemptsKept
  BY Untouched DEF IInv, Shapes, AwaitUser
<1>2. InvocationsStay /\ \A v \in DOMAIN invocations : AnswerStays(v)
  BY InvocationsUntouched DEF IInv, Shapes, AwaitUser
<1>3. /\ request = "proposed" /\ request' = "none"
      /\ \A f \in Executions : pc[f] \in Resting
      /\ task' \in TaskStatus /\ (task' = "done" => task = "done")
      /\ UNCHANGED <<enabled, pc, on, asked, answer, doubled, cut, begun, moves, crashes>>
  BY DEF AwaitUser, execution, history, bounds, TaskStatus, IInv, Shapes, Types, OneTurn
<1>4. Shapes'
  BY <1>1, <1>2, <1>3 DEF IInv, Shapes, Types, Maps, TaskStatus, AttemptsKept, SameRows, InvocationsStay
<1>5. OneTurn' /\ RequestInv' /\ Pairs'
  BY <1>1, <1>2, <1>3 DEF IInv, Shapes, Maps, OneTurn, RequestInv, Pairs, Resting, Open, AttemptsKept, SameRows, SameStatus, SameApproval, SameStep
<1>6. ASSUME NEW f \in Executions PROVE Knows(f)'
  BY <1>1, <1>2, <1>3, KnowsStays DEF IInv, Resting, RowsStay, AttemptsKept, SameRows, SameStatus, SameApproval, SameStep
<1>7. OneActive' /\ Counted'
  BY <1>1, OneActiveStays, CountedStays DEF IInv, AttemptsKept
<1>8. ASSUME NEW i \in Ids' PROVE Attested(i)'
  BY <1>1, <1>2, <1>3, AttestedStays DEF IInv, Holding, Open, AttemptsKept, SameRows, SameStatus, SameApproval, SameStep
<1>9. ExecutedIsAnswered'
  BY <1>1, <1>2, ExecutedStays DEF IInv, AttemptsKept, SameRows, SameStatus, SameApproval, SameStep
<1>10. DoneIsQuiet'
  BY <1>1, <1>2, <1>3 DEF IInv, DoneIsQuiet, At
<1>11. QED
  BY <1>4, <1>5, <1>6, <1>7, <1>8, <1>9, <1>10 DEF IInv

\* The user approves.
LEMMA ApproveKeeps ==
  ASSUME IInv, NEW i \in Ids, Approve(i)
  PROVE  IInv'
<1>1. ApprovalWritten(i, "approved")
  BY ApprovalWrite DEF IInv, Shapes, Approve
<1>2. InvocationsStay /\ \A v \in DOMAIN invocations : AnswerStays(v)
  BY InvocationsUntouched DEF IInv, Shapes, Approve
<1>3. /\ attempts[i].approval = "pending" /\ request = "none"
      /\ \A f \in Executions : pc[f] \in Resting
      /\ UNCHANGED <<task, enabled, request, pc, on, asked, answer, doubled, cut, begun, moves, crashes>>
  BY DEF Approve, execution, history, bounds, Yields, Resting
<1>4. Shapes'
  BY <1>1, <1>2, <1>3 DEF IInv, Shapes, Types, Maps, TaskStatus, ApprovalWritten, SameRows, InvocationsStay
<1>5. OneTurn' /\ RequestInv' /\ Pairs'
  BY <1>1, <1>2, <1>3 DEF IInv, Shapes, Maps, OneTurn, RequestInv, Pairs, Resting, Open, ApprovalWritten, SameRows, SameStatus, NewApproval, SameStep
<1>6. ASSUME NEW f \in Executions PROVE Knows(f)'
  BY <1>1, <1>2, <1>3, KnowsStays DEF IInv, Resting, RowsStay, ApprovalWritten, SameRows, SameStatus, NewApproval, SameStep
<1>7. OneActive' /\ Counted'
  BY <1>1, OneActiveStays, CountedStays DEF IInv, ApprovalWritten
<1>8. ASSUME NEW j \in Ids' PROVE Attested(j)'
  BY <1>1, <1>2, <1>3, AttestedStays DEF IInv, Holding, Open, ApprovalWritten, SameRows, SameStatus, NewApproval, SameStep
<1>9. ExecutedIsAnswered'
  BY <1>1, <1>2, ExecutedStays DEF IInv, ApprovalWritten, SameRows, SameStatus, NewApproval, SameStep
<1>10. DoneIsQuiet'
  BY <1>1, <1>2, <1>3 DEF IInv, DoneIsQuiet, At
<1>11. QED
  BY <1>4, <1>5, <1>6, <1>7, <1>8, <1>9, <1>10 DEF IInv

\* The user rejects, and the task is paused where it can be.
LEMMA RejectKeeps ==
  ASSUME IInv, NEW i \in Ids, Reject(i)
  PROVE  IInv'
<1>1. ApprovalWritten(i, "rejected")
  BY ApprovalWrite DEF IInv, Shapes, Reject
<1>2. InvocationsStay /\ \A v \in DOMAIN invocations : AnswerStays(v)
  BY InvocationsUntouched DEF IInv, Shapes, Reject
<1>3. /\ request = "none" /\ \A f \in Executions : pc[f] \in Resting
      /\ attempts[i].approval # "executed"
      /\ task' \in TaskStatus /\ (task' = "done" => task = "done")
      /\ UNCHANGED <<enabled, request, pc, on, asked, answer, doubled, cut, begun, moves, crashes>>
  BY DEF Reject, execution, history, bounds, Yields, Resting, TaskStatus, IInv, Shapes, Types
<1>4. Shapes'
  BY <1>1, <1>2, <1>3 DEF IInv, Shapes, Types, Maps, TaskStatus, ApprovalWritten, SameRows, InvocationsStay
<1>5. OneTurn' /\ RequestInv' /\ Pairs'
  BY <1>1, <1>2, <1>3 DEF IInv, Shapes, Maps, OneTurn, RequestInv, Pairs, Resting, Open, ApprovalWritten, SameRows, SameStatus, NewApproval, SameStep
<1>6. ASSUME NEW f \in Executions PROVE Knows(f)'
  BY <1>1, <1>2, <1>3, KnowsStays DEF IInv, Resting, RowsStay, ApprovalWritten, SameRows, SameStatus, NewApproval, SameStep
<1>7. OneActive' /\ Counted'
  BY <1>1, OneActiveStays, CountedStays DEF IInv, ApprovalWritten
<1>8. ASSUME NEW j \in Ids' PROVE Attested(j)'
  BY <1>1, <1>2, <1>3, AttestedStays DEF IInv, Holding, Open, ApprovalWritten, SameRows, SameStatus, NewApproval, SameStep
<1>9. ExecutedIsAnswered'
  BY <1>1, <1>2, ExecutedStays DEF IInv, ApprovalWritten, SameRows, SameStatus, NewApproval, SameStep
<1>10. DoneIsQuiet'
  BY <1>1, <1>2, <1>3 DEF IInv, DoneIsQuiet, At
<1>11. QED
  BY <1>4, <1>5, <1>6, <1>7, <1>8, <1>9, <1>10 DEF IInv

\* The user cancels an invocation.
LEMMA CancelInvocationKeeps ==
  ASSUME IInv, NEW v \in DOMAIN invocations, CancelInvocation(v)
  PROVE  IInv'
<1>1. AttemptsKept
  BY Untouched DEF IInv, Shapes, CancelInvocation
<1>2. InvocationsStay /\ \A u \in DOMAIN invocations : AnswerStays(u)
  BY InvocationCancelled DEF IInv, Shapes, CancelInvocation
<1>3. /\ request = "none" /\ \A f \in Executions : pc[f] \in Resting
      /\ UNCHANGED <<task, enabled, request, pc, on, asked, answer, doubled, cut, begun, moves, crashes>>
  BY DEF CancelInvocation, execution, history, bounds, Yields, Resting
<1>4. Shapes'
  BY <1>1, <1>2, <1>3 DEF IInv, Shapes, Types, Maps, TaskStatus, AttemptsKept, SameRows, InvocationsStay
<1>5. OneTurn' /\ RequestInv' /\ Pairs'
  BY <1>1, <1>2, <1>3 DEF IInv, Shapes, Maps, OneTurn, RequestInv, Pairs, Resting, Open, AttemptsKept, SameRows, SameStatus, SameApproval, SameStep
<1>6. ASSUME NEW f \in Executions PROVE Knows(f)'
  BY <1>1, <1>2, <1>3, KnowsStays DEF IInv, Resting, RowsStay, AttemptsKept, SameRows, SameStatus, SameApproval, SameStep
<1>7. OneActive' /\ Counted'
  BY <1>1, OneActiveStays, CountedStays DEF IInv, AttemptsKept
<1>8. ASSUME NEW i \in Ids' PROVE Attested(i)'
  BY <1>1, <1>2, <1>3, AttestedStays DEF IInv, Holding, Open, AttemptsKept, SameRows, SameStatus, SameApproval, SameStep
<1>9. ExecutedIsAnswered'
  BY <1>1, <1>2, ExecutedStays DEF IInv, AttemptsKept, SameRows, SameStatus, SameApproval, SameStep
<1>10. DoneIsQuiet'
  BY <1>1, <1>2, <1>3 DEF IInv, DoneIsQuiet, At
<1>11. QED
  BY <1>4, <1>5, <1>6, <1>7, <1>8, <1>9, <1>10 DEF IInv

\* The user cancels the task.
LEMMA CancelTaskKeeps ==
  ASSUME IInv, CancelTask
  PROVE  IInv'
<1>1. AttemptsKept
  BY Untouched DEF IInv, Shapes, CancelTask
<1>2. InvocationsStay /\ \A u \in DOMAIN invocations : AnswerStays(u)
  BY InvocationsCancelled DEF IInv, Shapes, CancelTask
<1>3. /\ request = "none" /\ \A f \in Executions : pc[f] \in Resting
      /\ task' = "cancelled" /\ moves' = moves + 1
      /\ UNCHANGED <<enabled, request, pc, on, asked, answer, doubled, cut, begun, crashes>>
  BY DEF CancelTask, execution, history, bounds, Yields, Resting
<1>4. Shapes'
  BY <1>1, <1>2, <1>3 DEF IInv, Shapes, Types, Maps, TaskStatus, AttemptsKept, SameRows, InvocationsStay
<1>5. OneTurn' /\ RequestInv' /\ Pairs'
  BY <1>1, <1>2, <1>3 DEF IInv, Shapes, Maps, OneTurn, RequestInv, Pairs, Resting, Open, AttemptsKept, SameRows, SameStatus, SameApproval, SameStep
<1>6. ASSUME NEW f \in Executions PROVE Knows(f)'
  BY <1>1, <1>2, <1>3, KnowsStays DEF IInv, Resting, RowsStay, AttemptsKept, SameRows, SameStatus, SameApproval, SameStep
<1>7. OneActive' /\ Counted'
  BY <1>1, OneActiveStays, CountedStays DEF IInv, AttemptsKept
<1>8. ASSUME NEW i \in Ids' PROVE Attested(i)'
  BY <1>1, <1>2, <1>3, AttestedStays DEF IInv, Holding, Open, AttemptsKept, SameRows, SameStatus, SameApproval, SameStep
<1>9. ExecutedIsAnswered'
  BY <1>1, <1>2, ExecutedStays DEF IInv, AttemptsKept, SameRows, SameStatus, SameApproval, SameStep
<1>10. DoneIsQuiet'
  BY <1>1, <1>2, <1>3 DEF IInv, DoneIsQuiet, At
<1>11. QED
  BY <1>4, <1>5, <1>6, <1>7, <1>8, <1>9, <1>10 DEF IInv

\* Another service moves the task, never to an end.
LEMMA MoveTaskKeeps ==
  ASSUME IInv, NEW status \in Moves, MoveTask(status)
  PROVE  IInv'
<1>1. AttemptsKept
  BY Untouched DEF IInv, Shapes, MoveTask
<1>2. InvocationsStay /\ \A v \in DOMAIN invocations : AnswerStays(v)
  BY InvocationsUntouched DEF IInv, Shapes, MoveTask
<1>3. /\ request = "none" /\ \A f \in Executions : pc[f] \in Resting
      /\ task' \in TaskStatus /\ task' # "done" /\ moves' = moves + 1
      /\ UNCHANGED <<enabled, request, pc, on, asked, answer, doubled, cut, begun, crashes>>
  BY RefinementAssumption DEF MoveTask, execution, history, bounds, Yields, Resting, Closed
<1>4. Shapes'
  BY <1>1, <1>2, <1>3 DEF IInv, Shapes, Types, Maps, TaskStatus, AttemptsKept, SameRows, InvocationsStay
<1>5. OneTurn' /\ RequestInv' /\ Pairs'
  BY <1>1, <1>2, <1>3 DEF IInv, Shapes, Maps, OneTurn, RequestInv, Pairs, Resting, Open, AttemptsKept, SameRows, SameStatus, SameApproval, SameStep
<1>6. ASSUME NEW f \in Executions PROVE Knows(f)'
  BY <1>1, <1>2, <1>3, KnowsStays DEF IInv, Resting, RowsStay, AttemptsKept, SameRows, SameStatus, SameApproval, SameStep
<1>7. OneActive' /\ Counted'
  BY <1>1, OneActiveStays, CountedStays DEF IInv, AttemptsKept
<1>8. ASSUME NEW i \in Ids' PROVE Attested(i)'
  BY <1>1, <1>2, <1>3, AttestedStays DEF IInv, Holding, Open, AttemptsKept, SameRows, SameStatus, SameApproval, SameStep
<1>9. ExecutedIsAnswered'
  BY <1>1, <1>2, ExecutedStays DEF IInv, AttemptsKept, SameRows, SameStatus, SameApproval, SameStep
<1>10. DoneIsQuiet'
  BY <1>1, <1>2, <1>3 DEF IInv, DoneIsQuiet, At
<1>11. QED
  BY <1>4, <1>5, <1>6, <1>7, <1>8, <1>9, <1>10 DEF IInv

\* A task is completed while no step runs.
LEMMA CompleteTaskRunKeeps ==
  ASSUME IInv, CompleteTaskRun
  PROVE  IInv'
<1>1. AttemptsKept
  BY Untouched DEF IInv, Shapes, CompleteTaskRun
<1>2. InvocationsStay /\ \A v \in DOMAIN invocations : AnswerStays(v)
  BY InvocationsUntouched DEF IInv, Shapes, CompleteTaskRun
<1>3. /\ request = "none" /\ \A f \in Executions : pc[f] \in Resting
      /\ task' = "done" /\ \A i \in Ids : attempts[i].step # "running"
      /\ UNCHANGED <<enabled, request, pc, on, asked, answer, doubled, cut, begun, moves, crashes>>
  BY DEF CompleteTaskRun, execution, history, bounds, Yields, Resting, Completable
<1>4. Shapes'
  BY <1>1, <1>2, <1>3 DEF IInv, Shapes, Types, Maps, TaskStatus, AttemptsKept, SameRows, InvocationsStay
<1>5. OneTurn' /\ RequestInv' /\ Pairs'
  BY <1>1, <1>2, <1>3 DEF IInv, Shapes, Maps, OneTurn, RequestInv, Pairs, Resting, Open, AttemptsKept, SameRows, SameStatus, SameApproval, SameStep
<1>6. ASSUME NEW f \in Executions PROVE Knows(f)'
  BY <1>1, <1>2, <1>3, KnowsStays DEF IInv, Resting, RowsStay, AttemptsKept, SameRows, SameStatus, SameApproval, SameStep
<1>7. OneActive' /\ Counted'
  BY <1>1, OneActiveStays, CountedStays DEF IInv, AttemptsKept
<1>8. ASSUME NEW i \in Ids' PROVE Attested(i)'
  BY <1>1, <1>2, <1>3, AttestedStays DEF IInv, Holding, Open, AttemptsKept, SameRows, SameStatus, SameApproval, SameStep
<1>9. ExecutedIsAnswered'
  BY <1>1, <1>2, ExecutedStays DEF IInv, AttemptsKept, SameRows, SameStatus, SameApproval, SameStep
<1>10. DoneIsQuiet'
  BY <1>1, <1>2, <1>3 DEF IInv, DoneIsQuiet, At, Knows
<1>11. QED
  BY <1>4, <1>5, <1>6, <1>7, <1>8, <1>9, <1>10 DEF IInv

\* The user disables the endpoint, or allows it again.
LEMMA ToggleEndpointKeeps ==
  ASSUME IInv, ToggleEndpoint
  PROVE  IInv'
<1>1. AttemptsKept
  BY Untouched DEF IInv, Shapes, ToggleEndpoint
<1>2. InvocationsStay /\ \A v \in DOMAIN invocations : AnswerStays(v)
  BY InvocationsUntouched DEF IInv, Shapes, ToggleEndpoint
<1>3. /\ request = "none" /\ \A f \in Executions : pc[f] \in Resting
      /\ enabled' = ~enabled /\ moves' = moves + 1
      /\ UNCHANGED <<task, request, pc, on, asked, answer, doubled, cut, begun, crashes>>
  BY DEF ToggleEndpoint, execution, history, bounds, Yields, Resting
<1>4. Shapes'
  BY <1>1, <1>2, <1>3 DEF IInv, Shapes, Types, Maps, TaskStatus, AttemptsKept, SameRows, InvocationsStay
<1>5. OneTurn' /\ RequestInv' /\ Pairs'
  BY <1>1, <1>2, <1>3 DEF IInv, Shapes, Maps, OneTurn, RequestInv, Pairs, Resting, Open, AttemptsKept, SameRows, SameStatus, SameApproval, SameStep
<1>6. ASSUME NEW f \in Executions PROVE Knows(f)'
  BY <1>1, <1>2, <1>3, KnowsStays DEF IInv, Resting, RowsStay, AttemptsKept, SameRows, SameStatus, SameApproval, SameStep
<1>7. OneActive' /\ Counted'
  BY <1>1, OneActiveStays, CountedStays DEF IInv, AttemptsKept
<1>8. ASSUME NEW i \in Ids' PROVE Attested(i)'
  BY <1>1, <1>2, <1>3, AttestedStays DEF IInv, Holding, Open, AttemptsKept, SameRows, SameStatus, SameApproval, SameStep
<1>9. ExecutedIsAnswered'
  BY <1>1, <1>2, ExecutedStays DEF IInv, AttemptsKept, SameRows, SameStatus, SameApproval, SameStep
<1>10. DoneIsQuiet'
  BY <1>1, <1>2, <1>3 DEF IInv, DoneIsQuiet, At
<1>11. QED
  BY <1>4, <1>5, <1>6, <1>7, <1>8, <1>9, <1>10 DEF IInv

-----------------------------------------------------------------------------
(* Requests and a crash keep the invariant *)

\* The attempts of a feedback are finitely many.
LEMMA SameFinite ==
  ASSUME Types, NEW feedback
  PROVE  /\ IsFiniteSet({i \in Ids : attempts[i].feedback = feedback})
         /\ Cardinality({i \in Ids : attempts[i].feedback = feedback}) \in Nat
<1>1. IsFiniteSet(Ids)
  BY Positions, FS_Interval
<1>2. IsFiniteSet({i \in Ids : attempts[i].feedback = feedback})
  BY <1>1, FS_Subset
<1>3. QED
  BY <1>2, FS_CardinalityType

\* A request adds an attempt that no other is active beside.
LEMMA RequestKeeps ==
  ASSUME IInv, NEW feedback \in Feedbacks, Request(feedback)
  PROVE  IInv'
<1> DEFINE row == [feedback |-> feedback, status |-> "pending_approval",
                   approval |-> "none", step |-> "none"]
           n == Len(attempts) + 1
<1>1. /\ attempts' \in Seq(Attempt) /\ Len(attempts') = n /\ n \in Nat
      /\ Ids' = Ids \cup {n} /\ n \notin Ids
      /\ attempts'[n] = row /\ \A i \in Ids : attempts'[i] = attempts[i]
  <2>1. row \in Attempt
    BY DEF Attempt, Indexed
  <2>2. attempts' = Append(attempts, row) /\ attempts \in Seq(Attempt)
    BY DEF IInv, Shapes, Types, Request
  <2>3. QED
    BY <2>1, <2>2 DEF Ids
<1>2. InvocationsStay /\ \A v \in DOMAIN invocations : AnswerStays(v)
  BY InvocationsUntouched DEF IInv, Shapes, Request
<1>3. /\ \A f \in Executions : pc[f] \in Resting
      /\ request' = "created"
      /\ \A i \in Ids : attempts[i].feedback = feedback => attempts[i].status \notin Indexed
      /\ Len(attempts) < MaxPerTask
      /\ Cardinality({i \in Ids : attempts[i].feedback = feedback}) < MaxPerFeedback
      /\ UNCHANGED <<task, enabled, pc, on, asked, answer, doubled, cut, begun, moves, crashes>>
  BY DEF Request, Yields, Resting, Permitted, Active, Indexed, execution, history, bounds
<1> HIDE DEF row, n
<1>4. /\ row.feedback = feedback /\ row.status = "pending_approval" /\ row.approval = "none"
  BY DEF row
<1>5. Shapes'
  BY <1>1, <1>3 DEF IInv, Shapes, Types, Maps, Request
<1>6. OneTurn' /\ RequestInv' /\ Pairs'
  <2>1. n > 0
    BY Positions DEF IInv, Shapes, n
  <2>2. RequestInv'
    BY <1>1, <1>4, <2>1 DEF RequestInv
  <2>3. OneTurn' /\ Pairs'
    BY <1>3 DEF IInv, Shapes, Maps, OneTurn, Pairs, Resting, Open
  <2>4. QED
    BY <2>2, <2>3
<1>7. ASSUME NEW f \in Executions PROVE Knows(f)'
  BY <1>1, <1>2, <1>3, KnowsStays DEF IInv, Resting, RowsStay
<1>8. OneActive'
  BY <1>1, <1>3, <1>4 DEF IInv, OneActive
<1>9. Counted'
  <2>1. Len(attempts') <= MaxPerTask
    BY <1>1, <1>3, RefinementAssumption, Positions DEF IInv, Shapes, n
  <2>2. ASSUME NEW other \in Feedbacks
        PROVE  Cardinality({i \in Ids : attempts[i].feedback = other}') <= MaxPerFeedback
    <3> DEFINE same == {i \in Ids : attempts[i].feedback = other}
    <3>1. IsFiniteSet(same) /\ Cardinality(same) \in Nat /\ Cardinality(same) <= MaxPerFeedback
      BY SameFinite DEF IInv, Shapes, Counted
    <3>2. CASE other = feedback
      <4>1. same' = same \cup {n} /\ n \notin same
        BY <1>1, <1>4, <3>2
      <4>2. Cardinality(same) < MaxPerFeedback /\ MaxPerFeedback \in Nat
        BY <1>3, <3>2, RefinementAssumption
      <4> HIDE DEF same
      <4>3. Cardinality(same \cup {n}) = Cardinality(same) + 1
        BY <3>1, <4>1, FS_AddElement
      <4>4. Cardinality(same') <= MaxPerFeedback
        BY <3>1, <4>1, <4>2, <4>3
      <4>5. QED
        BY <4>4 DEF same
    <3>3. CASE other # feedback
      <4>1. same' = same
        BY <1>1, <1>4, <3>3
      <4>2. QED
        BY <3>1, <4>1
    <3>4. QED
      BY <3>2, <3>3
  <2>3. QED
    BY <2>1, <2>2 DEF Counted
<1>10. ASSUME NEW i \in Ids' PROVE Attested(i)'
  <2>1. CASE i = n
    BY <1>1, <1>4, <2>1 DEF Attested, Results
  <2>2. CASE i # n
    BY <1>1, <1>2, <1>3, <2>2, AttestedStays DEF IInv
  <2>3. QED
    BY <2>1, <2>2
<1>11. ExecutedIsAnswered' /\ DoneIsQuiet'
  BY <1>1, <1>2, <1>3, <1>4 DEF IInv, ExecutedIsAnswered, DoneIsQuiet, At, InvocationsStay
<1>12. QED
  BY <1>5, <1>6, <1>7, <1>8, <1>9, <1>10, <1>11 DEF IInv

\* The step and the approval of a request are written for an attempt nobody is at.
LEMMA ProposeKeeps ==
  ASSUME IInv, Propose
  PROVE  IInv'
<1> DEFINE n == Len(attempts)
           row == [attempts[n] EXCEPT !.approval = "pending", !.step = "pending"]
<1>1. /\ n \in Ids /\ attempts[n].approval = "none"
      /\ \A f \in Executions : pc[f] \in Resting
      /\ request' = "proposed"
      /\ UNCHANGED <<task, enabled, pc, on, asked, answer, doubled, cut, begun, moves, crashes>>
  BY Positions DEF IInv, Shapes, OneTurn, RequestInv, Propose, execution, history, bounds
<1>2. InvocationsStay /\ \A v \in DOMAIN invocations : AnswerStays(v)
  BY InvocationsUntouched DEF IInv, Shapes, Propose
<1>3. attempts \in Seq(Attempt) /\ attempts[n] \in Attempt
  BY <1>1, RowType DEF IInv, Shapes, Types
<1>4. /\ row \in Attempt /\ row.status = attempts[n].status
      /\ row.feedback = attempts[n].feedback /\ row.approval = "pending"
  BY <1>3 DEF Attempt
<1>5. attempts' = [attempts EXCEPT ![n] = row]
  BY <1>3 DEF Propose
<1> HIDE DEF row
<1>6. /\ SameRows /\ SameStatus /\ NewApproval(n, "pending")
      /\ \A j \in Ids : j # n => attempts'[j].step = attempts[j].step
  BY <1>1, <1>3, <1>4, <1>5, RowReplaced DEF SameRows, SameStatus, NewApproval, Ids
<1> HIDE DEF n
<1>7. Shapes'
  BY <1>1, <1>6 DEF IInv, Shapes, Types, Maps, SameRows, Propose
<1>8. OneTurn' /\ RequestInv' /\ Pairs'
  BY <1>1 DEF IInv, Shapes, Maps, OneTurn, RequestInv, Pairs, Resting, Open
<1>9. ASSUME NEW f \in Executions PROVE Knows(f)'
  <2>1. Knows(f) /\ (pc[f] = "waiting" /\ on[f] \in Ids => on[f] # n)
    BY <1>1 DEF IInv, Knows
  <2>2. QED
    BY <1>1, <1>2, <1>6, <2>1, KnowsStays DEF RowsStay, SameRows, NewApproval
<1>10. OneActive' /\ Counted'
  BY <1>6, OneActiveStays, CountedStays DEF IInv
<1>11. ASSUME NEW i \in Ids' PROVE Attested(i)'
  BY <1>1, <1>2, <1>6, AttestedStays DEF IInv, SameRows, SameStatus
<1>12. ExecutedIsAnswered'
  BY <1>2, <1>6, ExecutedStays DEF IInv, SameRows, SameStatus, NewApproval
<1>13. DoneIsQuiet'
  BY <1>1 DEF IInv, DoneIsQuiet, At
<1>14. QED
  BY <1>7, <1>8, <1>9, <1>10, <1>11, <1>12, <1>13 DEF IInv

\* A crash ends every execution and remembers where they were.
LEMMA CrashKeeps ==
  ASSUME IInv, Crash
  PROVE  IInv'
<1>1. AttemptsKept
  BY Untouched DEF IInv, Shapes, Crash
<1>2. InvocationsStay /\ \A v \in DOMAIN invocations : AnswerStays(v)
  BY InvocationsUntouched DEF IInv, Shapes, Crash
<1>3. /\ cut \subseteq cut' /\ \A f \in Executions : pc[f] # "off" => on[f] \in cut'
      /\ cut' \subseteq Ids
      /\ pc' = [f \in Executions |-> "off"] /\ request' = "none" /\ crashes' = crashes + 1
      /\ UNCHANGED <<task, enabled, on, asked, answer, doubled, begun, moves>>
  BY DEF IInv, Shapes, Knows, Crash
<1>4. Shapes'
  BY <1>1, <1>3 DEF IInv, Shapes, Types, Maps, PCs, Resting, AttemptsKept, SameRows, Crash
<1>5. OneTurn' /\ RequestInv' /\ Pairs'
  BY <1>3 DEF OneTurn, RequestInv, Pairs, Resting, Open
<1>6. ASSUME NEW f \in Executions PROVE Knows(f)'
  BY <1>3 DEF Knows, Open, Told, Starting
<1>7. OneActive' /\ Counted'
  BY <1>1, OneActiveStays, CountedStays DEF IInv, AttemptsKept
<1>8. ASSUME NEW i \in Ids' PROVE Attested(i)'
  <2>1. i \in Ids /\ Attested(i) /\ attempts'[i].status = attempts[i].status
    BY <1>1 DEF IInv, AttemptsKept, SameRows, SameStatus
  <2>2. ASSUME attempts[i].status \in Results
        PROVE  \E v \in DOMAIN invocations' : Tells(v, i)'
    BY <1>2, <1>3, <2>1, <2>2, TellsStays DEF Attested, Open
  <2>3. ASSUME attempts[i].status = "running" PROVE i \in cut'
    BY <1>3, <2>1, <2>3 DEF Attested, Holding
  <2>4. QED
    BY <2>1, <2>2, <2>3 DEF Attested
<1>9. ExecutedIsAnswered'
  BY <1>1, <1>2, ExecutedStays DEF IInv, AttemptsKept, SameRows, SameStatus, SameApproval
<1>10. DoneIsQuiet'
  BY <1>3 DEF DoneIsQuiet, At
<1>11. QED
  BY <1>4, <1>5, <1>6, <1>7, <1>8, <1>9, <1>10 DEF IInv

-----------------------------------------------------------------------------
(* The specification keeps it *)

\* Nothing has been asked for at the start.
LEMMA InitInv == Init => IInv
<1> SUFFICES ASSUME Init PROVE IInv
  OBVIOUS
<1>1. Ids = {} /\ Len(attempts) = 0 /\ attempts \in Seq(Attempt) /\ invocations \in Seq(Invocation)
  BY DEF Init, Ids
<1>2. Shapes
  BY <1>1 DEF Init, Shapes, Types, Maps, PCs, Resting, TaskStatus, Answers
<1>3. OneTurn /\ RequestInv /\ Pairs /\ OneActive
  BY <1>1 DEF Init, OneTurn, RequestInv, Pairs, OneActive, Resting, Open
<1>4. \A e \in Executions : Knows(e)
  BY DEF Init, Knows, Open, Told, Starting
<1>5. Counted
  <2>1. ASSUME NEW feedback \in Feedbacks
        PROVE  Cardinality({i \in Ids : attempts[i].feedback = feedback}) = 0
    <3>1. {i \in Ids : attempts[i].feedback = feedback} = {}
      BY <1>1
    <3>2. QED
      BY <3>1, FS_EmptySet
  <2>2. QED
    BY <1>1, <2>1, RefinementAssumption DEF Counted
<1>6. (\A i \in Ids : Attested(i)) /\ ExecutedIsAnswered /\ DoneIsQuiet
  BY <1>1 DEF Init, ExecutedIsAnswered, DoneIsQuiet, At
<1>7. QED
  BY <1>2, <1>3, <1>4, <1>5, <1>6 DEF IInv

\* Every step of an execution keeps the invariant.
LEMMA ExecuteKeeps ==
  ASSUME IInv, NEW e \in Executions, Execute(e)
  PROVE  IInv'
<1>1. CASE \E k \in Ids : Begin(e, k)
  BY <1>1, BeginKeeps
<1>2. CASE MoveToRunning(e)
  BY <1>2, MoveToRunningKeeps
<1>3. CASE Prepare(e)
  BY <1>3, PrepareCallKeeps, PrepareStopKeeps
<1>4. CASE Send(e)
  BY <1>4, SendAskedKeeps, SendRefusedKeeps
<1>5. CASE \E heard \in Answers : Hear(e, heard)
  BY <1>5, HearKeeps
<1>6. CASE EndInvocation(e)
  BY <1>6, EndInvocationKeeps
<1>7. CASE Record(e)
  BY <1>7, RecordRefusedKeeps, RecordTakenKeeps
<1>8. CASE EndStep(e)
  BY <1>8, EndStepKeeps
<1>9. CASE Consume(e)
  BY <1>9, ConsumeTakenKeeps, ConsumeRefusedKeeps
<1>10. CASE Settle(e)
  BY <1>10, SettleKeeps
<1>11. CASE FailStep(e) \/ Block(e)
  BY <1>11, FailStepKeeps, BlockKeeps
<1>12. QED
  BY <1>1, <1>2, <1>3, <1>4, <1>5, <1>6, <1>7, <1>8, <1>9, <1>10, <1>11 DEF Execute

\* A step that changes nothing keeps it, too.
LEMMA StutterKeeps ==
  ASSUME IInv, UNCHANGED vars
  PROVE  IInv'
BY DEF IInv, Shapes, Types, Maps, OneTurn, RequestInv, Knows, Pairs, OneActive, Counted, Attested,
       Tells, ExecutedIsAnswered, DoneIsQuiet, At, Ids, vars, execution, history, bounds

\* Every step keeps the invariant.
LEMMA NextInv == IInv /\ [Next]_vars => IInv'
<1> SUFFICES ASSUME IInv, [Next]_vars PROVE IInv'
  OBVIOUS
<1>1. ASSUME NEW feedback \in Feedbacks, Request(feedback) PROVE IInv'
  BY <1>1, RequestKeeps
<1>2. CASE Propose \/ AwaitUser
  BY <1>2, ProposeKeeps, AwaitUserKeeps
<1>3. ASSUME NEW e \in Executions, Execute(e) PROVE IInv'
  BY <1>3, ExecuteKeeps
<1>4. ASSUME NEW i \in Ids, Approve(i) \/ Reject(i) PROVE IInv'
  BY <1>4, ApproveKeeps, RejectKeeps
<1>5. ASSUME NEW v \in DOMAIN invocations, CancelInvocation(v) PROVE IInv'
  BY <1>5, CancelInvocationKeeps
<1>6. ASSUME NEW status \in Moves, MoveTask(status) PROVE IInv'
  BY <1>6, MoveTaskKeeps
<1>7. CASE CancelTask \/ CompleteTaskRun \/ ToggleEndpoint \/ Crash
  BY <1>7, CancelTaskKeeps, CompleteTaskRunKeeps, ToggleEndpointKeeps, CrashKeeps
<1>8. CASE UNCHANGED vars
  BY <1>8, StutterKeeps
<1>9. QED
  BY <1>1, <1>2, <1>3, <1>4, <1>5, <1>6, <1>7, <1>8 DEF Next

\* The invariant holds in every reachable state.
THEOREM Invariant == Spec => []IInv
BY InitInv, NextInv, PTL DEF Spec

-----------------------------------------------------------------------------
(* What the runs check *)

\* One active attempt and the counts are the limits of the loop guard.
LEMMA LimitsFromInv ==
  ASSUME IInv
  PROVE  LimitsHold
<1>1. Len(attempts) <= MaxPerTask
  BY DEF IInv, Counted
<1>2. ASSUME NEW feedback \in Feedbacks
      PROVE  LET same == {i \in Ids : attempts[i].feedback = feedback} IN
             Cardinality({i \in same : attempts[i].status \notin
                            {"succeeded", "failed", "stopped", "cancelled"}}) <= 1
  <2> DEFINE active == {i \in {j \in Ids : attempts[j].feedback = feedback} :
                          attempts[i].status \notin {"succeeded", "failed", "stopped", "cancelled"}}
  <2>1. \A i \in active : i \in Ids /\ attempts[i].feedback = feedback /\ attempts[i].status \in Indexed
    BY RowType DEF IInv, Shapes, Attempt
  <2>2. \A i, j \in active : i = j
    BY <2>1 DEF IInv, OneActive
  <2> HIDE DEF active
  <2>3. active = {} \/ \E i : active = {i}
    BY <2>2
  <2>4. Cardinality(active) = 0 \/ Cardinality(active) = 1
    <3>1. CASE active = {}
      BY <3>1, FS_EmptySet
    <3>2. ASSUME NEW i, active = {i} PROVE Cardinality(active) = 1
      BY <3>2, FS_Singleton
    <3>3. QED
      BY <2>3, <3>1, <3>2
  <2>5. QED
    BY <2>4 DEF active
<1>3. QED
  BY <1>1, <1>2 DEF IInv, Counted, LimitsHold

\* The rows and executions have their shape, the limits of the loop guard hold for
\* any number of concurrent executions, no attempt is left running, and a task that is
\* done is not being asked about (evaluateA2ARefinementPolicy, the unique index,
\* runApprovedAttempt, completeTaskRun).
THEOREM LimitsAlwaysHold == Spec => []RefinementInv
<1>1. ASSUME IInv PROVE TypeOK
  BY <1>1 DEF IInv, Shapes, Knows, TypeOK, Open, Told
<1>2. ASSUME IInv PROVE AttemptsSettle
  BY <1>2 DEF IInv, Attested, AttemptsSettle, Holding
<1>3. IInv => RefinementInv
  BY <1>1, <1>2, LimitsFromInv DEF IInv, RefinementInv
<1>4. QED
  BY <1>3, Invariant, PTL

\* What attempts and approvals say of an answer is backed by an invocation, whichever
\* execution wrote last and wherever the process died (persistResult and the order
\* of the executor's writes).
THEOREM AnswersAlwaysBacked == Spec => []AnswersAreBacked
<1>1. IInv => AnswersAreBacked
  BY DEF IInv, Attested, Tells, AnswersAreBacked, ResultsAreBacked
<1>2. QED
  BY <1>1, Invariant, PTL

\* What an execution does to where it is, and what it leaves of the others.
LEMMA OthersStay ==
  ASSUME IInv, NEW e \in Executions, Execute(e), NEW f \in Executions, f # e
  PROVE  pc'[f] = pc[f]
<1>1. pc \in [Executions -> PCs]
  BY DEF IInv, Shapes, Maps
<1>2. CASE \E i \in Ids : Begin(e, i)
  BY <1>1, <1>2 DEF Begin, Goto
<1>3. CASE MoveToRunning(e)
  BY <1>1, <1>3 DEF MoveToRunning, Goto
<1>4. CASE Prepare(e)
  BY <1>1, <1>4 DEF Prepare, Goto
<1>5. CASE Send(e)
  BY <1>1, <1>5 DEF Send, Goto
<1>6. CASE \E heard \in Answers : Hear(e, heard)
  BY <1>1, <1>6 DEF Hear, Goto
<1>7. CASE EndInvocation(e)
  BY <1>1, <1>7 DEF EndInvocation, Goto
<1>8. CASE Record(e)
  BY <1>1, <1>8 DEF Record, Goto
<1>9. CASE EndStep(e)
  BY <1>1, <1>9 DEF EndStep, Goto
<1>10. CASE Consume(e)
  BY <1>1, <1>10 DEF Consume, Goto
<1>11. CASE Settle(e)
  BY <1>1, <1>11 DEF Settle, Goto
<1>12. CASE FailStep(e)
  BY <1>1, <1>12 DEF FailStep, Goto
<1>13. CASE Block(e)
  BY <1>1, <1>13 DEF Block, Goto
<1>14. QED
  BY <1>2, <1>3, <1>4, <1>5, <1>6, <1>7, <1>8, <1>9, <1>10, <1>11, <1>12, <1>13 DEF Execute

\* An execution comes to wait by sending only.
LEMMA OnlySendWaits ==
  ASSUME IInv, NEW e \in Executions, Execute(e), pc'[e] = "waiting"
  PROVE  Send(e)
<1>1. pc \in [Executions -> PCs]
  BY DEF IInv, Shapes, Maps
<1>2. ASSUME NEW i \in Ids PROVE ~Begin(e, i)
  BY <1>1 DEF Begin, Goto
<1>3. ~MoveToRunning(e)
  BY <1>1 DEF MoveToRunning, Goto
<1>4. ~Prepare(e)
  BY <1>1 DEF Prepare, Goto
<1>5. ASSUME NEW heard \in Answers PROVE ~Hear(e, heard)
  BY <1>1 DEF Hear, Goto
<1>6. ~EndInvocation(e)
  BY <1>1 DEF EndInvocation, Goto
<1>7. ~Record(e)
  <2>1. \A there : Goto(e, there) => pc'[e] = there
    BY <1>1 DEF Goto
  <2>2. QED
    BY <2>1 DEF Record
<1>8. ~EndStep(e)
  BY <1>1 DEF EndStep, Goto
<1>9. ~Consume(e)
  BY <1>1 DEF Consume, Goto
<1>10. ~Settle(e)
  BY <1>1 DEF Settle, Goto
<1>11. ~FailStep(e) /\ ~Block(e)
  BY <1>1 DEF FailStep, Block, Goto
<1>12. QED
  BY <1>2, <1>3, <1>4, <1>5, <1>6, <1>7, <1>8, <1>9, <1>10, <1>11 DEF Execute

\* What is not a step of an execution makes none of them wait.
LEMMA NobodyElseWaits ==
  ASSUME [Next]_vars, \A e \in Executions : ~Execute(e),
         NEW f \in Executions, pc'[f] = "waiting"
  PROVE  pc[f] = "waiting"
<1>1. \A feedback \in Feedbacks : Request(feedback) => pc' = pc
  BY DEF Request, execution
<1>2. Propose \/ AwaitUser => pc' = pc
  BY DEF Propose, AwaitUser, execution
<1>3. \A i \in Ids : Approve(i) \/ Reject(i) => pc' = pc
  BY DEF Approve, Reject, execution
<1>4. \A v \in DOMAIN invocations : CancelInvocation(v) => pc' = pc
  BY DEF CancelInvocation, execution
<1>5. CancelTask \/ CompleteTaskRun \/ ToggleEndpoint \/ UNCHANGED vars => pc' = pc
  BY DEF CancelTask, CompleteTaskRun, ToggleEndpoint, vars, execution
<1>6. \A status \in Moves : MoveTask(status) => pc' = pc
  BY DEF MoveTask, execution
<1>7. ~Crash
  BY DEF Crash
<1>8. QED
  BY <1>1, <1>2, <1>3, <1>4, <1>5, <1>6, <1>7 DEF Next

\* A send is made by an execution that has seen all it needs.
LEMMA SendConsents ==
  ASSUME IInv, NEW e \in Executions, Send(e), pc'[e] = "waiting"
  PROVE  /\ enabled /\ task \notin Closed
         /\ attempts[on[e]].approval = "approved"
         /\ attempts'[on[e]].status = "running"
<1>1. /\ Knows(e) /\ pc[e] = "prepared" /\ on[e] \in Ids /\ Types
      /\ pc \in [Executions -> PCs]
  BY DEF IInv, Shapes, Maps, Knows, Send, At
<1>2. enabled /\ task = "running" /\ attempts[on[e]].approval = "approved"
  BY <1>1 DEF Knows, Starting
<1>3. attempts' = WithStatus(on[e], "running")
  BY <1>1 DEF Send, Goto
<1>4. StatusWritten(on[e], "running")
  BY <1>1, <1>3, StatusWrite DEF WithStatus, Indexed
<1>5. QED
  BY <1>1, <1>2, <1>4 DEF StatusWritten, NewStatus, Closed

\* The remote agent is asked only under a granted approval, for an open task and at an
\* enabled endpoint, by an attempt on record as running (runApprovedAttempt).
THEOREM AlwaysAskedUnderConsent == Spec => AskedUnderConsent
<1> DEFINE consent(e) ==
      ~At(e, "waiting") /\ pc'[e] = "waiting" =>
        /\ enabled /\ task \notin Closed
        /\ attempts[on[e]].approval = "approved"
        /\ attempts'[on[e]].status = "running"
<1>1. ASSUME IInv, [Next]_vars, NEW e \in Executions, ~At(e, "waiting"), pc'[e] = "waiting"
      PROVE  Send(e)
  BY <1>1, NobodyElseWaits, OthersStay, OnlySendWaits DEF At
<1>2. IInv /\ [Next]_vars => \A e \in Executions : consent(e)
  BY <1>1, SendConsents
<1>3. QED
  BY <1>2, Invariant, PTL DEF Spec, AskedUnderConsent
=============================================================================
