----------------------- MODULE TaskProgressionProofs -----------------------
(***************************************************************************)
(* What TaskProgression keeps true for every list of approvals, every set  *)
(* of moves and every bound.                                               *)
(*                                                                         *)
(* IInv holds however the loop's awaits interleave.  TurnInv is what the   *)
(* synchronous gateway adds: between two real waits of the loop nobody     *)
(* else acts, so what it has read is still so.  RestInv says what is over  *)
(* when the loop stops, for a task with one orchestration plan.            *)
(***************************************************************************)
EXTENDS TaskProgression, WellFoundedInduction, FiniteSetTheorems, TLAPS

-----------------------------------------------------------------------------
(* The inductive invariants *)

\* Who executes an approval holds it approved, and a direct action claimed.
Owned ==
  \A a \in Rows : work[a] # "none" =>
    status[a] = "approved" /\ ~Advice(a) /\ (Plan(a) \/ exec[a] = "running")

\* A failure is recorded against a status the user has not chosen.
Recorded == pc = "blocking" => seen \notin Inactive

IInv == TypeOK /\ DoneIsSettled /\ Owned /\ Recorded

\* What the loop has decided is decided on the task and the approvals as they are.
Fresh ==
  /\ pc \in {"loaded", "approving", "executing", "blocking"} => seen = task
  /\ pc \in {"approving", "executing"} => ~Halted /\ cand = First /\ cand \in Rows
  /\ pc = "approving" => status[cand] = "pending"
  /\ pc = "executing" => status[cand] = "approved" /\ ~Advice(cand)

TurnInv == IInv /\ Fresh

\* A task has one orchestration plan.
OnePlan == \A a, b \in Rows : Plan(a) /\ Plan(b) => a = b

\* The user's call waits for an execution, or the loop does.
Awaited == \A a \in Rows : work[a] # "none" => asked[a] \/ (pc = "awaiting" /\ cand = a)

\* The loop works on no task that is being prepared.
Prep == held => pc \in {"off", "looped", "leaving"}

\* Agents propose actions for a task that has no orchestration plan.
InPlanning == pc \in {"planning", "proposing"}
Routed == (InPlanning \/ ready) => \A a \in Rows : ~Plan(a)

\* While a task is a draft, no agent has proposed anything unless planning does.
Draft ==
  task = "drafting" =>
    /\ \A a \in Rows : work[a] \notin {"between", "running"}
    /\ ~InPlanning => \A a \in Rows \ Prepared : status[a] = "absent"
    /\ ~held => \A a \in Rows : ~Plan(a)

\* Planning is tried once, and then the task has an invocation.
PlannedOnce == <<0>> \in attempted => planned

\* A task that comes to its gate has nothing to decide or to execute.
ToBeJudged == task = "ready_for_review" /\ ~judged
Ripe == ToBeJudged /\ ~InPlanning =>
          \A a \in Rows : ~Advice(a) => status[a] \notin {"pending", "approved"}

\* At the gate nothing is open, and only the gate or the user ends it.
AtGate ==
  pc \in {"quality", "closing"} =>
    /\ \A a \in Rows : ~Unresolved(a)
    /\ task \in {"ready_for_review"} \cup Closed
    /\ pc = "closing" => judged

\* No failure is recorded of a task that waits for its gate.
Failed == pc \in {"thrown", "failing", "blocking"} => ~ToBeJudged

\* Nothing the loop would do is left.
NothingLeft ==
  /\ First # 0 /\ task # "ready_for_review" => ~CanHandle(First) \/ <<First, status, exec>> \in attempted
  /\ First = 0 /\ task = "drafting" => ~ready \/ planned
  /\ First = 0 /\ task = "ready_for_review" => judged

\* The loop has nothing noted, and nobody else will wake it.
Idle == pc \in {"leaving", "off"} \/ (pc = "looped" /\ ~requested)
Quiet == Idle /\ ~stopping /\ ~held /\ (\A a \in Rows : work[a] = "none") /\ task \notin Stopped

Rested == Quiet => NothingLeft

RestInv ==
  /\ TurnInv
  /\ Awaited /\ Prep /\ Routed /\ Draft /\ PlannedOnce /\ Ripe /\ AtGate /\ Failed /\ Rested

-----------------------------------------------------------------------------
(* Lemmas about what the loop looks at *)

LEMMA Numbers == Rows \subseteq Nat \ {0}
  BY ProgressionAssumption DEF ProgressionAssumption, Rows

LEMMA Kinds == \A a \in Rows : Kind[a] \in {"advice", "plan", "file", "shell"}
  BY ProgressionAssumption DEF ProgressionAssumption, Rows

LEMMA MinOfNumbers ==
  ASSUME NEW S, S \subseteq Nat, S # {}
  PROVE  Min(S) \in S /\ \A y \in S : Min(S) <= y
<1> DEFINE Below == {1..x : x \in S}
           Less == StrictSubsetOrdering(Nat)
<1>1. \A x \in S : 1..x \in FiniteSubsetsOf(Nat)
  BY FS_Interval DEF FiniteSubsetsOf
<1>2. Below \subseteq FiniteSubsetsOf(Nat) /\ Below # {}
  BY <1>1
<1>3. IsWellFoundedOn(Less, FiniteSubsetsOf(Nat))
  BY FS_StrictSubsetOrderingWellFounded
<1>4. \E b \in Below : \A c \in Below : <<c, b>> \notin Less
  <2> HIDE DEF Below, Less
  <2> QED
    BY <1>2, <1>3, WFMin
<1>5. PICK x \in S : \A y \in S : <<1..y, 1..x>> \notin Less
  BY <1>4
<1>6. \A y \in S : x <= y
  <2> SUFFICES ASSUME NEW y \in S, y < x
               PROVE  FALSE
    OBVIOUS
  <2>1. x \in Nat /\ y \in Nat
    OBVIOUS
  <2>2. 1..y \subseteq 1..x /\ x \in 1..x /\ x \notin 1..y
    BY <2>1
  <2>3. 1..y # 1..x
    BY <2>2
  <2>4. <<1..y, 1..x>> \in (SUBSET Nat) \X (SUBSET Nat)
    BY <2>1
  <2>5. <<1..y, 1..x>> \in Less
    BY <2>2, <2>3, <2>4 DEF StrictSubsetOrdering
  <2> QED
    BY <2>5, <1>5
<1> QED
  BY <1>6 DEF Min

\* The first open approval is open, and a child as long as a child is open.
LEMMA FirstOpen ==
  /\ First = 0 <=> \A a \in Rows : ~Unresolved(a)
  /\ First # 0 => First \in Rows /\ Unresolved(First)
  /\ First # 0 => \A b \in Children : Unresolved(b) => First \in Children /\ First <= b
  /\ First \in Rows \cup {0}
<1> DEFINE open == {a \in Rows : Unresolved(a)}
<1>0. Rows \subseteq Nat /\ 0 \notin Rows
  BY Numbers
<1>1. CASE open = {}
  <2>1. First = 0
    BY <1>1 DEF First
  <2> QED
    BY <1>1, <2>1
<1>2. CASE open # {}
  <2> DEFINE S == Ordered(open)
  <2>1. First = Min(S)
    BY <1>2 DEF First
  <2>2. S \subseteq open /\ S # {} /\ (open \cap Children # {} => S = open \cap Children)
    BY <1>2 DEF Ordered
  <2>3. S \subseteq Nat
    BY <2>2, <1>0
  <2>4. Min(S) \in S /\ \A y \in S : Min(S) <= y
    BY <2>2, <2>3, MinOfNumbers
  <2>5. First \in open
    BY <2>1, <2>2, <2>4
  <2>6. First \in Rows /\ Unresolved(First) /\ First # 0
    BY <2>5, <1>0
  <2>7. \A b \in Children : Unresolved(b) => First \in Children /\ First <= b
    <3> SUFFICES ASSUME NEW b \in Children, Unresolved(b)
                 PROVE  First \in Children /\ First <= b
      OBVIOUS
    <3>1. b \in open \cap Children
      BY DEF Children
    <3>2. S = open \cap Children
      BY <3>1, <2>2
    <3> QED
      BY <3>1, <3>2, <2>1, <2>4
  <2> QED
    BY <2>6, <2>7
<1> QED
  BY <1>1, <1>2

-----------------------------------------------------------------------------
(* Lemmas about what the other actors do to the loop *)

\* A change is noted, and starts the loop when it is off.
Noted ==
  /\ seen' = seen /\ cand' = cand
  /\ pc' \in PC /\ requested' \in BOOLEAN
  /\ \/ pc' = pc /\ attempted' = attempted
     \/ pc = "off" /\ pc' = "looped" /\ attempted' = {}
  /\ pc = "off" /\ ~stopping => pc' = "looped"
  /\ stopping => requested' = requested
  /\ ~stopping => requested' = TRUE

LEMMA Notes ==
  ASSUME TypeOK, Publish
  PROVE  Noted
<1>1. pc \in PC /\ requested \in BOOLEAN
  BY DEF TypeOK
<1>2. CASE stopping
  <2>1. UNCHANGED <<pc, memory>> /\ UNCHANGED <<seen, cand>>
    BY <1>2 DEF Publish, Wake
  <2>2. pc' = pc /\ attempted' = attempted /\ requested' = requested /\ seen' = seen /\ cand' = cand
    BY <2>1 DEF memory
  <2>3. pc' \in PC /\ requested' \in BOOLEAN
    BY <1>1, <2>2
  <2> QED
    BY <1>2, <2>2, <2>3, Zenon DEF Noted
<1>3. CASE ~stopping
  <2>1. requested' = TRUE /\ seen' = seen /\ cand' = cand
    BY <1>3 DEF Publish, Wake
  <2>2. IF pc = "off" THEN pc' = "looped" /\ attempted' = {} ELSE UNCHANGED <<pc, attempted>>
    BY <1>3 DEF Publish, Wake
  <2>3. "looped" \in PC
    BY DEF PC
  <2>4. \/ pc' = pc /\ attempted' = attempted
        \/ pc = "off" /\ pc' = "looped" /\ attempted' = {}
    BY <2>2, Zenon
  <2>5. pc = "off" => pc' = "looped"
    BY <2>2, Zenon
  <2>6. pc' \in PC
    BY <1>1, <2>3, <2>4, Zenon
  <2>7. requested' \in BOOLEAN
    BY <2>1
  <2> QED
    BY <1>3, <2>1, <2>4, <2>5, <2>6, <2>7, Zenon DEF Noted
<1> QED
  BY <1>2, <1>3

\* An execution ends: the loop that waits for it goes on or into its catch
\* block, and a call of the user's that is answered is noted.
Answered(a, ok) ==
  /\ pc = "awaiting" /\ cand = a
  /\ pc' = IF ok THEN Resume ELSE "thrown"
  /\ seen' = seen /\ cand' = cand /\ attempted' = attempted
  /\ pc' \in PC /\ requested' \in BOOLEAN

Unheard == UNCHANGED loop /\ pc' \in PC /\ requested' \in BOOLEAN

LEMMA Ends ==
  ASSUME TypeOK, NEW a \in Rows, NEW ok \in BOOLEAN, End(a, ok)
  PROVE  /\ work' = [work EXCEPT ![a] = "none"]
         /\ asked' = [asked EXCEPT ![a] = FALSE]
         /\ UNCHANGED <<auto, held, ready, planned, stopping, moves>>
         /\ \/ Answered(a, ok)
            \/ ~(pc = "awaiting" /\ cand = a) /\ asked[a] /\ (ok \/ ~Plan(a)) /\ Noted
            \/ ~(pc = "awaiting" /\ cand = a) /\ ~(asked[a] /\ (ok \/ ~Plan(a))) /\ Unheard
<1>1. /\ work' = [work EXCEPT ![a] = "none"]
      /\ asked' = [asked EXCEPT ![a] = FALSE]
      /\ UNCHANGED <<auto, held, ready, planned, stopping, moves>>
      /\ seen' = seen /\ cand' = cand
  BY DEF End, host
<1>2. pc \in PC /\ requested \in BOOLEAN /\ stopping \in BOOLEAN /\ asked[a] \in BOOLEAN
  BY DEF TypeOK
<1> DEFINE publishes == asked[a] /\ (ok \/ ~Plan(a))
<1>3. CASE pc = "awaiting" /\ cand = a
  <2>1. pc' = (IF ok THEN Resume ELSE "thrown") /\ attempted' = attempted
    BY <1>3 DEF End
  <2>2. requested' = (requested \/ (publishes /\ ~stopping))
    BY <1>3 DEF End
  <2>3. pc' \in PC
    BY <2>1 DEF Resume, PC
  <2> QED
    BY <1>1, <1>2, <1>3, <2>1, <2>2, <2>3 DEF Answered
<1>4. CASE ~(pc = "awaiting" /\ cand = a) /\ publishes
  <2>1. Wake
    BY <1>4 DEF End
  <2>2. Publish
    BY <2>1, <1>1 DEF Publish
  <2> QED
    BY <1>1, <1>4, <2>2, Notes
<1>5. CASE ~(pc = "awaiting" /\ cand = a) /\ ~publishes
  <2>1. UNCHANGED <<pc, memory>>
    BY <1>5 DEF End
  <2> QED
    BY <1>1, <1>2, <1>5, <2>1 DEF Unheard, loop, memory
<1> QED
  BY <1>3, <1>4, <1>5

-----------------------------------------------------------------------------
(* IInv is inductive *)


\* The types of the rows, of the flags and of the loop.
RowTypes ==
  /\ task \in TaskStatus
  /\ status \in [Rows -> {"absent", "pending", "approved", "rejected", "executed"}]
  /\ exec \in [Rows -> {"none", "running", "succeeded", "failed", "uncertain"}]
  /\ work \in [Rows -> {"none", "claimed", "between", "running"}]
  /\ asked \in [Rows -> BOOLEAN]

FlagTypes == <<auto, held, ready, planned, judged>> \in BOOLEAN \X BOOLEAN \X BOOLEAN \X BOOLEAN \X BOOLEAN

LoopTypes ==
  /\ pc \in PC /\ seen \in TaskStatus /\ cand \in Rows \cup {0}
  /\ requested \in BOOLEAN /\ stopping \in BOOLEAN

LEMMA InvInit == Init => IInv
<1> SUFFICES ASSUME Init
             PROVE  IInv
  OBVIOUS
<1>1. RowTypes /\ FlagTypes
  BY DEF Init, RowTypes, FlagTypes, TaskStatus
<1>2. LoopTypes
  BY DEF Init, LoopTypes, TaskStatus, PC, Waits
<1>3. moves \in 0..MaxMoves
  BY ProgressionAssumption DEF Init, ProgressionAssumption
<1>4. DoneIsSettled /\ Owned /\ Recorded
  BY DEF Init, DoneIsSettled, Owned, Recorded
<1> QED
  BY <1>1, <1>2, <1>3, <1>4 DEF IInv, TypeOK, RowTypes, FlagTypes, LoopTypes

\* Every step keeps it.
LEMMA InvStep == IInv /\ [Next]_vars => IInv'
<1> SUFFICES ASSUME IInv, [Next]_vars
             PROVE  IInv'
  OBVIOUS
<1> USE FirstOpen, Numbers
<1>0. TypeOK
  BY DEF IInv
<1> USE DEF IInv, TypeOK, DoneIsSettled, Owned, Recorded, PC, Waits, Unresolved, Advice, Plan, TaskStatus,
            Closed, Inactive, approvals, host, memory, loop, RowTypes, FlagTypes, LoopTypes
<1>1. CASE Iterate
  <2>1. /\ pc' \in {"looped", "loading", "leaving"} /\ requested' \in BOOLEAN
        /\ UNCHANGED <<task, approvals, host, judged, seen, cand, attempted, stopping, moves>>
    BY <1>1 DEF Iterate, Resume
  <2> QED
    BY <2>1
<1>2. CASE Leave
  BY ZenonT(40), <1>2 DEF Leave
<1>3. CASE LoadTask
  BY <1>3 DEF LoadTask
<1>4. CASE Decide
  BY <1>4 DEF Decide, NextPoint
<1>5. CASE AutoApprove
  BY <1>5 DEF AutoApprove, Resume
<1>6. CASE Execute
  BY <1>6 DEF Execute, CanStart, Start
<1>7. CASE Refuse
  BY <1>7 DEF Refuse
<1>8. CASE Catch
  BY <1>8 DEF Catch
<1>9. CASE RecordFailure
  BY <1>9 DEF RecordFailure
<1>10. CASE Block
  BY <1>10 DEF Block
<1>11. ASSUME NEW a \in Rows, PlanningProposes(a) PROVE IInv'
  BY <1>11 DEF PlanningProposes, Create
<1>12. CASE PlanningEnds
  <2>1. RowTypes'
    BY <1>12 DEF PlanningEnds, SetTask, Resume, TypeOK
  <2>2. FlagTypes'
    BY <1>12 DEF PlanningEnds, SetTask, Resume, TypeOK
  <2>3. LoopTypes'
    BY <1>12 DEF PlanningEnds, SetTask, Resume, TypeOK
  <2>4. moves' \in 0..MaxMoves
    BY <1>12, ProgressionAssumption DEF PlanningEnds, SetTask, Resume, TypeOK, ProgressionAssumption
  <2>5. DoneIsSettled'
    BY <1>12 DEF PlanningEnds, SetTask, Resume, TypeOK
  <2>6. Owned'
    BY <1>12 DEF PlanningEnds, SetTask, Resume, TypeOK
  <2>7. Recorded'
    BY <1>12 DEF PlanningEnds, SetTask, Resume, TypeOK
  <2> QED
    BY <2>1, <2>2, <2>3, <2>4, <2>5, <2>6, <2>7 DEF TypeOK
<1>13. CASE PlanningFails
  BY <1>13 DEF PlanningFails
<1>14. ASSUME NEW a \in Rows, Recover(a) PROVE IInv'
  <2>1. RowTypes'
    BY <1>14 DEF Recover, Retire, Retired, Prepared, Resume, TypeOK
  <2>2. FlagTypes'
    BY <1>14 DEF Recover, Retire, Retired, Prepared, Resume, TypeOK
  <2>3. LoopTypes'
    BY <1>14 DEF Recover, Retire, Retired, Prepared, Resume, TypeOK
  <2>4. moves' \in 0..MaxMoves
    BY <1>14, ProgressionAssumption DEF Recover, Retire, Retired, Prepared, Resume, TypeOK, ProgressionAssumption
  <2>5. DoneIsSettled'
    BY <1>14 DEF Recover, Retire, Retired, Prepared, Resume, TypeOK
  <2>6. Owned'
    BY <1>14 DEF Recover, Retire, Retired, Prepared, Resume, TypeOK
  <2>7. Recorded'
    BY <1>14 DEF Recover, Retire, Retired, Prepared, Resume, TypeOK
  <2> QED
    BY <2>1, <2>2, <2>3, <2>4, <2>5, <2>6, <2>7 DEF TypeOK
<1>15. CASE NotRecovered
  <2>1. RowTypes'
    BY <1>15 DEF NotRecovered, Retire, Retired, Prepared, TypeOK
  <2>2. FlagTypes'
    BY <1>15 DEF NotRecovered, Retire, Retired, Prepared, TypeOK
  <2>3. LoopTypes'
    BY <1>15 DEF NotRecovered, Retire, Retired, Prepared, TypeOK
  <2>4. moves' \in 0..MaxMoves
    BY <1>15, ProgressionAssumption DEF NotRecovered, Retire, Retired, Prepared, TypeOK, ProgressionAssumption
  <2>5. DoneIsSettled'
    BY <1>15 DEF NotRecovered, Retire, Retired, Prepared, TypeOK
  <2>6. Owned'
    BY <1>15 DEF NotRecovered, Retire, Retired, Prepared, TypeOK
  <2>7. Recorded'
    BY <1>15 DEF NotRecovered, Retire, Retired, Prepared, TypeOK
  <2> QED
    BY <2>1, <2>2, <2>3, <2>4, <2>5, <2>6, <2>7 DEF TypeOK
<1>16. CASE Skip
  BY <1>16 DEF Skip
<1>17. ASSUME NEW v \in {"passed", "warning", "failed"}, Judge(v) PROVE IInv'
  <2>1. RowTypes'
    BY <1>17 DEF Judge, TypeOK
  <2>2. FlagTypes'
    BY <1>17 DEF Judge, TypeOK
  <2>3. LoopTypes'
    BY <1>17 DEF Judge, TypeOK
  <2>4. moves' \in 0..MaxMoves
    BY <1>17, ProgressionAssumption DEF Judge, TypeOK, ProgressionAssumption
  <2>5. DoneIsSettled'
    BY <1>17 DEF Judge, TypeOK
  <2>6. Owned'
    BY <1>17 DEF Judge, TypeOK
  <2>7. Recorded'
    BY <1>17 DEF Judge, TypeOK
  <2> QED
    BY <2>1, <2>2, <2>3, <2>4, <2>5, <2>6, <2>7 DEF TypeOK
<1>18. CASE EvaluationThrows
  <2>1. RowTypes'
    BY <1>18 DEF EvaluationThrows, TypeOK
  <2>2. FlagTypes'
    BY <1>18 DEF EvaluationThrows, TypeOK
  <2>3. LoopTypes'
    BY <1>18 DEF EvaluationThrows, TypeOK
  <2>4. moves' \in 0..MaxMoves
    BY <1>18, ProgressionAssumption DEF EvaluationThrows, TypeOK, ProgressionAssumption
  <2>5. DoneIsSettled'
    BY <1>18 DEF EvaluationThrows, TypeOK
  <2>6. Owned'
    BY <1>18 DEF EvaluationThrows, TypeOK
  <2>7. Recorded'
    BY <1>18 DEF EvaluationThrows, TypeOK
  <2> QED
    BY <2>1, <2>2, <2>3, <2>4, <2>5, <2>6, <2>7 DEF TypeOK
<1>19. CASE MarkDone
  BY <1>19 DEF MarkDone, Settled, Busy
<1>20. ASSUME NEW a \in Rows, Begin(a) PROVE IInv'
  BY <1>20 DEF Begin, Running
<1>21. ASSUME NEW a \in Rows, Succeed(a) PROVE IInv'
  <2>1. End(a, TRUE)
    BY <1>21 DEF Succeed
  <2> HIDE DEF TypeOK
  <2>2. /\ work' = [work EXCEPT ![a] = "none"]
        /\ asked' = [asked EXCEPT ![a] = FALSE]
        /\ UNCHANGED <<auto, held, ready, planned, stopping, moves, seen, cand>>
        /\ pc' \in PC /\ requested' \in BOOLEAN
        /\ pc' = "blocking" => pc = "blocking"
    BY <2>1, <1>0, Ends DEF Answered, Noted, Unheard, Resume
  <2>3. RowTypes'
    BY <2>2, <1>21 DEF Succeed, SetTask, RunnerUnresolved, TypeOK
  <2>4. FlagTypes'
    BY <2>2, <1>21 DEF Succeed, SetTask, RunnerUnresolved, TypeOK
  <2>5. LoopTypes'
    BY <2>2, <1>21 DEF Succeed, SetTask, RunnerUnresolved, TypeOK
  <2>6. moves' \in 0..MaxMoves
    BY <2>2, <1>21, ProgressionAssumption DEF Succeed, SetTask, RunnerUnresolved, TypeOK, ProgressionAssumption
  <2>7. DoneIsSettled'
    BY <2>2, <1>21 DEF Succeed, SetTask, RunnerUnresolved, TypeOK
  <2>8. Owned'
    BY <2>2, <1>21 DEF Succeed, SetTask, RunnerUnresolved, TypeOK
  <2>9. Recorded'
    BY <2>2, <1>21 DEF Succeed, SetTask, RunnerUnresolved, TypeOK
  <2> QED
    BY <2>3, <2>4, <2>5, <2>6, <2>7, <2>8, <2>9 DEF TypeOK
<1>22. ASSUME NEW a \in Rows, NEW ok \in BOOLEAN, Fail(a, ok) PROVE IInv'
  <2>1. End(a, FALSE)
    BY <1>22 DEF Fail
  <2> HIDE DEF TypeOK
  <2>2. /\ work' = [work EXCEPT ![a] = "none"]
        /\ asked' = [asked EXCEPT ![a] = FALSE]
        /\ UNCHANGED <<auto, held, ready, planned, stopping, moves, seen, cand>>
        /\ pc' \in PC /\ requested' \in BOOLEAN
        /\ pc' = "blocking" => pc = "blocking"
    BY <2>1, <1>0, Ends DEF Answered, Noted, Unheard, Resume
  <2> QED
    BY <2>2, <1>22 DEF Fail, TypeOK
<1>23. ASSUME NEW a \in Rows, PlanRefused(a) PROVE IInv'
  <2>1. End(a, FALSE)
    BY <1>23 DEF PlanRefused
  <2> HIDE DEF TypeOK
  <2>2. /\ work' = [work EXCEPT ![a] = "none"]
        /\ asked' = [asked EXCEPT ![a] = FALSE]
        /\ UNCHANGED <<auto, held, ready, planned, stopping, moves, seen, cand>>
        /\ pc' \in PC /\ requested' \in BOOLEAN
        /\ pc' = "blocking" => pc = "blocking"
    BY <2>1, <1>0, Ends DEF Answered, Noted, Unheard, Resume
  <2> QED
    BY <2>2, <1>23 DEF PlanRefused, TypeOK
<1>24. ASSUME NEW a \in Rows, PlanPaused(a) PROVE IInv'
  <2>1. End(a, TRUE)
    BY <1>24 DEF PlanPaused
  <2> HIDE DEF TypeOK
  <2>2. /\ work' = [work EXCEPT ![a] = "none"]
        /\ asked' = [asked EXCEPT ![a] = FALSE]
        /\ UNCHANGED <<auto, held, ready, planned, stopping, moves, seen, cand>>
        /\ pc' \in PC /\ requested' \in BOOLEAN
        /\ pc' = "blocking" => pc = "blocking"
    BY <2>1, <1>0, Ends DEF Answered, Noted, Unheard, Resume
  <2> QED
    BY <2>2, <1>24 DEF PlanPaused, TypeOK
<1>25. ASSUME NEW a \in Rows, PlanWaits(a) PROVE IInv'
  <2>1. End(a, TRUE)
    BY <1>25 DEF PlanWaits
  <2> HIDE DEF TypeOK
  <2>2. /\ work' = [work EXCEPT ![a] = "none"]
        /\ asked' = [asked EXCEPT ![a] = FALSE]
        /\ UNCHANGED <<auto, held, ready, planned, stopping, moves, seen, cand>>
        /\ pc' \in PC /\ requested' \in BOOLEAN
        /\ pc' = "blocking" => pc = "blocking"
    BY <2>1, <1>0, Ends DEF Answered, Noted, Unheard, Resume
  <2> QED
    BY <2>2, <1>25 DEF PlanWaits, TypeOK
<1>26. ASSUME NEW a \in Rows, PlanBegins(a) PROVE IInv'
  BY <1>26 DEF PlanBegins
<1>27. ASSUME NEW a \in Rows, WorkerBegins(a) PROVE IInv'
  BY <1>27 DEF WorkerBegins, Running
<1>28. ASSUME NEW a \in Rows, NEW b \in Rows, WorkerEnds(a, b) PROVE IInv'
  <2> HIDE DEF TypeOK
  <2>1. Publish => Noted
    BY <1>0, Notes
  <2> QED
    BY <2>1, <1>28 DEF WorkerEnds, Create, Noted, TypeOK
<1>29. ASSUME NEW a \in Rows, NEW more \in BOOLEAN, PlanEnds(a, more) PROVE IInv'
  <2>1. End(a, TRUE)
    BY <1>29 DEF PlanEnds
  <2> HIDE DEF TypeOK
  <2>2. /\ work' = [work EXCEPT ![a] = "none"]
        /\ asked' = [asked EXCEPT ![a] = FALSE]
        /\ UNCHANGED <<auto, held, ready, planned, stopping, moves, seen, cand>>
        /\ pc' \in PC /\ requested' \in BOOLEAN
        /\ pc' = "blocking" => pc = "blocking"
    BY <2>1, <1>0, Ends DEF Answered, Noted, Unheard, Resume
  <2> QED
    BY <2>2, <1>29 DEF PlanEnds, SetTask, TypeOK
<1>30. ASSUME NEW a \in Rows, NEW thrown \in BOOLEAN, PlanFails(a, thrown) PROVE IInv'
  <2>1. End(a, ~thrown)
    BY <1>30 DEF PlanFails
  <2> HIDE DEF TypeOK
  <2>2. /\ work' = [work EXCEPT ![a] = "none"]
        /\ asked' = [asked EXCEPT ![a] = FALSE]
        /\ UNCHANGED <<auto, held, ready, planned, stopping, moves, seen, cand>>
        /\ pc' \in PC /\ requested' \in BOOLEAN
        /\ pc' = "blocking" => pc = "blocking"
    BY <2>1, <1>0, Ends DEF Answered, Noted, Unheard, Resume
  <2> QED
    BY <2>2, <1>30 DEF PlanFails, TypeOK
<1>31. ASSUME NEW a \in Rows, Propose(a) PROVE IInv'
  BY <1>31 DEF Propose, Create
<1>32. CASE Release
  <2> HIDE DEF TypeOK
  <2>1. Publish => Noted
    BY <1>0, Notes
  <2>2. RowTypes'
    BY <2>1, <1>32 DEF Release, Noted, TypeOK
  <2>3. FlagTypes'
    BY <2>1, <1>32 DEF Release, Noted, TypeOK
  <2>4. LoopTypes'
    BY <2>1, <1>32 DEF Release, Noted, TypeOK
  <2>5. moves' \in 0..MaxMoves
    BY <2>1, <1>32, ProgressionAssumption DEF Release, Noted, TypeOK, ProgressionAssumption
  <2>6. DoneIsSettled'
    BY <2>1, <1>32 DEF Release, Noted, TypeOK
  <2>7. Owned'
    BY <2>1, <1>32 DEF Release, Noted, TypeOK
  <2>8. Recorded'
    BY <2>1, <1>32 DEF Release, Noted, TypeOK
  <2> QED
    BY <2>2, <2>3, <2>4, <2>5, <2>6, <2>7, <2>8 DEF TypeOK
<1>33. CASE PreparationFails
  <2> HIDE DEF TypeOK
  <2>1. Publish => Noted
    BY <1>0, Notes
  <2>2. RowTypes'
    BY <2>1, <1>33 DEF PreparationFails, Noted, TypeOK
  <2>3. FlagTypes'
    BY <2>1, <1>33 DEF PreparationFails, Noted, TypeOK
  <2>4. LoopTypes'
    BY <2>1, <1>33 DEF PreparationFails, Noted, TypeOK
  <2>5. moves' \in 0..MaxMoves
    BY <2>1, <1>33, ProgressionAssumption DEF PreparationFails, Noted, TypeOK, ProgressionAssumption
  <2>6. DoneIsSettled'
    BY <2>1, <1>33 DEF PreparationFails, Noted, TypeOK
  <2>7. Owned'
    BY <2>1, <1>33 DEF PreparationFails, Noted, TypeOK
  <2>8. Recorded'
    BY <2>1, <1>33 DEF PreparationFails, Noted, TypeOK
  <2> QED
    BY <2>2, <2>3, <2>4, <2>5, <2>6, <2>7, <2>8 DEF TypeOK
<1>34. ASSUME NEW a \in Rows, Approve(a) PROVE IInv'
  <2> HIDE DEF TypeOK
  <2>1. Publish => Noted
    BY <1>0, Notes
  <2> QED
    BY <2>1, <1>34 DEF Approve, Noted, TypeOK
<1>35. ASSUME NEW a \in Rows, Reject(a) PROVE IInv'
  <2> HIDE DEF TypeOK
  <2>1. Publish => Noted
    BY <1>0, Notes
  <2> QED
    BY <2>1, <1>35 DEF Reject, Noted, TypeOK
<1>36. ASSUME NEW a \in Rows, ExecuteApproved(a) PROVE IInv'
  <2>1. RowTypes'
    BY <1>36 DEF ExecuteApproved, Move, CanStart, Start, TypeOK
  <2>2. FlagTypes'
    BY <1>36 DEF ExecuteApproved, Move, CanStart, Start, TypeOK
  <2>3. LoopTypes'
    BY <1>36 DEF ExecuteApproved, Move, CanStart, Start, TypeOK
  <2>4. moves' \in 0..MaxMoves
    BY <1>36, ProgressionAssumption DEF ExecuteApproved, Move, CanStart, Start, TypeOK, ProgressionAssumption
  <2>5. DoneIsSettled'
    BY <1>36 DEF ExecuteApproved, Move, CanStart, Start, TypeOK
  <2>6. Owned'
    BY <1>36 DEF ExecuteApproved, Move, CanStart, Start, TypeOK
  <2>7. Recorded'
    BY <1>36 DEF ExecuteApproved, Move, CanStart, Start, TypeOK
  <2> QED
    BY <2>1, <2>2, <2>3, <2>4, <2>5, <2>6, <2>7 DEF TypeOK
<1>37. CASE PauseTask
  <2> HIDE DEF TypeOK
  <2>1. Publish => Noted
    BY <1>0, Notes
  <2>2. RowTypes'
    BY <2>1, <1>37 DEF PauseTask, Move, Noted, TypeOK
  <2>3. FlagTypes'
    BY <2>1, <1>37 DEF PauseTask, Move, Noted, TypeOK
  <2>4. LoopTypes'
    BY <2>1, <1>37 DEF PauseTask, Move, Noted, TypeOK
  <2>5. moves' \in 0..MaxMoves
    BY <2>1, <1>37, ProgressionAssumption DEF PauseTask, Move, Noted, TypeOK, ProgressionAssumption
  <2>6. DoneIsSettled'
    BY <2>1, <1>37 DEF PauseTask, Move, Noted, TypeOK
  <2>7. Owned'
    BY <2>1, <1>37 DEF PauseTask, Move, Noted, TypeOK
  <2>8. Recorded'
    BY <2>1, <1>37 DEF PauseTask, Move, Noted, TypeOK
  <2> QED
    BY <2>2, <2>3, <2>4, <2>5, <2>6, <2>7, <2>8 DEF TypeOK
<1>38. CASE ResumeTask
  <2> HIDE DEF TypeOK
  <2>1. Publish => Noted
    BY <1>0, Notes
  <2> QED
    BY <2>1, <1>38 DEF ResumeTask, Noted, TypeOK
<1>39. CASE CompleteTask
  <2> HIDE DEF TypeOK
  <2>1. Publish => Noted
    BY <1>0, Notes
  <2> QED
    BY <2>1, <1>39 DEF CompleteTask, Settled, Busy, Noted, TypeOK
<1>40. CASE CancelTask
  <2> HIDE DEF TypeOK
  <2>1. Publish => Noted
    BY <1>0, Notes
  <2>2. RowTypes'
    BY <2>1, <1>40 DEF CancelTask, Move, Noted, TypeOK
  <2>3. FlagTypes'
    BY <2>1, <1>40 DEF CancelTask, Move, Noted, TypeOK
  <2>4. LoopTypes'
    BY <2>1, <1>40 DEF CancelTask, Move, Noted, TypeOK
  <2>5. moves' \in 0..MaxMoves
    BY <2>1, <1>40, ProgressionAssumption DEF CancelTask, Move, Noted, TypeOK, ProgressionAssumption
  <2>6. DoneIsSettled'
    BY <2>1, <1>40 DEF CancelTask, Move, Noted, TypeOK
  <2>7. Owned'
    BY <2>1, <1>40 DEF CancelTask, Move, Noted, TypeOK
  <2>8. Recorded'
    BY <2>1, <1>40 DEF CancelTask, Move, Noted, TypeOK
  <2> QED
    BY <2>2, <2>3, <2>4, <2>5, <2>6, <2>7, <2>8 DEF TypeOK
<1>41. CASE Toggle
  <2> HIDE DEF TypeOK
  <2>1. Publish => Noted
    BY <1>0, Notes
  <2>2. RowTypes'
    BY <2>1, <1>41 DEF Toggle, Move, Noted, TypeOK
  <2>3. FlagTypes'
    BY <2>1, <1>41 DEF Toggle, Move, Noted, TypeOK
  <2>4. LoopTypes'
    BY <2>1, <1>41 DEF Toggle, Move, Noted, TypeOK
  <2>5. moves' \in 0..MaxMoves
    BY <2>1, <1>41, ProgressionAssumption DEF Toggle, Move, Noted, TypeOK, ProgressionAssumption
  <2>6. DoneIsSettled'
    BY <2>1, <1>41 DEF Toggle, Move, Noted, TypeOK
  <2>7. Owned'
    BY <2>1, <1>41 DEF Toggle, Move, Noted, TypeOK
  <2>8. Recorded'
    BY <2>1, <1>41 DEF Toggle, Move, Noted, TypeOK
  <2> QED
    BY <2>2, <2>3, <2>4, <2>5, <2>6, <2>7, <2>8 DEF TypeOK
<1>42. CASE Shutdown
  <2>1. RowTypes'
    BY <1>42 DEF Shutdown, Move, TypeOK
  <2>2. FlagTypes'
    BY <1>42 DEF Shutdown, Move, TypeOK
  <2>3. LoopTypes'
    BY <1>42 DEF Shutdown, Move, TypeOK
  <2>4. moves' \in 0..MaxMoves
    BY <1>42, ProgressionAssumption DEF Shutdown, Move, TypeOK, ProgressionAssumption
  <2>5. DoneIsSettled'
    BY <1>42 DEF Shutdown, Move, TypeOK
  <2>6. Owned'
    BY <1>42 DEF Shutdown, Move, TypeOK
  <2>7. Recorded'
    BY <1>42 DEF Shutdown, Move, TypeOK
  <2> QED
    BY <2>1, <2>2, <2>3, <2>4, <2>5, <2>6, <2>7 DEF TypeOK
<1>43. CASE UNCHANGED vars
  BY <1>43 DEF vars
<1> QED
  BY ZenonT(40), <1>1, <1>2, <1>3, <1>4, <1>5, <1>6, <1>7, <1>8, <1>9, <1>10, <1>11, <1>12, <1>13, <1>14, <1>15,
     <1>16, <1>17, <1>18, <1>19, <1>20, <1>21, <1>22, <1>23, <1>24, <1>25, <1>26, <1>27, <1>28, <1>29,
     <1>30, <1>31, <1>32, <1>33, <1>34, <1>35, <1>36, <1>37, <1>38, <1>39, <1>40, <1>41, <1>42,
     <1>43 DEF Next, Progress, Answers, Planning, Quality, Preparation, User, Execution

THEOREM Invariant == Spec => []IInv
<1>1. Init => IInv
  BY InvInit
<1>2. IInv /\ [Next]_vars => IInv'
  BY InvStep
<1> QED
  BY <1>1, <1>2, PTL DEF Spec

\* The rows and the loop keep their types, and a task that is done has nothing
\* open and nothing under way, whoever started it.
THEOREM DoneMeansSettled == Spec => []ProgressionInv
<1>1. IInv => ProgressionInv
  BY DEF IInv, ProgressionInv
<1> QED
  BY <1>1, Invariant, PTL

\* A step that records a failure.
LEMMA Records ==
  ASSUME IInv, [Next]_vars, pc = "blocking", pc' = "leaving", task \in Inactive
  PROVE  task' = task
<1>1. seen \notin Inactive
  BY DEF IInv, Recorded
<1>2. pc \in PC
  BY DEF IInv, TypeOK
<1> USE DEF vars, loop, Publish, Wake, Answers, Planning, Quality, Resume
<1>3. CASE Block
  BY <1>1, <1>3 DEF Block
<1>4. CASE Progress /\ ~Block
  BY <1>4 DEF Progress, Iterate, Leave, LoadTask, Decide, AutoApprove, Execute, Refuse, Catch, RecordFailure
<1>5. CASE Answers
  BY <1>5 DEF PlanningProposes, PlanningEnds, PlanningFails, Recover, NotRecovered, Skip, Judge,
     EvaluationThrows,
              MarkDone
<1>6. CASE Preparation
  BY <1>6 DEF Preparation, Propose, Release, PreparationFails
<1>7. CASE User
  BY <1>7 DEF User, Approve, Reject, ExecuteApproved, PauseTask, ResumeTask, CompleteTask, CancelTask,
     Toggle, Shutdown
<1>8. ASSUME NEW a \in Rows, Execution(a) PROVE FALSE
  <2>1. ASSUME NEW ok \in BOOLEAN, End(a, ok) PROVE FALSE
    BY <2>1 DEF End
  <2> QED
    BY <1>8, <2>1 DEF Execution, Begin, Succeed, Fail, PlanRefused, PlanPaused, PlanWaits, PlanBegins, WorkerBegins,
       WorkerEnds, PlanEnds, PlanFails
<1>9. CASE UNCHANGED vars
  BY <1>9
<1> QED
  BY <1>3, <1>4, <1>5, <1>6, <1>7, <1>8, <1>9 DEF Next

\* Recording an error leaves the pause, the cancellation or the completion that
\* came while it was being logged in place.
THEOREM FailureLeavesStops == Spec => FailureYields
<1>1. IInv /\ [Next]_vars => [pc = "blocking" /\ pc' = "leaving" /\ task \in Inactive => task' = task]_vars
  BY Records
<1> QED
  BY <1>1, Invariant, PTL DEF Spec, FailureYields

-----------------------------------------------------------------------------
(* What the loop has read is still so, with the synchronous gateway *)

\* Where the loop is between two waits and relies on what it has read.
Relies == {"loaded", "approving", "executing", "blocking"}

\* Only the loop itself gets there, and nobody acts while it is there.
LEMMA Alone ==
  ASSUME OneTurn, IInv, [Next]_vars, pc' \in Relies
  PROVE  LoadTask \/ Decide \/ RecordFailure \/ UNCHANGED vars
<1>1. pc \in PC
  BY DEF IInv, TypeOK
<1> USE DEF Relies, loop, Publish, Wake, Answers, Planning, Quality, Resume, Turn, Waits
<1>2. CASE Progress
  BY <1>2 DEF Progress, Iterate, Leave, AutoApprove, Execute, Refuse, Catch, Block
<1>3. CASE Answers
  BY <1>3 DEF PlanningProposes, PlanningEnds, PlanningFails, Recover, NotRecovered, Skip, Judge,
     EvaluationThrows,
              MarkDone
<1>4. CASE Preparation
  BY <1>4 DEF Preparation, Propose, Release, PreparationFails
<1>5. CASE User
  BY <1>5 DEF User, Approve, Reject, ExecuteApproved, PauseTask, ResumeTask, CompleteTask, CancelTask,
     Toggle, Shutdown, Move
<1>6. ASSUME NEW a \in Rows, Execution(a) PROVE FALSE
  <2>1. ASSUME NEW ok \in BOOLEAN, End(a, ok), pc \in Waits PROVE FALSE
    BY <2>1 DEF End
  <2> QED
    BY <1>6, <2>1 DEF Execution, Begin, Succeed, Fail, PlanRefused, PlanPaused, PlanWaits, PlanBegins, WorkerBegins,
       WorkerEnds, PlanEnds, PlanFails
<1> QED
  BY <1>2, <1>3, <1>4, <1>5, <1>6 DEF Next

\* What is open follows from the rows alone.
LEMMA SameOpen ==
  ASSUME UNCHANGED <<status, exec>>
  PROVE  First' = First /\ \A a \in Rows : Unresolved(a)' = Unresolved(a)
<1>1. status' = status /\ exec' = exec
  OBVIOUS
<1> QED
  BY <1>1 DEF First, Unresolved, Ordered, Children

LEMMA TurnStep ==
  ASSUME OneTurn, TurnInv, [Next]_vars
  PROVE  TurnInv'
<1> USE DEF TurnInv
<1>1. IInv'
  BY InvStep
<1>2. CASE pc' \notin Relies
  BY <1>1, <1>2 DEF Relies, Fresh
<1>3. CASE LoadTask
  BY <1>1, <1>3 DEF LoadTask, Fresh
<1>4. CASE RecordFailure
  BY <1>1, <1>4 DEF RecordFailure, Fresh
<1>5. CASE Decide
  <2>1. seen = task /\ seen' = seen /\ task' = task /\ pc' = NextPoint /\ cand' = First
    BY <1>5 DEF Decide, Fresh
  <2>2. UNCHANGED <<status, exec, work, held, stopping>>
    BY <1>5 DEF Decide, approvals
  <2>3. First' = First
    BY <2>2, SameOpen
  <2>4. Halted' = Halted
    BY <2>1, <2>2 DEF Halted, Busy
  <2>5. ASSUME pc' \in {"approving", "executing"}
        PROVE  /\ ~Halted /\ First \in Rows
               /\ pc' = "approving" => status[First] = "pending"
               /\ pc' = "executing" => status[First] = "approved" /\ ~Advice(First)
    BY <2>1, <2>5, FirstOpen DEF NextPoint, CanHandle, Executable
  <2>6. pc' # "blocking"
    BY <2>1 DEF NextPoint
  <2> QED
    BY <1>1, <2>1, <2>2, <2>3, <2>4, <2>5, <2>6 DEF Fresh, Advice
<1>6. CASE UNCHANGED vars
  <2>1. First' = First /\ Halted' = Halted
    BY <1>6, SameOpen DEF vars, approvals, loop, host, Halted, Busy
  <2> QED
    BY <1>1, <1>6, <2>1 DEF vars, approvals, loop, host, Fresh, Advice
<1> QED
  BY <1>2, <1>3, <1>4, <1>5, <1>6, Alone

LEMMA TurnInvariant ==
  ASSUME OneTurn
  PROVE  Spec => []TurnInv
<1>1. Init => TurnInv
  BY InvInit DEF Init, TurnInv, Fresh
<1>2. TurnInv /\ [Next]_vars => TurnInv'
  BY TurnStep
<1> QED
  BY <1>1, <1>2, PTL DEF Spec

\* With the synchronous gateway, a task that is paused, blocked, failed or
\* finished, or that is being prepared or shut down, gets no execution and no
\* automatic approval from the loop, whenever that state was entered.
THEOREM StoppedStaysStopped ==
  ASSUME OneTurn
  PROVE  Spec => StoppedStartsNothing
<1>1. TurnInv /\ [Next]_vars =>
        [(pc \in {"approving", "executing"} /\ (status' # status \/ work' # work)) =>
           task \notin Stopped /\ ~held /\ ~stopping]_vars
  BY DEF TurnInv, Fresh, Halted
<1> QED
  BY <1>1, TurnInvariant, PTL DEF Spec, StoppedStartsNothing

\* The loop starts what it has found first.
LEMMA StartsFirst ==
  ASSUME OneTurn, TurnInv, [Next]_vars, NEW a \in Rows, Starts(a)
  PROVE  a = First
<1>1. pc = "executing" /\ work[a] = "none" /\ work'[a] # "none"
  BY DEF Starts
<1>2. cand = First
  BY <1>1 DEF TurnInv, Fresh
<1>3. work \in [Rows -> {"none", "claimed", "between", "running"}]
  BY DEF TurnInv, IInv, TypeOK
<1>4. Turn => FALSE
  BY <1>1 DEF Turn, Waits
<1>5. CASE Execute
  BY <1>1, <1>2, <1>3, <1>5 DEF Execute, Start
<1>6. CASE UNCHANGED vars
  BY <1>1, <1>6 DEF vars, approvals
<1>7. CASE (Progress /\ ~Execute) \/ Answers
  BY <1>1, <1>7 DEF Progress, Iterate, Leave, LoadTask, Decide, AutoApprove, Refuse, Catch, RecordFailure,
     Block,
     Answers, Planning, PlanningProposes, PlanningEnds, PlanningFails, Recover, NotRecovered, Quality, Skip, Judge,
     EvaluationThrows, MarkDone, approvals
<1>8. CASE Preparation \/ User
  BY <1>1, <1>4, <1>8 DEF Preparation, Propose, Release, PreparationFails, User, Approve, Reject,
     ExecuteApproved,
     PauseTask, ResumeTask, CompleteTask, CancelTask, Toggle, Shutdown, Move
<1>9. ASSUME NEW b \in Rows, Execution(b) PROVE FALSE
  BY <1>4, <1>9 DEF Execution, Begin, Succeed, Fail, PlanRefused, PlanPaused, PlanWaits, PlanBegins,
     WorkerBegins,
     WorkerEnds, PlanEnds, PlanFails
<1> QED
  BY <1>5, <1>6, <1>7, <1>8, <1>9 DEF Next

\* With the synchronous gateway, no action overtakes an earlier one that is not
\* resolved, and a plan does not go on while an action of its workers is.
THEOREM StartsInOrder ==
  ASSUME OneTurn
  PROVE  Spec => InOrder
<1>1. ASSUME TurnInv, [Next]_vars, NEW a \in Rows, Starts(a),
             NEW b \in Children, b < a \/ Plan(a), b # a, Unresolved(b)
      PROVE  FALSE
  <2>1. a = First
    BY <1>1, StartsFirst
  <2>2. a # 0 /\ a \in Nat /\ b \in Nat
    BY Numbers DEF Children
  <2>3. a \in Children /\ a <= b
    BY <1>1, <2>1, <2>2, FirstOpen
  <2> QED
    BY <1>1, <2>2, <2>3 DEF Children
<1>2. TurnInv /\ [Next]_vars =>
        [\A a \in Rows : Starts(a) =>
           \A b \in Children : (b < a \/ Plan(a)) /\ b # a => ~Unresolved(b)]_vars
  BY <1>1
<1> QED
  BY <1>2, TurnInvariant, PTL DEF Spec, InOrder

-----------------------------------------------------------------------------
(* Nothing is overlooked *)

\* At the gate nobody executes anything.
LEMMA GateIsIdle ==
  ASSUME IInv, AtGate, pc \in {"quality", "closing"}
  PROVE  /\ \A a \in Rows : work[a] = "none" /\ status[a] # "pending"
         /\ First = 0
  BY FirstOpen DEF IInv, Owned, AtGate, Unresolved

\* What is left follows from what the loop looks at.
LEMMA SameLeft ==
  ASSUME UNCHANGED <<task, status, exec, auto, ready, planned, judged, attempted>>
  PROVE  NothingLeft' <=> NothingLeft
<1>1. First' = First
  BY SameOpen
<1>2. CanHandle(First)' <=> CanHandle(First)
  BY <1>1 DEF CanHandle, Executable, AutoApproved, Advice
<1> QED
  BY <1>1, <1>2 DEF NothingLeft

\* Every step keeps RestInv.  Most steps leave the loop with something noted
\* or an execution under way; the others are argued at their place.
LEMMA RestStep ==
  ASSUME OneTurn, OnePlan, RestInv, [Next]_vars
  PROVE  RestInv'
<1>t. TurnInv'
  BY TurnStep DEF RestInv
<1>i. IInv /\ IInv' /\ Fresh /\ Fresh' /\ TypeOK
  BY <1>t DEF RestInv, TurnInv, IInv
<1>g. pc \in {"quality", "closing"} =>
        /\ \A a \in Rows : work[a] = "none" /\ status[a] # "pending"
        /\ First = 0
  BY <1>i, GateIsIdle DEF RestInv
<1>o. UNCHANGED <<status, exec>> => First' = First /\ \A a \in Rows : Unresolved(a)' = Unresolved(a)
  BY SameOpen
<1> USE <1>i, <1>g, <1>o, FirstOpen, Numbers, Kinds
<1> USE DEF RestInv, Awaited, Prep, Routed, Draft, PlannedOnce, Ripe, AtGate, Failed, Rested,
            ToBeJudged, InPlanning, Quiet, Idle, TypeOK, Owned, IInv, Fresh, PC, Waits, Advice, Plan, TaskStatus,
            Closed, Inactive, Stopped, approvals, host, memory, loop, Turn, Prepared
\* What was noted sends the loop round again; otherwise nothing changes.
<1>1. CASE Iterate
  <2>1. Awaited' /\ Prep' /\ Routed' /\ Draft' /\ PlannedOnce'
    BY <1>1 DEF Iterate, Resume
  <2>2. Ripe' /\ AtGate' /\ Failed'
    BY <1>1 DEF Iterate, Resume, Unresolved
  <2>3. Rested'
    <3>1. UNCHANGED <<task, status, exec, auto, ready, planned, judged, attempted, held, stopping, work>>
      BY <1>1 DEF Iterate
    <3>2. Quiet' => Quiet
      BY <1>1, <3>1 DEF Iterate, Resume
    <3> QED
      BY <3>1, <3>2, SameLeft DEF Rested
  <2> QED
    BY <1>t, <2>1, <2>2, <2>3
<1>2. CASE Leave
  <2>1. Awaited' /\ Prep' /\ Routed' /\ Draft' /\ PlannedOnce'
    BY <1>2 DEF Leave
  <2>2. Ripe' /\ AtGate' /\ Failed'
    BY <1>2 DEF Leave, Unresolved
  <2>3. Rested'
    <3>1. UNCHANGED <<task, status, exec, auto, ready, planned, judged, attempted, held, stopping, work>>
      BY <1>2 DEF Leave
    <3>2. Quiet' => Quiet
      BY <1>2, <3>1 DEF Leave
    <3> QED
      BY <3>1, <3>2, SameLeft DEF Rested
  <2> QED
    BY <1>t, <2>1, <2>2, <2>3
<1>3. CASE LoadTask
  BY <1>t, <1>3 DEF LoadTask, Unresolved, NothingLeft
\* The loop stops only after it has looked at the task and the rows as they are.
<1>4. CASE Decide
  <2>1. Awaited' /\ Prep' /\ Routed' /\ Draft' /\ PlannedOnce'
    BY <1>4 DEF Decide, NextPoint, Key
  <2>2. Ripe' /\ AtGate' /\ Failed'
    BY <1>4 DEF Decide, NextPoint, Unresolved
  <2>3. Rested'
    <3> SUFFICES ASSUME Quiet'
                 PROVE  NothingLeft'
      BY DEF Rested
    <3>1. pc' = NextPoint /\ pc' = "looped" /\ ~stopping /\ ~held /\ task \notin Stopped /\ seen = task
          /\ \A a \in Rows : work[a] = "none"
      BY <1>4 DEF Decide, NextPoint, Quiet
    <3>2. ~Halted
      BY <3>1 DEF Halted, Busy
    <3>3. First # 0 => ~CanHandle(First) \/ Key(First) \in attempted
      BY <3>1, <3>2 DEF NextPoint
    <3>4. First = 0 => task # "ready_for_review" /\ (task = "drafting" => ~ready \/ planned \/ Key(0) \in attempted)
      BY <3>1, <3>2 DEF NextPoint
    <3>5. NothingLeft
      BY <3>3, <3>4 DEF NothingLeft, Key, PlannedOnce
    <3>6. UNCHANGED <<task, status, exec, auto, ready, planned, judged, attempted>>
      BY <1>4, <3>1 DEF Decide
    <3> QED
      BY <3>5, <3>6, SameLeft
  <2> QED
    BY <1>t, <2>1, <2>2, <2>3
<1>5. CASE AutoApprove
  BY <1>t, <1>5 DEF AutoApprove, Resume, Unresolved, NothingLeft
<1>6. CASE Execute
  BY <1>t, <1>6 DEF Execute, CanStart, Start, Unresolved, NothingLeft
\* An approved action is open, so the task does not wait for its gate.
<1>7. CASE Refuse
  BY <1>t, <1>7 DEF Refuse, Unresolved, NothingLeft
<1>8. CASE Catch
  BY <1>t, <1>8 DEF Catch, Unresolved, NothingLeft
<1>9. CASE RecordFailure
  BY <1>t, <1>9 DEF RecordFailure, Unresolved, NothingLeft
\* A task in review cannot be blocked: then it has been judged (Failed).
<1>10. CASE Block
  BY <1>t, <1>10 DEF Block, Unresolved, NothingLeft, Allowed, AllowedFrom
<1>11. ASSUME NEW a \in Rows, PlanningProposes(a) PROVE RestInv'
  BY <1>t, <1>11 DEF PlanningProposes, Create, Unresolved, NothingLeft
<1>12. CASE PlanningEnds
  BY <1>t, <1>12 DEF PlanningEnds, SetTask, Resume, Unresolved, NothingLeft
<1>13. CASE PlanningFails
  BY <1>t, <1>13 DEF PlanningFails, Unresolved, NothingLeft
<1>14. ASSUME NEW a \in Rows, Recover(a) PROVE RestInv'
  BY <1>t, <1>14 DEF Recover, Retire, Retired, Prepared, Resume, Unresolved, NothingLeft
<1>15. CASE NotRecovered
  BY <1>t, <1>15 DEF NotRecovered, Retire, Retired, Prepared, Unresolved, NothingLeft
<1>16. CASE Skip
  BY <1>t, <1>16 DEF Skip, Unresolved, NothingLeft
<1>17. ASSUME NEW v \in {"passed", "warning", "failed"}, Judge(v) PROVE RestInv'
  BY <1>t, <1>17 DEF Judge, Unresolved, NothingLeft
<1>18. CASE EvaluationThrows
  BY <1>t, <1>18 DEF EvaluationThrows, Unresolved, NothingLeft
<1>19. CASE MarkDone
  BY <1>t, <1>19 DEF MarkDone, Settled, Busy, Unresolved, NothingLeft
<1>20. ASSUME NEW a \in Rows, Begin(a) PROVE RestInv'
  BY <1>t, <1>20 DEF Begin, Running, Unresolved, NothingLeft
\* With nothing pending or approved left the task comes to its gate.
<1>21. ASSUME NEW a \in Rows, Succeed(a) PROVE RestInv'
  <2>1. End(a, TRUE)
    BY <1>21 DEF Succeed
  <2>2. /\ work' = [work EXCEPT ![a] = "none"]
        /\ asked' = [asked EXCEPT ![a] = FALSE]
        /\ UNCHANGED <<auto, held, ready, planned, stopping, moves>>
        /\ \/ Answered(a, TRUE)
           \/ ~(pc = "awaiting" /\ cand = a) /\ asked[a] /\ (TRUE \/ ~Plan(a)) /\ Noted
           \/ ~(pc = "awaiting" /\ cand = a) /\ ~(asked[a] /\ (TRUE \/ ~Plan(a))) /\ Unheard
    BY <2>1, <1>i, Ends
  <2> QED
    BY <1>t, <1>21, <2>2 DEF Succeed, SetTask, RunnerUnresolved, Answered, Noted, Unheard, Resume, NothingLeft
<1>22. ASSUME NEW a \in Rows, NEW ok \in BOOLEAN, Fail(a, ok) PROVE RestInv'
  <2>1. End(a, FALSE)
    BY <1>22 DEF Fail
  <2>2. /\ work' = [work EXCEPT ![a] = "none"]
        /\ asked' = [asked EXCEPT ![a] = FALSE]
        /\ UNCHANGED <<auto, held, ready, planned, stopping, moves>>
        /\ \/ Answered(a, FALSE)
           \/ ~(pc = "awaiting" /\ cand = a) /\ asked[a] /\ (FALSE \/ ~Plan(a)) /\ Noted
           \/ ~(pc = "awaiting" /\ cand = a) /\ ~(asked[a] /\ (FALSE \/ ~Plan(a))) /\ Unheard
    BY <2>1, <1>i, Ends
  <2> QED
    BY <1>t, <1>22, <2>2 DEF Fail, Answered, Noted, Unheard, Resume, Unresolved, NothingLeft
<1>23. ASSUME NEW a \in Rows, PlanRefused(a) PROVE RestInv'
  <2>1. End(a, FALSE)
    BY <1>23 DEF PlanRefused
  <2>2. /\ work' = [work EXCEPT ![a] = "none"]
        /\ asked' = [asked EXCEPT ![a] = FALSE]
        /\ UNCHANGED <<auto, held, ready, planned, stopping, moves>>
        /\ \/ Answered(a, FALSE)
           \/ ~(pc = "awaiting" /\ cand = a) /\ asked[a] /\ (FALSE \/ ~Plan(a)) /\ Noted
           \/ ~(pc = "awaiting" /\ cand = a) /\ ~(asked[a] /\ (FALSE \/ ~Plan(a))) /\ Unheard
    BY <2>1, <1>i, Ends
  <2> QED
    BY <1>t, <1>23, <2>2 DEF PlanRefused, Answered, Noted, Unheard, Resume, Unresolved, NothingLeft
<1>24. ASSUME NEW a \in Rows, PlanPaused(a) PROVE RestInv'
  <2>1. End(a, TRUE)
    BY <1>24 DEF PlanPaused
  <2>2. /\ work' = [work EXCEPT ![a] = "none"]
        /\ asked' = [asked EXCEPT ![a] = FALSE]
        /\ UNCHANGED <<auto, held, ready, planned, stopping, moves>>
        /\ \/ Answered(a, TRUE)
           \/ ~(pc = "awaiting" /\ cand = a) /\ asked[a] /\ (TRUE \/ ~Plan(a)) /\ Noted
           \/ ~(pc = "awaiting" /\ cand = a) /\ ~(asked[a] /\ (TRUE \/ ~Plan(a))) /\ Unheard
    BY <2>1, <1>i, Ends
  <2> QED
    BY <1>t, <1>24, <2>2 DEF PlanPaused, Answered, Noted, Unheard, Resume, Unresolved, NothingLeft
<1>25. ASSUME NEW a \in Rows, PlanWaits(a) PROVE RestInv'
  <2>1. End(a, TRUE)
    BY <1>25 DEF PlanWaits
  <2>2. /\ work' = [work EXCEPT ![a] = "none"]
        /\ asked' = [asked EXCEPT ![a] = FALSE]
        /\ UNCHANGED <<auto, held, ready, planned, stopping, moves>>
        /\ \/ Answered(a, TRUE)
           \/ ~(pc = "awaiting" /\ cand = a) /\ asked[a] /\ (TRUE \/ ~Plan(a)) /\ Noted
           \/ ~(pc = "awaiting" /\ cand = a) /\ ~(asked[a] /\ (TRUE \/ ~Plan(a))) /\ Unheard
    BY <2>1, <1>i, Ends
  <2> QED
    BY <1>t, <1>25, <2>2 DEF PlanWaits, Answered, Noted, Unheard, Resume, Unresolved, NothingLeft
<1>26. ASSUME NEW a \in Rows, PlanBegins(a) PROVE RestInv'
  BY <1>t, <1>26 DEF PlanBegins, Unresolved, NothingLeft
<1>27. ASSUME NEW a \in Rows, WorkerBegins(a) PROVE RestInv'
  BY <1>t, <1>27 DEF WorkerBegins, Running, Unresolved, NothingLeft
<1>28. ASSUME NEW a \in Rows, NEW b \in Rows, WorkerEnds(a, b) PROVE RestInv'
  <2>1. Publish => Noted
    BY <1>i, Notes
  <2> QED
    BY <1>t, <1>28, <2>1 DEF WorkerEnds, Create, Noted, Unresolved, NothingLeft
\* The only plan is executed, and none of its actions is open.
<1>29. ASSUME NEW a \in Rows, NEW more \in BOOLEAN, PlanEnds(a, more) PROVE RestInv'
  <2>1. End(a, TRUE)
    BY <1>29 DEF PlanEnds
  <2>2. /\ work' = [work EXCEPT ![a] = "none"]
        /\ asked' = [asked EXCEPT ![a] = FALSE]
        /\ UNCHANGED <<auto, held, ready, planned, stopping, moves>>
        /\ \/ Answered(a, TRUE)
           \/ ~(pc = "awaiting" /\ cand = a) /\ asked[a] /\ (TRUE \/ ~Plan(a)) /\ Noted
           \/ ~(pc = "awaiting" /\ cand = a) /\ ~(asked[a] /\ (TRUE \/ ~Plan(a))) /\ Unheard
    BY <2>1, <1>i, Ends
  <2> QED
    BY <1>t, <1>29, <2>2 DEF PlanEnds, SetTask, Answered, Noted, Unheard, Resume, Unresolved, NothingLeft, OnePlan, Children
\* A failed call of the user's is not noted; the task is stopped, or has been judged.
<1>30. ASSUME NEW a \in Rows, NEW thrown \in BOOLEAN, PlanFails(a, thrown) PROVE RestInv'
  <2>1. End(a, ~thrown)
    BY <1>30 DEF PlanFails
  <2>2. /\ work' = [work EXCEPT ![a] = "none"]
        /\ asked' = [asked EXCEPT ![a] = FALSE]
        /\ UNCHANGED <<auto, held, ready, planned, stopping, moves>>
        /\ \/ Answered(a, ~thrown)
           \/ ~(pc = "awaiting" /\ cand = a) /\ asked[a] /\ (~thrown \/ ~Plan(a)) /\ Noted
           \/ ~(pc = "awaiting" /\ cand = a) /\ ~(asked[a] /\ (~thrown \/ ~Plan(a))) /\ Unheard
    BY <2>1, <1>i, Ends
  <2> QED
    BY <1>t, <1>30, <2>2 DEF PlanFails, Answered, Noted, Unheard, Resume, Unresolved, NothingLeft, Allowed, AllowedFrom
<1>31. ASSUME NEW a \in Rows, Propose(a) PROVE RestInv'
  BY <1>t, <1>31 DEF Propose, Create, Unresolved, NothingLeft
<1>32. CASE Release
  <2>1. Publish => Noted
    BY <1>i, Notes
  <2> QED
    BY <1>t, <1>32, <2>1 DEF Release, Noted, Unresolved, NothingLeft
<1>33. CASE PreparationFails
  <2>1. Publish => Noted
    BY <1>i, Notes
  <2> QED
    BY <1>t, <1>33, <2>1 DEF PreparationFails, Noted, Unresolved, NothingLeft
<1>34. ASSUME NEW a \in Rows, Approve(a) PROVE RestInv'
  <2>1. Publish => Noted
    BY <1>i, Notes
  <2> QED
    BY <1>t, <1>34, <2>1 DEF Approve, Noted, Unresolved, NothingLeft
\* Where the task cannot be paused nothing is noted: a draft has only advice
\* to reject, and a task in review that has more to reject has been judged.
<1>35. ASSUME NEW a \in Rows, Reject(a) PROVE RestInv'
  <2>1. Publish => Noted
    BY <1>i, Notes
  <2> QED
    BY <1>t, <1>35, <2>1 DEF Reject, Noted, Unresolved, NothingLeft, Allowed, AllowedFrom
<1>36. ASSUME NEW a \in Rows, ExecuteApproved(a) PROVE RestInv'
  BY <1>t, <1>36 DEF ExecuteApproved, Move, CanStart, Start, Unresolved, NothingLeft
<1>37. CASE PauseTask
  <2>1. Publish => Noted
    BY <1>i, Notes
  <2> QED
    BY <1>t, <1>37, <2>1 DEF PauseTask, Move, Noted, Unresolved, NothingLeft
<1>38. CASE ResumeTask
  <2>1. Publish => Noted
    BY <1>i, Notes
  <2> QED
    BY <1>t, <1>38, <2>1 DEF ResumeTask, Noted, Unresolved, NothingLeft
<1>39. CASE CompleteTask
  <2>1. Publish => Noted
    BY <1>i, Notes
  <2> QED
    BY <1>t, <1>39, <2>1 DEF CompleteTask, Settled, Busy, Noted, Unresolved, NothingLeft
<1>40. CASE CancelTask
  <2>1. Publish => Noted
    BY <1>i, Notes
  <2> QED
    BY <1>t, <1>40, <2>1 DEF CancelTask, Move, Noted, Unresolved, NothingLeft
<1>41. CASE Toggle
  <2>1. Publish => Noted
    BY <1>i, Notes
  <2> QED
    BY <1>t, <1>41, <2>1 DEF Toggle, Move, Noted, Unresolved, NothingLeft
<1>42. CASE Shutdown
  BY <1>t, <1>42 DEF Shutdown, Move, Unresolved, NothingLeft
<1>43. CASE UNCHANGED vars
  <2>1. Awaited' /\ Prep' /\ Routed' /\ Draft' /\ PlannedOnce'
    BY <1>43 DEF vars
  <2>2. Ripe' /\ AtGate' /\ Failed'
    BY <1>43 DEF vars, Unresolved
  <2>3. Rested'
    <3>1. Quiet' => Quiet
      BY <1>43 DEF vars, Quiet, Idle
    <3> QED
      BY <1>43, <3>1, SameLeft DEF vars, Rested
  <2> QED
    BY <1>t, <2>1, <2>2, <2>3
<1> HIDE DEF RestInv
<1> QED
  BY <1>1, <1>2, <1>3, <1>4, <1>5, <1>6, <1>7, <1>8, <1>9, <1>10, <1>11, <1>12, <1>13, <1>14, <1>15,
     <1>16, <1>17, <1>18, <1>19, <1>20, <1>21, <1>22, <1>23, <1>24, <1>25, <1>26, <1>27, <1>28, <1>29,
     <1>30, <1>31, <1>32, <1>33, <1>34, <1>35, <1>36, <1>37, <1>38, <1>39, <1>40, <1>41, <1>42,
     <1>43 DEF Next, Progress, Answers, Planning, Quality, Preparation, User, Execution

LEMMA RestInit == Init => RestInv
<1> SUFFICES ASSUME Init
             PROVE  RestInv
  OBVIOUS
<1>1. TurnInv
  BY InvInit DEF Init, TurnInv, Fresh
<1>2. Awaited /\ Prep /\ Routed /\ Draft /\ PlannedOnce
  BY DEF Init, Awaited, Prep, Routed, InPlanning, Draft, PlannedOnce
<1>3. Ripe /\ AtGate /\ Failed /\ Rested
  BY DEF Init, Ripe, ToBeJudged, AtGate, Failed, Rested, Quiet
<1> QED
  BY <1>1, <1>2, <1>3 DEF RestInv

\* With the synchronous gateway, and for a task with one orchestration plan:
\* when everything is at rest, nothing is left that the loop would do.
THEOREM NothingIsOverlooked ==
  ASSUME OneTurn, OnePlan
  PROVE  Spec => []NothingOverlooked
<1>1. Init => RestInv
  BY RestInit
<1>2. RestInv /\ [Next]_vars => RestInv'
  BY RestStep
<1>3. RestInv => NothingOverlooked
  BY DEF RestInv, Rested, Quiet, Idle, NothingLeft, NothingOverlooked, AtRest
<1> QED
  BY <1>1, <1>2, <1>3, PTL DEF Spec

=============================================================================
