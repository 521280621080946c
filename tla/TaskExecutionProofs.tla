------------------------ MODULE TaskExecutionProofs ------------------------
(***************************************************************************)
(* What TaskExecution keeps true for every set of actions, every number of *)
(* moves, deadlines and faults, and however its awaits interleave.         *)
(*                                                                         *)
(* IInv says, for each await of an execution, what its rows have come to,  *)
(* and what a drain that has ended has left.  TurnInv is what the          *)
(* synchronous gateway adds: nobody acts between the last look at the      *)
(* task and the write that follows it.                                     *)
(***************************************************************************)
EXTENDS TaskExecution, TLAPS

-----------------------------------------------------------------------------
(* The inductive invariants *)

Drain == [claims: SUBSET Actions, owned: BOOLEAN, interrupted: BOOLEAN, ended: BOOLEAN]

Typed == TypeOK /\ drains \in Seq(Drain) /\ faults \in Nat

\* The awaits of an execution: before its claim, before its step, up to the end of the side
\* effect, while its success is recorded, and in its catch block.
Entering == {"off", "entered", "claiming"}
Stepless == {"checking", "preparing", "creating"}
Doing == {"starting", "moving", "guarding", "resolving", "working", "recording"}
Recorded == {"closing", "settling", "writing"}
Trying == {"claiming"} \cup Stepless \cup Doing \cup {"deciding"} \cup Recorded
Failed == {"judging", "blocking"}
Catching == {"reporting", "failing"} \cup Failed

\* The rows of an approval agree with each other.
RowInv(a) ==
  /\ exec[a] = "none" => step[a] = "none" /\ a \notin mutating /\ consent[a] # "executed"
  /\ exec[a] # "none" => consent[a] \in {"approved", "executed"}
  /\ exec[a] = "succeeded" => step[a] = "succeeded" /\ consent[a] = "executed" /\ a \notin mutating
  /\ exec[a] = "failed" => step[a] = "failed" /\ consent[a] = "executed"

\* They have come as far as the execution has.
PcInv(a) ==
  /\ pc[a] \notin Entering => exec[a] = "running"
  /\ pc[a] \in Trying => outcome[a] = "ok"
  /\ pc[a] \in Catching => outcome[a] # "ok"
  /\ pc[a] \in Stepless => step[a] = "none" /\ a \notin mutating
  /\ pc[a] \in Doing => step[a] = "running"
  /\ pc[a] \in {"deciding"} \cup Recorded => step[a] = "succeeded"
  /\ pc[a] \in {"reporting", "failing"} => step[a] # "none"
  /\ pc[a] \in Failed => step[a] = "failed"
  /\ pc[a] \in Recorded => consent[a] = "executed"
  /\ pc[a] = "resolving" => a \notin Checks
  /\ pc[a] = "writing" => target[a] # "none"
  /\ pc[a] \in {"starting", "moving", "guarding", "resolving"} => a \notin mutating
  /\ pc[a] \in {"ending", "finishing"} =>
       /\ outcome[a] = "ok" => step[a] = "succeeded" /\ consent[a] = "executed"
       /\ outcome[a] = "failed" => step[a] = "failed"
  /\ pc[a] = "finishing" /\ outcome[a] \in {"ok", "failed"} => a \notin mutating

Rows == \A a \in Actions : RowInv(a) /\ PcInv(a)

\* A cancelled task stays cancelled; the cancellation waits for whatever holds a claim.
CancelInv ==
  /\ cancel # "no" => task = "cancelled"
  /\ cancel = "waiting" => \A a \in Actions : pc[a] \notin Entering => a \in awaited \cap aborted
  /\ cancel = "done" => \A a \in Actions : pc[a] \in Entering

\* While no storage call has failed, what is running in the rows belongs to an execution.
FaultlessInv ==
  faults = 0 => \A a \in Actions :
    /\ exec[a] = "running" => pc[a] \notin Entering
    /\ step[a] = "running" => pc[a] \in Doing \cup {"reporting", "failing"}
    /\ a \in mutating => pc[a] \notin Entering \cup Stepless \cup {"finishing"}

\* What a drain that has ended has left; nothing is started behind the seal.
Left(drain) ==
  /\ \A a \in Actions : pc[a] = "off"
  /\ cancel \in {"no", "done"} /\ task \notin {"drafting", "running"}
  /\ ~broken => \A a \in drain.claims : exec[a] # "running"
  /\ drain.interrupted /\ drain.owned => task # "paused"

\* Drains end in their order, and the application closes after the last.
Drains ==
  /\ sealed <=> drains # <<>>
  /\ app # "open" => sealed
  /\ \A i \in DOMAIN drains : drains[i].ended =>
       Left(drains[i]) /\ \A j \in 1..i : drains[j].ended
  /\ app = "closed" => ~broken /\ \A i \in DOMAIN drains : drains[i].ended

\* Behind the seal every execution has been told to stop.
Stopped == sealed => Inflight \subseteq aborted

\* What a drain interrupts, the user has not paused.
Chosen == \A i \in DOMAIN drains : drains[i].interrupted => pauser # "user"

\* A pipeline interrupted between its executions stays paused: nothing more is claimed.
Resting ==
  sealed /\ Pipeline /\ drains[1].interrupted /\ ~drains[1].owned =>
    /\ task = "paused" /\ \A i \in DOMAIN drains : ~drains[i].owned
    /\ \A a \in Actions : pc[a] \in {"off", "entered"}

DrainInv == Drains /\ Stopped /\ Chosen /\ Resting

IInv == Typed /\ Rows /\ CancelInv /\ FaultlessInv /\ DrainInv

-----------------------------------------------------------------------------
(* Types *)

\* A new process has its types, whatever the old one left.
LEMMA LaunchTyped ==
  ASSUME Typed, Launched, faults' \in Nat
  PROVE  Typed'
<1>1. exec' \in [Actions -> {"none", "running", "succeeded", "failed", "uncertain"}]
  BY DEF Typed, TypeOK, Launched
<1>2. /\ pc' \in [Actions -> {"off"}] /\ outcome' \in [Actions -> {"ok"}]
      /\ target' \in [Actions -> {"none"}]
  BY DEF Launched
<1>3. drains' \in Seq(Drain) /\ DOMAIN drains' = {}
  BY DEF Launched
<1> QED
  BY <1>1, <1>2, <1>3 DEF Typed, TypeOK, Launched, RealWaits

\* The storage closes only after a drain, and that found every execution over.
LEMMA ClosedIsOver ==
  ASSUME Typed, Drains, app = "closed"
  PROVE  \A a \in Actions : pc[a] = "off"
<1>1. drains # <<>> /\ drains \in Seq(Drain)
  BY DEF Drains, Typed
<1>2. 1 \in DOMAIN drains
  BY <1>1
<1> QED
  BY <1>2 DEF Drains, Left

\* Every step keeps the types.
LEMMA TypesKept ==
  ASSUME Typed, Rows, [Next]_vars
  PROVE  Typed'
<1>t. TypeOK /\ drains \in Seq(Drain) /\ faults \in Nat
  BY DEF Typed
<1>1. ASSUME NEW a \in Actions, Execute(a) PROVE Typed'
  BY <1>t, <1>1
  DEF Execute, At, Goto, Yields, stored, cancelling, shutdown, bounds, Typed, TypeOK, RealWaits,
      TaskStatus
<1>2. ASSUME NEW a \in Actions, Register(a) PROVE Typed'
  BY <1>t, <1>2
  DEF Register, At, Goto, stored, cancelling, shutdown, bounds, Typed, TypeOK, RealWaits,
      TaskStatus
<1>3. ASSUME NEW a \in Actions, Claim(a) PROVE Typed'
  BY <1>t, <1>3
  DEF Claim, At, Goto, Claimable, stored, cancelling, shutdown, bounds, Typed, TypeOK,
      RealWaits, TaskStatus
<1>4. ASSUME NEW a \in Actions, Check(a) PROVE Typed'
  BY <1>t, <1>4
  DEF Check, At, Goto, Catch, stored, cancelling, shutdown, bounds, Typed, TypeOK, RealWaits,
      TaskStatus
<1>5. ASSUME NEW a \in Actions, Prepare(a) PROVE Typed'
  BY <1>t, <1>5
  DEF Prepare, At, Goto, Yields, stored, cancelling, shutdown, bounds, Typed, TypeOK, RealWaits,
      TaskStatus
<1>6. ASSUME NEW a \in Actions, CreateStep(a) PROVE Typed'
  BY <1>t, <1>6
  DEF CreateStep, At, Goto, stored, cancelling, shutdown, bounds, Typed, TypeOK, RealWaits,
      TaskStatus
<1>7. ASSUME NEW a \in Actions, Start(a) PROVE Typed'
  <2>1. UNCHANGED <<stored, aborted, target, cancelling, shutdown, bounds>>
    BY <1>7 DEF Start
  <2>2. CASE a \in aborted
    BY <1>t, <1>7, <2>1, <2>2
    DEF Start, Goto, Catch, stored, cancelling, shutdown, bounds, Typed, TypeOK, RealWaits
  <2>3. CASE a \notin aborted
    BY <1>t, <1>7, <2>1, <2>3
    DEF Start, Goto, stored, cancelling, shutdown, bounds, Typed, TypeOK, RealWaits
  <2> QED
    BY <2>2, <2>3
<1>8. ASSUME NEW a \in Actions, MoveToRunning(a) PROVE Typed'
  BY SMTT(30), <1>t, <1>8
  DEF MoveToRunning, At, Goto, Catch, SetTask, stored, cancelling, shutdown, bounds, Typed,
      TypeOK, RealWaits, TaskStatus
<1>9. ASSUME NEW a \in Actions, Guard(a) PROVE Typed'
  BY <1>t, <1>9
  DEF Guard, At, Goto, Catch, stored, cancelling, shutdown, bounds, Typed, TypeOK, RealWaits,
      TaskStatus
<1>10. ASSUME NEW a \in Actions, BeginMutation(a) PROVE Typed'
  BY <1>t, <1>10
  DEF BeginMutation, At, Goto, stored, cancelling, shutdown, bounds, Rows, PcInv, Typed, TypeOK,
      RealWaits, TaskStatus
<1>11. ASSUME NEW a \in Actions, WorkEnds(a) PROVE Typed'
  BY <1>t, <1>11
  DEF WorkEnds, At, Goto, Catch, stored, cancelling, shutdown, bounds, Typed, TypeOK, RealWaits,
      TaskStatus
<1>12. ASSUME NEW a \in Actions, RecordStep(a) PROVE Typed'
  BY <1>t, <1>12
  DEF RecordStep, At, Goto, stored, cancelling, shutdown, bounds, Typed, TypeOK, RealWaits,
      TaskStatus
<1>13. ASSUME NEW a \in Actions, Decide(a) PROVE Typed'
  BY <1>t, <1>13
  DEF Decide, At, Goto, Catch, stored, cancelling, shutdown, bounds, Typed, TypeOK, RealWaits,
      TaskStatus
<1>14. ASSUME NEW a \in Actions, CloseStep(a) PROVE Typed'
  BY <1>t, <1>14
  DEF CloseStep, At, Goto, PlanStepAfter, stored, cancelling, shutdown, bounds, Typed, TypeOK,
      RealWaits, TaskStatus
<1>15. ASSUME NEW a \in Actions, Settle(a) PROVE Typed'
  BY <1>t, <1>15
  DEF Settle, At, Goto, stored, cancelling, shutdown, bounds, Typed, TypeOK, RealWaits,
      TaskStatus
<1>16. ASSUME NEW a \in Actions, WriteTask(a) PROVE Typed'
  BY <1>t, <1>16
  DEF WriteTask, At, Goto, Catch, SetTask, stored, cancelling, shutdown, bounds, Rows, PcInv,
      Typed, TypeOK, RealWaits, TaskStatus
<1>17. ASSUME NEW a \in Actions, Report(a) PROVE Typed'
  BY <1>t, <1>17
  DEF Report, At, Goto, stored, cancelling, shutdown, bounds, Typed, TypeOK, RealWaits,
      TaskStatus
<1>18. ASSUME NEW a \in Actions, FailStep(a) PROVE Typed'
  BY <1>t, <1>18
  DEF FailStep, At, Goto, stored, cancelling, shutdown, bounds, Typed, TypeOK, RealWaits,
      TaskStatus
<1>19. ASSUME NEW a \in Actions, Judge(a) PROVE Typed'
  BY <1>t, <1>19
  DEF Judge, At, Goto, stored, cancelling, shutdown, bounds, Typed, TypeOK, RealWaits,
      TaskStatus
<1>20. ASSUME NEW a \in Actions, BlockTask(a) PROVE Typed'
  BY <1>t, <1>20
  DEF BlockTask, At, Goto, SetTask, stored, cancelling, shutdown, bounds, Typed, TypeOK,
      RealWaits, TaskStatus
<1>21. ASSUME NEW a \in Actions, EndMutation(a) PROVE Typed'
  BY <1>t, <1>21
  DEF EndMutation, At, Goto, stored, cancelling, shutdown, bounds, Typed, TypeOK, RealWaits,
      TaskStatus
<1>22. ASSUME NEW a \in Actions, Finish(a) PROVE Typed'
  BY <1>t, <1>22
  DEF Finish, At, Goto, PlanStepAfter, Result, stored, cancelling, shutdown, bounds, Typed,
      TypeOK, RealWaits, TaskStatus
<1>23. ASSUME NEW a \in Actions, StorageFails(a) PROVE Typed'
  BY <1>t, <1>23
  DEF StorageFails, Goto, AfterFault, RealWaits, stored, cancelling, shutdown, Typed, TypeOK,
      TaskStatus
<1>24. ASSUME NEW a \in Actions, Approve(a) PROVE Typed'
  BY <1>t, <1>24
  DEF Approve, stored, executions, cancelling, shutdown, bounds, Typed, TypeOK, RealWaits,
      TaskStatus
<1>25. ASSUME NEW a \in Actions, Reject(a) PROVE Typed'
  BY <1>t, <1>25
  DEF Reject, Move, stored, executions, cancelling, shutdown, Typed, TypeOK, RealWaits,
      TaskStatus
<1>26. CASE Pause
  BY <1>t, <1>26
  DEF Pause, Move, stored, executions, cancelling, shutdown, Typed, TypeOK, RealWaits,
      TaskStatus
<1>27. CASE Resume
  BY <1>t, <1>27
  DEF Resume, SetTask, stored, executions, cancelling, shutdown, bounds, Typed, TypeOK,
      RealWaits, TaskStatus
<1>28. CASE Cancel
  BY <1>t, <1>28
  DEF Cancel, Move, SetTask, stored, executions, shutdown, Typed, TypeOK, RealWaits, TaskStatus
<1>29. CASE CancelExecution
  BY <1>t, <1>29
  DEF CancelExecution, Inflight, stored, shutdown, bounds, Typed, TypeOK, RealWaits, TaskStatus
<1>30. CASE CancelReturns
  BY <1>t, <1>30
  DEF CancelReturns, Awaited, stored, executions, shutdown, bounds, Typed, TypeOK, RealWaits,
      TaskStatus
<1>31. CASE Quit
  <2>1. PICK d \in Drain : /\ drains' = Append(drains, d)
                           /\ task' \in {task, "paused"} /\ pauser' \in {pauser, "quit"}
    <3> DEFINE d == [claims |-> Inflight, owned |-> Inflight # {},
                     interrupted |-> Pausable(Inflight # {}), ended |-> FALSE]
    <3>1. d \in Drain
      BY DEF Drain, Inflight, Pausable
    <3> QED
      BY <1>31, <3>1 DEF Quit
  <2>2. drains' \in Seq(Drain)
    BY <1>t, <2>1
  <2>3. \A i \in DOMAIN drains' : drains'[i] \in Drain
    BY <2>2
  <2> QED
    BY <1>t, <1>31, <2>1, <2>2, <2>3
    DEF Quit, executions, cancelling, Inflight, Typed, TypeOK, TaskStatus, Drain
<1>32. CASE Deadline
  BY <1>t, <1>32 DEF Deadline, stored, executions, cancelling, Typed, TypeOK, RealWaits, TaskStatus
<1>33. CASE Crash
  BY <1>t, <1>33, LaunchTyped DEF Crash
<1>34. CASE Launch
  BY <1>t, <1>34, LaunchTyped DEF Launch, bounds
<1>35. ASSUME NEW i \in DOMAIN drains, DrainEnds(i) PROVE Typed'
  <2>1. drains[i] \in Drain
    BY <1>t, <1>35
  <2>2. [drains[i] EXCEPT !.ended = TRUE] \in Drain
    BY <2>1 DEF Drain
  <2>3. drains' = [drains EXCEPT ![i] = [drains[i] EXCEPT !.ended = TRUE]]
    BY <1>35 DEF DrainEnds
  <2>4. drains' \in Seq(Drain)
    BY <1>t, <2>2, <2>3
  <2>5. \A j \in DOMAIN drains' : drains'[j] \in Drain
    BY <2>4
  <2>6. task' \in TaskStatus
    BY <1>t, <1>35 DEF DrainEnds, LeftAt, TypeOK, TaskStatus
  <2>7. broken' \in BOOLEAN
    BY <1>t, <1>35 DEF DrainEnds, TypeOK, Unsafe
  <2> QED
    BY <1>t, <1>35, <2>4, <2>5, <2>6, <2>7
    DEF DrainEnds, executions, cancelling, bounds, Typed, TypeOK, Drain
<1>36. CASE UNCHANGED vars
  BY <1>t, <1>36
  DEF vars, stored, executions, cancelling, shutdown, bounds, Typed, TypeOK, RealWaits,
      TaskStatus
<1> QED
  BY <1>1, <1>2, <1>3, <1>4, <1>5, <1>6, <1>7, <1>8, <1>9, <1>10, <1>11, <1>12, <1>13, <1>14,
     <1>15, <1>16, <1>17, <1>18, <1>19, <1>20, <1>21, <1>22, <1>23, <1>24, <1>25, <1>26, <1>27,
     <1>28, <1>29, <1>30, <1>31, <1>32, <1>33, <1>34, <1>35, <1>36
  DEF Next, ExecutionStep, CancelStep

-----------------------------------------------------------------------------
(* Executions, their rows and the cancellation *)

\* What an execution writes, and where it goes on after a fault, keeps its rows as far as it has come.
LEMMA RowsKept ==
  ASSUME Typed, Rows, [Next]_vars
  PROVE  Rows'
<1>t. /\ pc \in [Actions -> RealWaits \cup
         {"entered", "claiming", "checking", "creating", "starting", "moving", "guarding", "recording",
          "deciding", "closing", "settling", "writing", "failing", "judging", "blocking", "ending",
          "finishing"}]
      /\ consent \in [Actions -> {"pending", "approved", "rejected", "executed"}]
      /\ exec \in [Actions -> {"none", "running", "succeeded", "failed", "uncertain"}]
      /\ step \in [Actions -> {"none", "running", "succeeded", "failed"}]
      /\ outcome \in [Actions -> {"ok", "error", "cancelled", "failed", "unconfirmed"}]
      /\ target \in [Actions -> {"none", "waiting_for_approval", "ready_for_review"}]
      /\ mutating \subseteq Actions \ Checks
  BY DEF Typed, TypeOK
<1>1. ASSUME NEW a \in Actions, Execute(a) PROVE Rows'
  BY <1>t, <1>1
  DEF Execute, At, Goto, Yields, stored, Rows, RowInv, PcInv, Entering, Stepless, Doing,
      Recorded, Trying, Failed, Catching
<1>2. ASSUME NEW a \in Actions, Register(a) PROVE Rows'
  BY <1>t, <1>2
  DEF Register, At, Goto, stored, Rows, RowInv, PcInv, Entering, Stepless, Doing, Recorded,
      Trying, Failed, Catching
<1>3. ASSUME NEW a \in Actions, Claim(a) PROVE Rows'
  BY <1>t, <1>3
  DEF Claim, At, Goto, Claimable, Rows, RowInv, PcInv, Entering, Stepless, Doing, Recorded,
      Trying, Failed, Catching
<1>4. ASSUME NEW a \in Actions, Check(a) PROVE Rows'
  BY <1>t, <1>4
  DEF Check, At, Goto, Catch, stored, Rows, RowInv, PcInv, Entering, Stepless, Doing, Recorded,
      Trying, Failed, Catching
<1>5. ASSUME NEW a \in Actions, Prepare(a) PROVE Rows'
  BY <1>t, <1>5
  DEF Prepare, At, Goto, Yields, stored, Rows, RowInv, PcInv, Entering, Stepless, Doing,
      Recorded, Trying, Failed, Catching
<1>6. ASSUME NEW a \in Actions, CreateStep(a) PROVE Rows'
  BY <1>t, <1>6
  DEF CreateStep, At, Goto, Rows, RowInv, PcInv, Entering, Stepless, Doing, Recorded, Trying,
      Failed, Catching
<1>7. ASSUME NEW a \in Actions, Start(a) PROVE Rows'
  BY <1>t, <1>7
  DEF Start, At, Goto, Catch, stored, Rows, RowInv, PcInv, Entering, Stepless, Doing, Recorded,
      Trying, Failed, Catching
<1>8. ASSUME NEW a \in Actions, MoveToRunning(a) PROVE Rows'
  BY <1>t, <1>8
  DEF MoveToRunning, At, Goto, Catch, SetTask, Rows, RowInv, PcInv, Entering, Stepless, Doing,
      Recorded, Trying, Failed, Catching
<1>9. ASSUME NEW a \in Actions, Guard(a) PROVE Rows'
  BY <1>t, <1>9
  DEF Guard, At, Goto, Catch, stored, Rows, RowInv, PcInv, Entering, Stepless, Doing, Recorded,
      Trying, Failed, Catching
<1>10. ASSUME NEW a \in Actions, BeginMutation(a) PROVE Rows'
  BY <1>t, <1>10
  DEF BeginMutation, At, Goto, Rows, RowInv, PcInv, Entering, Stepless, Doing, Recorded, Trying,
      Failed, Catching
<1>11. ASSUME NEW a \in Actions, WorkEnds(a) PROVE Rows'
  BY <1>t, <1>11
  DEF WorkEnds, At, Goto, Catch, stored, Rows, RowInv, PcInv, Entering, Stepless, Doing,
      Recorded, Trying, Failed, Catching
<1>12. ASSUME NEW a \in Actions, RecordStep(a) PROVE Rows'
  BY <1>t, <1>12
  DEF RecordStep, At, Goto, Rows, RowInv, PcInv, Entering, Stepless, Doing, Recorded, Trying,
      Failed, Catching
<1>13. ASSUME NEW a \in Actions, Decide(a) PROVE Rows'
  BY <1>t, <1>13
  DEF Decide, At, Goto, Catch, Rows, RowInv, PcInv, Entering, Stepless, Doing, Recorded, Trying,
      Failed, Catching
<1>14. ASSUME NEW a \in Actions, CloseStep(a) PROVE Rows'
  BY <1>t, <1>14
  DEF CloseStep, At, Goto, PlanStepAfter, Rows, RowInv, PcInv, Entering, Stepless, Doing,
      Recorded, Trying, Failed, Catching
<1>15. ASSUME NEW a \in Actions, Settle(a) PROVE Rows'
  BY <1>t, <1>15
  DEF Settle, At, Goto, stored, Rows, RowInv, PcInv, Entering, Stepless, Doing, Recorded,
      Trying, Failed, Catching
<1>16. ASSUME NEW a \in Actions, WriteTask(a) PROVE Rows'
  BY <1>t, <1>16
  DEF WriteTask, At, Goto, Catch, SetTask, Rows, RowInv, PcInv, Entering, Stepless, Doing,
      Recorded, Trying, Failed, Catching
<1>17. ASSUME NEW a \in Actions, Report(a) PROVE Rows'
  BY <1>t, <1>17
  DEF Report, At, Goto, stored, Rows, RowInv, PcInv, Entering, Stepless, Doing, Recorded,
      Trying, Failed, Catching
<1>18. ASSUME NEW a \in Actions, FailStep(a) PROVE Rows'
  BY <1>t, <1>18
  DEF FailStep, At, Goto, Rows, RowInv, PcInv, Entering, Stepless, Doing, Recorded, Trying,
      Failed, Catching
<1>19. ASSUME NEW a \in Actions, Judge(a) PROVE Rows'
  BY <1>t, <1>19
  DEF Judge, At, Goto, stored, Rows, RowInv, PcInv, Entering, Stepless, Doing, Recorded, Trying,
      Failed, Catching
<1>20. ASSUME NEW a \in Actions, BlockTask(a) PROVE Rows'
  BY <1>t, <1>20
  DEF BlockTask, At, Goto, SetTask, Rows, RowInv, PcInv, Entering, Stepless, Doing, Recorded,
      Trying, Failed, Catching
<1>21. ASSUME NEW a \in Actions, EndMutation(a) PROVE Rows'
  BY <1>t, <1>21
  DEF EndMutation, At, Goto, Rows, RowInv, PcInv, Entering, Stepless, Doing, Recorded, Trying,
      Failed, Catching
<1>22. ASSUME NEW a \in Actions, Finish(a) PROVE Rows'
  BY <1>t, <1>22
  DEF Finish, At, Goto, PlanStepAfter, Result, Rows, RowInv, PcInv, Entering, Stepless, Doing,
      Recorded, Trying, Failed, Catching
<1>23. ASSUME NEW a \in Actions, StorageFails(a) PROVE Rows'
  BY <1>t, <1>23
  DEF StorageFails, Goto, AfterFault, RealWaits, stored, Rows, RowInv, PcInv, Entering,
      Stepless, Doing, Recorded, Trying, Failed, Catching
<1>24. ASSUME NEW a \in Actions, Approve(a) PROVE Rows'
  BY <1>t, <1>24
  DEF Approve, executions, Rows, RowInv, PcInv, Entering, Stepless, Doing, Recorded, Trying,
      Failed, Catching
<1>25. ASSUME NEW a \in Actions, Reject(a) PROVE Rows'
  BY <1>t, <1>25
  DEF Reject, Move, executions, Rows, RowInv, PcInv, Entering, Stepless, Doing, Recorded,
      Trying, Failed, Catching
<1>26. CASE Pause
  BY <1>t, <1>26
  DEF Pause, Move, executions, Rows, RowInv, PcInv, Entering, Stepless, Doing, Recorded, Trying,
      Failed, Catching
<1>27. CASE Resume
  BY <1>t, <1>27
  DEF Resume, SetTask, executions, Rows, RowInv, PcInv, Entering, Stepless, Doing, Recorded,
      Trying, Failed, Catching
<1>28. CASE Cancel
  BY <1>t, <1>28
  DEF Cancel, Move, SetTask, stored, executions, Rows, RowInv, PcInv, Entering, Stepless, Doing,
      Recorded, Trying, Failed, Catching
<1>29. CASE CancelExecution
  BY <1>t, <1>29
  DEF CancelExecution, Inflight, stored, Rows, RowInv, PcInv, Entering, Stepless, Doing,
      Recorded, Trying, Failed, Catching
<1>30. CASE CancelReturns
  BY <1>t, <1>30
  DEF CancelReturns, Awaited, stored, executions, Rows, RowInv, PcInv, Entering, Stepless,
      Doing, Recorded, Trying, Failed, Catching
<1>31. CASE Quit
  BY <1>t, <1>31
  DEF Quit, MayQuit, Yields, Rows, RowInv, PcInv, Entering, Stepless, Doing, Recorded, Trying,
      Failed, Catching
<1>32. CASE Deadline
  BY <1>t, <1>32
  DEF Deadline, stored, executions, Rows, RowInv, PcInv, Entering, Stepless, Doing, Recorded,
      Trying, Failed, Catching
<1>33. CASE Crash
  BY <1>t, <1>33
  DEF Crash, Launched, Rows, RowInv, PcInv, Entering, Stepless, Doing, Recorded, Trying, Failed,
      Catching
<1>34. CASE Launch
  BY <1>t, <1>34
  DEF Launch, Launched, Rows, RowInv, PcInv, Entering, Stepless, Doing, Recorded, Trying,
      Failed, Catching
<1>35. ASSUME NEW i \in DOMAIN drains, DrainEnds(i) PROVE Rows'
  BY <1>t, <1>35
  DEF DrainEnds, executions, Rows, RowInv, PcInv, Entering, Stepless, Doing, Recorded, Trying,
      Failed, Catching
<1>36. CASE UNCHANGED vars
  BY <1>t, <1>36
  DEF vars, stored, executions, Rows, RowInv, PcInv, Entering, Stepless, Doing, Recorded,
      Trying, Failed, Catching
<1> QED
  BY <1>1, <1>2, <1>3, <1>4, <1>5, <1>6, <1>7, <1>8, <1>9, <1>10, <1>11, <1>12, <1>13, <1>14,
     <1>15, <1>16, <1>17, <1>18, <1>19, <1>20, <1>21, <1>22, <1>23, <1>24, <1>25, <1>26, <1>27,
     <1>28, <1>29, <1>30, <1>31, <1>32, <1>33, <1>34, <1>35, <1>36
  DEF Next, ExecutionStep, CancelStep

\* Nobody takes a task back from its cancellation, and nothing is claimed for a cancelled task.
LEMMA CancelKept ==
  ASSUME Typed, Rows, CancelInv, [Next]_vars
  PROVE  CancelInv'
<1>t. DOMAIN pc = Actions
  BY DEF Typed, TypeOK
<1>1. ASSUME NEW a \in Actions, Execute(a) PROVE CancelInv'
  BY <1>t, <1>1 DEF Execute, At, Goto, Yields, stored, cancelling, CancelInv, Entering
<1>2. ASSUME NEW a \in Actions, Register(a) PROVE CancelInv'
  BY <1>t, <1>2 DEF Register, At, Goto, stored, cancelling, CancelInv, Entering
<1>3. ASSUME NEW a \in Actions, Claim(a) PROVE CancelInv'
  BY <1>t, <1>3 DEF Claim, At, Goto, Claimable, cancelling, Closed, CancelInv, Entering
<1>4. ASSUME NEW a \in Actions, Check(a) PROVE CancelInv'
  BY <1>t, <1>4 DEF Check, At, Goto, Catch, stored, cancelling, CancelInv, Entering
<1>5. ASSUME NEW a \in Actions, Prepare(a) PROVE CancelInv'
  BY <1>t, <1>5 DEF Prepare, At, Goto, Yields, stored, cancelling, CancelInv, Entering
<1>6. ASSUME NEW a \in Actions, CreateStep(a) PROVE CancelInv'
  BY <1>t, <1>6 DEF CreateStep, At, Goto, cancelling, CancelInv, Entering
<1>7. ASSUME NEW a \in Actions, Start(a) PROVE CancelInv'
  BY <1>t, <1>7 DEF Start, At, Goto, Catch, stored, cancelling, CancelInv, Entering
<1>8. ASSUME NEW a \in Actions, MoveToRunning(a) PROVE CancelInv'
  BY <1>t, <1>8
  DEF MoveToRunning, At, Goto, Catch, SetTask, cancelling, Allowed, AllowedFrom, CancelInv,
      Entering
<1>9. ASSUME NEW a \in Actions, Guard(a) PROVE CancelInv'
  BY <1>t, <1>9 DEF Guard, At, Goto, Catch, stored, cancelling, CancelInv, Entering
<1>10. ASSUME NEW a \in Actions, BeginMutation(a) PROVE CancelInv'
  BY <1>t, <1>10 DEF BeginMutation, At, Goto, cancelling, CancelInv, Entering
<1>11. ASSUME NEW a \in Actions, WorkEnds(a) PROVE CancelInv'
  BY <1>t, <1>11 DEF WorkEnds, At, Goto, Catch, stored, cancelling, CancelInv, Entering
<1>12. ASSUME NEW a \in Actions, RecordStep(a) PROVE CancelInv'
  BY <1>t, <1>12 DEF RecordStep, At, Goto, cancelling, CancelInv, Entering
<1>13. ASSUME NEW a \in Actions, Decide(a) PROVE CancelInv'
  BY <1>t, <1>13 DEF Decide, At, Goto, Catch, cancelling, CancelInv, Entering
<1>14. ASSUME NEW a \in Actions, CloseStep(a) PROVE CancelInv'
  BY <1>t, <1>14 DEF CloseStep, At, Goto, PlanStepAfter, cancelling, CancelInv, Entering
<1>15. ASSUME NEW a \in Actions, Settle(a) PROVE CancelInv'
  BY <1>t, <1>15 DEF Settle, At, Goto, stored, cancelling, CancelInv, Entering
<1>16. ASSUME NEW a \in Actions, WriteTask(a) PROVE CancelInv'
  BY <1>t, <1>16
  DEF WriteTask, At, Goto, Catch, SetTask, cancelling, Allowed, AllowedFrom, CancelInv, Entering
<1>17. ASSUME NEW a \in Actions, Report(a) PROVE CancelInv'
  BY <1>t, <1>17 DEF Report, At, Goto, stored, cancelling, CancelInv, Entering
<1>18. ASSUME NEW a \in Actions, FailStep(a) PROVE CancelInv'
  BY <1>t, <1>18 DEF FailStep, At, Goto, cancelling, CancelInv, Entering
<1>19. ASSUME NEW a \in Actions, Judge(a) PROVE CancelInv'
  BY <1>t, <1>19 DEF Judge, At, Goto, stored, cancelling, CancelInv, Entering
<1>20. ASSUME NEW a \in Actions, BlockTask(a) PROVE CancelInv'
  BY <1>t, <1>20
  DEF BlockTask, At, Goto, SetTask, cancelling, Allowed, AllowedFrom, CancelInv, Entering
<1>21. ASSUME NEW a \in Actions, EndMutation(a) PROVE CancelInv'
  BY <1>t, <1>21 DEF EndMutation, At, Goto, cancelling, CancelInv, Entering
<1>22. ASSUME NEW a \in Actions, Finish(a) PROVE CancelInv'
  BY <1>t, <1>22 DEF Finish, At, Goto, PlanStepAfter, Result, cancelling, CancelInv, Entering
<1>23. ASSUME NEW a \in Actions, StorageFails(a) PROVE CancelInv'
  BY <1>t, <1>23
  DEF StorageFails, Goto, AfterFault, RealWaits, stored, cancelling, CancelInv, Entering
<1>24. ASSUME NEW a \in Actions, Approve(a) PROVE CancelInv'
  BY <1>t, <1>24 DEF Approve, executions, cancelling, CancelInv, Entering
<1>25. ASSUME NEW a \in Actions, Reject(a) PROVE CancelInv'
  BY <1>t, <1>25 DEF Reject, Move, executions, cancelling, Closed, CancelInv, Entering
<1>26. CASE Pause
  BY <1>t, <1>26 DEF Pause, Move, executions, cancelling, CancelInv, Entering
<1>27. CASE Resume
  BY <1>t, <1>27
  DEF Resume, SetTask, executions, cancelling, Allowed, AllowedFrom, CancelInv, Entering
<1>28. CASE Cancel
  BY <1>t, <1>28 DEF Cancel, Move, SetTask, stored, executions, CancelInv, Entering
<1>29. CASE CancelExecution
  BY <1>t, <1>29 DEF CancelExecution, Inflight, stored, Typed, TypeOK, CancelInv, Entering
<1>30. CASE CancelReturns
  BY <1>t, <1>30 DEF CancelReturns, Awaited, stored, executions, Inflight, CancelInv, Entering
<1>31. CASE Quit
  BY <1>t, <1>31 DEF Quit, MayQuit, Yields, cancelling, Pausable, Inflight, CancelInv, Entering
<1>32. CASE Deadline
  BY <1>t, <1>32 DEF Deadline, stored, executions, cancelling, CancelInv, Entering
<1>33. CASE Crash
  BY <1>t, <1>33 DEF Crash, Launched, CancelInv, Entering
<1>34. CASE Launch
  BY <1>t, <1>34 DEF Launch, Launched, CancelInv, Entering
<1>35. ASSUME NEW i \in DOMAIN drains, DrainEnds(i) PROVE CancelInv'
  BY <1>t, <1>35 DEF DrainEnds, executions, cancelling, LeftAt, Pausable, CancelInv, Entering
<1>36. CASE UNCHANGED vars
  BY <1>t, <1>36 DEF vars, stored, executions, cancelling, CancelInv, Entering
<1> QED
  BY <1>1, <1>2, <1>3, <1>4, <1>5, <1>6, <1>7, <1>8, <1>9, <1>10, <1>11, <1>12, <1>13, <1>14,
     <1>15, <1>16, <1>17, <1>18, <1>19, <1>20, <1>21, <1>22, <1>23, <1>24, <1>25, <1>26, <1>27,
     <1>28, <1>29, <1>30, <1>31, <1>32, <1>33, <1>34, <1>35, <1>36
  DEF Next, ExecutionStep, CancelStep

\* Without a fault, an execution that ends has ended its claim, its step and its mutation.
LEMMA FaultlessKept ==
  ASSUME Typed, Rows, FaultlessInv, Drains, [Next]_vars
  PROVE  FaultlessInv'
<1>t. DOMAIN pc = Actions /\ DOMAIN exec = Actions /\ DOMAIN step = Actions /\ faults \in Nat
  BY DEF Typed, TypeOK
<1>1. ASSUME NEW a \in Actions, Execute(a) PROVE FaultlessInv'
  BY <1>t, <1>1
  DEF Execute, At, Goto, Yields, stored, bounds, FaultlessInv, Rows, RowInv, PcInv, Entering,
      Stepless, Doing, Recorded, Trying, Failed, Catching
<1>2. ASSUME NEW a \in Actions, Register(a) PROVE FaultlessInv'
  BY <1>t, <1>2
  DEF Register, At, Goto, stored, bounds, FaultlessInv, Rows, RowInv, PcInv, Entering, Stepless,
      Doing, Recorded, Trying, Failed, Catching
<1>3. ASSUME NEW a \in Actions, Claim(a) PROVE FaultlessInv'
  BY <1>t, <1>3
  DEF Claim, At, Goto, Claimable, bounds, FaultlessInv, Rows, RowInv, PcInv, Entering, Stepless,
      Doing, Recorded, Trying, Failed, Catching
<1>4. ASSUME NEW a \in Actions, Check(a) PROVE FaultlessInv'
  BY <1>t, <1>4
  DEF Check, At, Goto, Catch, stored, bounds, FaultlessInv, Rows, RowInv, PcInv, Entering,
      Stepless, Doing, Recorded, Trying, Failed, Catching
<1>5. ASSUME NEW a \in Actions, Prepare(a) PROVE FaultlessInv'
  BY <1>t, <1>5
  DEF Prepare, At, Goto, Yields, stored, bounds, FaultlessInv, Rows, RowInv, PcInv, Entering,
      Stepless, Doing, Recorded, Trying, Failed, Catching
<1>6. ASSUME NEW a \in Actions, CreateStep(a) PROVE FaultlessInv'
  BY <1>t, <1>6
  DEF CreateStep, At, Goto, bounds, FaultlessInv, Rows, RowInv, PcInv, Entering, Stepless,
      Doing, Recorded, Trying, Failed, Catching
<1>7. ASSUME NEW a \in Actions, Start(a) PROVE FaultlessInv'
  BY <1>t, <1>7
  DEF Start, At, Goto, Catch, stored, bounds, FaultlessInv, Rows, RowInv, PcInv, Entering,
      Stepless, Doing, Recorded, Trying, Failed, Catching
<1>8. ASSUME NEW a \in Actions, MoveToRunning(a) PROVE FaultlessInv'
  BY <1>t, <1>8
  DEF MoveToRunning, At, Goto, Catch, SetTask, bounds, FaultlessInv, Rows, RowInv, PcInv,
      Entering, Stepless, Doing, Recorded, Trying, Failed, Catching
<1>9. ASSUME NEW a \in Actions, Guard(a) PROVE FaultlessInv'
  BY <1>t, <1>9
  DEF Guard, At, Goto, Catch, stored, bounds, FaultlessInv, Rows, RowInv, PcInv, Entering,
      Stepless, Doing, Recorded, Trying, Failed, Catching
<1>10. ASSUME NEW a \in Actions, BeginMutation(a) PROVE FaultlessInv'
  BY <1>t, <1>10
  DEF BeginMutation, At, Goto, bounds, FaultlessInv, Rows, RowInv, PcInv, Entering, Stepless,
      Doing, Recorded, Trying, Failed, Catching
<1>11. ASSUME NEW a \in Actions, WorkEnds(a) PROVE FaultlessInv'
  BY <1>t, <1>11
  DEF WorkEnds, At, Goto, Catch, stored, bounds, FaultlessInv, Rows, RowInv, PcInv, Entering,
      Stepless, Doing, Recorded, Trying, Failed, Catching
<1>12. ASSUME NEW a \in Actions, RecordStep(a) PROVE FaultlessInv'
  BY <1>t, <1>12
  DEF RecordStep, At, Goto, bounds, FaultlessInv, Rows, RowInv, PcInv, Entering, Stepless,
      Doing, Recorded, Trying, Failed, Catching
<1>13. ASSUME NEW a \in Actions, Decide(a) PROVE FaultlessInv'
  BY <1>t, <1>13
  DEF Decide, At, Goto, Catch, bounds, FaultlessInv, Rows, RowInv, PcInv, Entering, Stepless,
      Doing, Recorded, Trying, Failed, Catching
<1>14. ASSUME NEW a \in Actions, CloseStep(a) PROVE FaultlessInv'
  BY <1>t, <1>14
  DEF CloseStep, At, Goto, PlanStepAfter, bounds, FaultlessInv, Rows, RowInv, PcInv, Entering,
      Stepless, Doing, Recorded, Trying, Failed, Catching
<1>15. ASSUME NEW a \in Actions, Settle(a) PROVE FaultlessInv'
  BY <1>t, <1>15
  DEF Settle, At, Goto, stored, bounds, FaultlessInv, Rows, RowInv, PcInv, Entering, Stepless,
      Doing, Recorded, Trying, Failed, Catching
<1>16. ASSUME NEW a \in Actions, WriteTask(a) PROVE FaultlessInv'
  BY <1>t, <1>16
  DEF WriteTask, At, Goto, Catch, SetTask, bounds, FaultlessInv, Rows, RowInv, PcInv, Entering,
      Stepless, Doing, Recorded, Trying, Failed, Catching
<1>17. ASSUME NEW a \in Actions, Report(a) PROVE FaultlessInv'
  BY <1>t, <1>17
  DEF Report, At, Goto, stored, bounds, FaultlessInv, Rows, RowInv, PcInv, Entering, Stepless,
      Doing, Recorded, Trying, Failed, Catching
<1>18. ASSUME NEW a \in Actions, FailStep(a) PROVE FaultlessInv'
  BY <1>t, <1>18
  DEF FailStep, At, Goto, bounds, FaultlessInv, Rows, RowInv, PcInv, Entering, Stepless, Doing,
      Recorded, Trying, Failed, Catching
<1>19. ASSUME NEW a \in Actions, Judge(a) PROVE FaultlessInv'
  BY <1>t, <1>19
  DEF Judge, At, Goto, stored, bounds, FaultlessInv, Rows, RowInv, PcInv, Entering, Stepless,
      Doing, Recorded, Trying, Failed, Catching
<1>20. ASSUME NEW a \in Actions, BlockTask(a) PROVE FaultlessInv'
  BY <1>t, <1>20
  DEF BlockTask, At, Goto, SetTask, bounds, FaultlessInv, Rows, RowInv, PcInv, Entering,
      Stepless, Doing, Recorded, Trying, Failed, Catching
<1>21. ASSUME NEW a \in Actions, EndMutation(a) PROVE FaultlessInv'
  BY <1>t, <1>21
  DEF EndMutation, At, Goto, bounds, FaultlessInv, Rows, RowInv, PcInv, Entering, Stepless,
      Doing, Recorded, Trying, Failed, Catching
<1>22. ASSUME NEW a \in Actions, Finish(a) PROVE FaultlessInv'
  BY <1>t, <1>22
  DEF Finish, At, Goto, PlanStepAfter, Result, bounds, FaultlessInv, Rows, RowInv, PcInv,
      Entering, Stepless, Doing, Recorded, Trying, Failed, Catching
<1>23. ASSUME NEW a \in Actions, StorageFails(a) PROVE FaultlessInv'
  BY <1>t, <1>23
  DEF StorageFails, Goto, AfterFault, RealWaits, stored, FaultlessInv, Rows, RowInv, PcInv,
      Entering, Stepless, Doing, Recorded, Trying, Failed, Catching
<1>24. ASSUME NEW a \in Actions, Approve(a) PROVE FaultlessInv'
  BY <1>t, <1>24
  DEF Approve, executions, bounds, FaultlessInv, Rows, RowInv, PcInv, Entering, Stepless, Doing,
      Recorded, Trying, Failed, Catching
<1>25. ASSUME NEW a \in Actions, Reject(a) PROVE FaultlessInv'
  BY <1>t, <1>25
  DEF Reject, Move, executions, FaultlessInv, Rows, RowInv, PcInv, Entering, Stepless, Doing,
      Recorded, Trying, Failed, Catching
<1>26. CASE Pause
  BY <1>t, <1>26
  DEF Pause, Move, executions, FaultlessInv, Rows, RowInv, PcInv, Entering, Stepless, Doing,
      Recorded, Trying, Failed, Catching
<1>27. CASE Resume
  BY <1>t, <1>27
  DEF Resume, SetTask, executions, bounds, FaultlessInv, Rows, RowInv, PcInv, Entering,
      Stepless, Doing, Recorded, Trying, Failed, Catching
<1>28. CASE Cancel
  BY <1>t, <1>28
  DEF Cancel, Move, SetTask, stored, executions, FaultlessInv, Rows, RowInv, PcInv, Entering,
      Stepless, Doing, Recorded, Trying, Failed, Catching
<1>29. CASE CancelExecution
  BY <1>t, <1>29
  DEF CancelExecution, Inflight, stored, bounds, FaultlessInv, Rows, RowInv, PcInv, Entering,
      Stepless, Doing, Recorded, Trying, Failed, Catching
<1>30. CASE CancelReturns
  BY <1>t, <1>30
  DEF CancelReturns, Awaited, stored, executions, bounds, FaultlessInv, Rows, RowInv, PcInv,
      Entering, Stepless, Doing, Recorded, Trying, Failed, Catching
<1>31. CASE Quit
  BY <1>t, <1>31
  DEF Quit, MayQuit, Yields, FaultlessInv, Rows, RowInv, PcInv, Entering, Stepless, Doing,
      Recorded, Trying, Failed, Catching
<1>32. CASE Deadline
  BY <1>t, <1>32
  DEF Deadline, stored, executions, FaultlessInv, Rows, RowInv, PcInv, Entering, Stepless,
      Doing, Recorded, Trying, Failed, Catching
<1>33. CASE Crash
  BY <1>t, <1>33
  DEF Crash, Launched, FaultlessInv, Rows, RowInv, PcInv, Entering, Stepless, Doing, Recorded,
      Trying, Failed, Catching
<1>34. CASE Launch
  BY <1>t, <1>34, ClosedIsOver DEF Launch, Launched, bounds, FaultlessInv, Doing
<1>35. ASSUME NEW i \in DOMAIN drains, DrainEnds(i) PROVE FaultlessInv'
  BY <1>t, <1>35
  DEF DrainEnds, executions, bounds, FaultlessInv, Rows, RowInv, PcInv, Entering, Stepless,
      Doing, Recorded, Trying, Failed, Catching
<1>36. CASE UNCHANGED vars
  BY <1>t, <1>36
  DEF vars, stored, executions, bounds, FaultlessInv, Rows, RowInv, PcInv, Entering, Stepless,
      Doing, Recorded, Trying, Failed, Catching
<1> QED
  BY <1>1, <1>2, <1>3, <1>4, <1>5, <1>6, <1>7, <1>8, <1>9, <1>10, <1>11, <1>12, <1>13, <1>14,
     <1>15, <1>16, <1>17, <1>18, <1>19, <1>20, <1>21, <1>22, <1>23, <1>24, <1>25, <1>26, <1>27,
     <1>28, <1>29, <1>30, <1>31, <1>32, <1>33, <1>34, <1>35, <1>36
  DEF Next, ExecutionStep, CancelStep

-----------------------------------------------------------------------------
(* Drains *)

\* While an execution is on its way, no drain has ended.
LEMMA NoneEnded ==
  ASSUME Typed, Drains, NEW a \in Actions, pc[a] # "off"
  PROVE  app # "closed" /\ \A i \in DOMAIN drains : ~drains[i].ended
<1>1. \A i \in DOMAIN drains : ~drains[i].ended
  BY DEF Drains, Left
<1> QED
  BY <1>1, ClosedIsOver

\* What an execution that runs does to its rows and its task, no drain notices.
LEMMA RunningKeepsDrains ==
  ASSUME Typed, DrainInv, NEW a \in Actions, pc[a] \notin {"off", "entered"},
         NEW there, Goto(a, there), pauser' \in {pauser, "none"},
         UNCHANGED <<aborted, cancelling, shutdown>>
  PROVE  DrainInv'
<1>1. app # "closed" /\ \A i \in DOMAIN drains : ~drains[i].ended
  BY NoneEnded DEF DrainInv
<1>2. 1 \in DOMAIN drains \/ drains = <<>>
  BY DEF Typed
<1>3. UNCHANGED <<app, sealed, drains, broken>> /\ Drains
  BY DEF shutdown, DrainInv
<1>4. Drains'
  BY <1>1, <1>3 DEF Drains
<1>5. DOMAIN pc = Actions
  BY DEF Typed, TypeOK
<1>6. Stopped'
  BY <1>3, <1>5 DEF DrainInv, Stopped, Inflight, Goto
<1>7. Chosen'
  BY <1>3 DEF DrainInv, Chosen
<1>8. Resting'
  BY <1>3 DEF DrainInv, Resting
<1> QED
  BY <1>4, <1>6, <1>7, <1>8 DEF DrainInv

\* Where nothing is sealed there is no drain.
LEMMA OpenKeepsDrains ==
  ASSUME Typed, DrainInv, ~sealed, UNCHANGED shutdown
  PROVE  DrainInv'
<1>1. UNCHANGED <<app, sealed, drains, broken>> /\ drains = <<>> /\ app = "open"
  BY DEF shutdown, DrainInv, Drains, Typed, TypeOK
<1>2. Drains' /\ Stopped' /\ Chosen' /\ Resting'
  BY <1>1 DEF DrainInv, Drains, Stopped, Chosen, Resting
<1> QED
  BY <1>2 DEF DrainInv

\* What the seal of a quit finds, and what it leaves alone.
LEMMA QuitKeepsDrains ==
  ASSUME Typed, DrainInv, Quit
  PROVE  DrainInv'
<1>1. PICK d \in Drain :
        /\ d = [claims |-> Inflight, owned |-> Inflight # {},
                interrupted |-> Pausable(Inflight # {}), ended |-> FALSE]
        /\ drains' = Append(drains, d)
        /\ \/ Pausable(d.owned) /\ d.interrupted /\ task' = "paused" /\ pauser' = "quit"
           \/ ~Pausable(d.owned) /\ ~d.interrupted /\ task' = task /\ pauser' = pauser
  <2> DEFINE e == [claims |-> Inflight, owned |-> Inflight # {},
                   interrupted |-> Pausable(Inflight # {}), ended |-> FALSE]
  <2>1. e \in Drain
    BY DEF Drain, Inflight, Pausable
  <2> QED
    BY <2>1 DEF Quit
<1>2. ~d.ended /\ d.owned = (Inflight # {})
  BY <1>1
<1>3. /\ app = "open" /\ app' = "draining" /\ sealed' /\ aborted' = aborted \cup Inflight
      /\ UNCHANGED <<exec, pc, cancel, broken>>
  BY DEF Quit, MayQuit, cancelling
<1>4. /\ drains \in Seq(Drain) /\ drains' \in Seq(Drain)
      /\ DOMAIN drains' = 1..(Len(drains) + 1) /\ Len(drains) \in Nat
      /\ DOMAIN drains = 1..Len(drains) /\ drains' # <<>>
      /\ \A i \in DOMAIN drains : i \in DOMAIN drains' /\ drains'[i] = drains[i]
      /\ drains'[Len(drains) + 1] = d
  BY <1>1 DEF Typed
<1>5. ASSUME NEW i \in DOMAIN drains', drains'[i].ended
      PROVE  Left(drains[i])' /\ \A j \in 1..i : drains'[j].ended
  <2>1. i \in DOMAIN drains /\ drains[i].ended
    BY <1>2, <1>4, <1>5
  <2>2. Left(drains[i]) /\ \A j \in 1..i : drains[j].ended
    BY <2>1 DEF DrainInv, Drains
  <2>3. Inflight = {} /\ task \notin {"drafting", "running"}
    BY <2>2 DEF Left, Inflight
  <2>4. task' = task
    BY <1>1, <1>2, <2>3 DEF Pausable
  <2>5. drains'[i] = drains[i]
    BY <1>4, <2>1
  <2>6. Left(drains[i])'
    BY <1>3, <2>2, <2>4, <2>5 DEF Left
  <2> QED
    BY <1>4, <2>1, <2>2, <2>6
<1>6. Drains'
  BY <1>3, <1>4, <1>5 DEF Drains
<1>7. Stopped'
  BY <1>3 DEF DrainInv, Stopped, Inflight
<1>8. Chosen'
  BY <1>1, <1>4 DEF DrainInv, Chosen
<1>9. Resting'
  <2> SUFFICES ASSUME Pipeline, drains'[1].interrupted, ~drains'[1].owned
               PROVE  /\ task' = "paused" /\ \A i \in DOMAIN drains' : ~drains'[i].owned
                      /\ \A a \in Actions : pc[a] \in {"off", "entered"}
    BY <1>3 DEF Resting
  <2>1. CASE drains = <<>>
    <3>1. DOMAIN drains' = {1} /\ drains'[1] = d
      BY <1>4, <2>1
    <3> QED
      BY <1>1, <1>2, <3>1 DEF Inflight
  <2>2. CASE drains # <<>>
    <3>1. 1 \in DOMAIN drains /\ drains'[1] = drains[1] /\ sealed
      BY <1>4, <2>2 DEF DrainInv, Drains
    <3>2. /\ task = "paused" /\ \A i \in DOMAIN drains : ~drains[i].owned
          /\ \A a \in Actions : pc[a] \in {"off", "entered"}
      BY <3>1 DEF DrainInv, Resting
    <3>3. ~d.owned
      BY <1>2, <3>2 DEF Inflight
    <3> QED
      BY <1>1, <1>4, <3>2, <3>3
  <2> QED
    BY <2>1, <2>2
<1> QED
  BY <1>6, <1>7, <1>8, <1>9 DEF DrainInv

\* A drain that ends finds everything over, and so leaves what earlier ones left.
LEMMA EndKeepsDrains ==
  ASSUME Typed, DrainInv, NEW i \in DOMAIN drains, DrainEnds(i)
  PROVE  DrainInv'
<1>1. PICK d \in Drain : d = drains[i]
  BY DEF Typed
<1>2. PICK e \in Drain : /\ e = [drains[i] EXCEPT !.ended = TRUE] /\ e.ended
                        /\ e.claims = d.claims /\ e.owned = d.owned /\ e.interrupted = d.interrupted
  <2> DEFINE f == [d EXCEPT !.ended = TRUE]
  <2>1. f \in Drain /\ f.ended
        /\ f.claims = d.claims /\ f.owned = d.owned /\ f.interrupted = d.interrupted
    BY DEF Drain
  <2> QED
    BY <1>1, <2>1
<1>3. /\ drains' = [drains EXCEPT ![i] = e] /\ ~d.ended
      /\ \A j \in 1..(i - 1) : drains[j].ended
      /\ \A a \in Actions : pc[a] = "off"
      /\ cancel \in {"no", "done"}
      /\ broken' = (broken \/ Unsafe(d)) /\ task' = LeftAt(d)
      /\ pauser' = IF task' = "paused" THEN (IF task = "paused" THEN pauser ELSE "quit") ELSE "none"
      /\ app' = IF app = "draining" /\ i = Len(drains)
                THEN (IF broken' THEN "open" ELSE "closed") ELSE app
      /\ UNCHANGED <<exec, pc, cancel, sealed, aborted>>
  BY <1>1, <1>2 DEF DrainEnds, Drained, At, executions, cancelling
<1>4. /\ drains' \in Seq(Drain) /\ DOMAIN drains' = DOMAIN drains /\ drains'[i] = e
      /\ DOMAIN drains = 1..Len(drains) /\ Len(drains) \in Nat /\ i \in Nat \ {0}
      /\ \A j \in DOMAIN drains : j # i => drains'[j] = drains[j]
  BY <1>3 DEF Typed
<1>5. d.owned \in BOOLEAN /\ d.interrupted \in BOOLEAN
  BY DEF Drain
<1>6. app # "closed" /\ sealed /\ drains # <<>>
  BY <1>1, <1>3, <1>4 DEF DrainInv, Drains
<1>7. task' \notin {"drafting", "running"} /\ (d.interrupted /\ d.owned => task' # "paused")
  BY <1>3, <1>5 DEF LeftAt, Pausable
<1>8. ASSUME NEW j \in DOMAIN drains', drains'[j].ended
      PROVE  Left(drains[j])' /\ \A k \in 1..j : drains'[k].ended
  <2>1. CASE j = i
    <3>1. drains'[j] = e
      BY <1>4, <2>1
    <3>2. Left(drains[j])'
      BY <1>2, <1>3, <1>7, <3>1 DEF Left, Unsafe
    <3> QED
      BY <1>2, <1>3, <1>4, <2>1, <3>2
  <2>2. CASE j # i
    <3>1. drains'[j] = drains[j] /\ drains[j].ended
      BY <1>4, <1>8, <2>2
    <3>2. Left(drains[j]) /\ \A k \in 1..j : drains[k].ended
      BY <1>4, <3>1 DEF DrainInv, Drains
    <3>3. task' = "paused" => task = "paused"
      BY <1>3, <1>5, <3>2 DEF Left, LeftAt, Pausable
    <3>4. Left(drains[j])'
      BY <1>3, <1>7, <3>1, <3>2, <3>3 DEF Left
    <3>5. ASSUME NEW k \in 1..j PROVE drains'[k].ended
      <4>1. k \in DOMAIN drains /\ drains[k].ended
        BY <1>4, <3>2
      <4> QED
        BY <1>2, <1>4, <4>1
    <3> QED
      BY <3>4, <3>5
  <2> QED
    BY <2>1, <2>2
<1>9. app' = "closed" => ~broken' /\ \A j \in DOMAIN drains' : drains'[j].ended
  BY <1>2, <1>3, <1>4, <1>6
<1>10. Drains'
  <2>1. sealed' <=> drains' # <<>>
    BY <1>3, <1>4, <1>6
  <2>2. app' # "open" => sealed'
    BY <1>3, <1>6
  <2> QED
    BY <1>8, <1>9, <2>1, <2>2 DEF Drains
<1>11. Stopped'
  BY <1>3 DEF DrainInv, Stopped, Inflight
<1>12. \A j \in DOMAIN drains' : j \in DOMAIN drains /\ drains'[j].interrupted = drains[j].interrupted
                                /\ drains'[j].owned = drains[j].owned
  BY <1>1, <1>2, <1>4
<1>13. Chosen'
  BY <1>3, <1>12 DEF DrainInv, Chosen
<1>14. Resting'
  <2>1. 1 \in DOMAIN drains'
    BY <1>4
  <2> SUFFICES ASSUME Pipeline, drains'[1].interrupted, ~drains'[1].owned
               PROVE  /\ task' = "paused" /\ \A j \in DOMAIN drains' : ~drains'[j].owned
                      /\ \A a \in Actions : pc'[a] \in {"off", "entered"}
    BY DEF Resting
  <2>2. task = "paused" /\ \A j \in DOMAIN drains : ~drains[j].owned
    BY <1>6, <1>12, <2>1 DEF DrainInv, Resting
  <2>3. ~d.owned
    BY <1>1, <2>2
  <2>4. task' = "paused"
    BY <1>3, <1>5, <2>2, <2>3 DEF LeftAt, Pausable
  <2> QED
    BY <1>3, <1>12, <2>2, <2>4
<1> QED
  BY <1>10, <1>11, <1>13, <1>14 DEF DrainInv

\* A new process has drained nothing.
LEMMA LaunchKeepsDrains ==
  ASSUME Launched
  PROVE  DrainInv'
<1>1. drains' = <<>> /\ ~sealed' /\ app' = "open"
  BY DEF Launched
<1>2. Drains' /\ Stopped' /\ Chosen' /\ Resting'
  BY <1>1 DEF Drains, Stopped, Chosen, Resting
<1> QED
  BY <1>2 DEF DrainInv

\* Every step keeps what is known of the drains.
LEMMA DrainsKept ==
  ASSUME Typed, DrainInv, [Next]_vars
  PROVE  DrainInv'
<1>c. cancel \in {"stored", "waiting"} => app # "closed" /\ \A i \in DOMAIN drains : ~drains[i].ended
  <2>1. \A i \in DOMAIN drains : drains[i].ended => cancel \notin {"stored", "waiting"}
    BY DEF DrainInv, Drains, Left
  <2>2. app = "closed" => 1 \in DOMAIN drains /\ drains[1].ended
    BY DEF Typed, DrainInv, Drains
  <2> QED
    BY <2>1, <2>2
<1>1. ASSUME NEW a \in Actions, Execute(a) PROVE DrainInv'
  BY <1>1, OpenKeepsDrains DEF Execute
<1>2. ASSUME NEW a \in Actions, Register(a) PROVE DrainInv'
  <2>1. app # "closed" /\ \A i \in DOMAIN drains : ~drains[i].ended
    BY <1>2, NoneEnded DEF Register, At, DrainInv
  <2>2. CASE sealed
    <3>1. /\ UNCHANGED <<app, sealed, drains, broken, aborted, task, pauser>>
          /\ pc' = [pc EXCEPT ![a] = "off"]
      BY <1>2, <2>2 DEF Register, Goto, shutdown, stored
    <3>2. Drains' /\ Chosen'
      BY <2>1, <3>1 DEF DrainInv, Drains, Chosen
    <3>3. DOMAIN pc = Actions
      BY DEF Typed, TypeOK
    <3>4. Stopped' /\ Resting'
      BY <3>1, <3>3 DEF DrainInv, Stopped, Inflight, Resting
    <3> QED
      BY <3>2, <3>4 DEF DrainInv
  <2>3. CASE ~sealed
    BY <1>2, <2>3, OpenKeepsDrains DEF Register
  <2> QED
    BY <2>2, <2>3
<1>3. ASSUME NEW a \in Actions, Claim(a) PROVE DrainInv'
  <2>1. pc[a] \notin {"off", "entered"} /\ \E there : Goto(a, there)
    BY <1>3 DEF Claim, At, Goto, Claimable
  <2>2. pauser' \in {pauser, "none"} /\ UNCHANGED <<aborted, cancelling, shutdown>>
    BY <1>3 DEF Claim, Claimable, stored
  <2> QED
    BY <2>1, <2>2, RunningKeepsDrains
<1>4. ASSUME NEW a \in Actions, Check(a) PROVE DrainInv'
  <2>1. pc[a] \notin {"off", "entered"} /\ \E there : Goto(a, there)
    BY <1>4 DEF Check, At, Goto, Catch
  <2>2. pauser' \in {pauser, "none"} /\ UNCHANGED <<aborted, cancelling, shutdown>>
    BY <1>4 DEF Check, Catch, stored
  <2> QED
    BY <2>1, <2>2, RunningKeepsDrains
<1>5. ASSUME NEW a \in Actions, Prepare(a) PROVE DrainInv'
  <2>1. pc[a] \notin {"off", "entered"} /\ \E there : Goto(a, there)
    BY <1>5 DEF Prepare, At, Goto, Yields
  <2>2. pauser' \in {pauser, "none"} /\ UNCHANGED <<aborted, cancelling, shutdown>>
    BY <1>5 DEF Prepare, Yields, stored
  <2> QED
    BY <2>1, <2>2, RunningKeepsDrains
<1>6. ASSUME NEW a \in Actions, CreateStep(a) PROVE DrainInv'
  <2>1. pc[a] \notin {"off", "entered"} /\ \E there : Goto(a, there)
    BY <1>6 DEF CreateStep, At, Goto
  <2>2. pauser' \in {pauser, "none"} /\ UNCHANGED <<aborted, cancelling, shutdown>>
    BY <1>6 DEF CreateStep, stored
  <2> QED
    BY <2>1, <2>2, RunningKeepsDrains
<1>7. ASSUME NEW a \in Actions, Start(a) PROVE DrainInv'
  <2>1. pc[a] \notin {"off", "entered"} /\ \E there : Goto(a, there)
    BY <1>7 DEF Start, At, Goto, Catch
  <2>2. pauser' \in {pauser, "none"} /\ UNCHANGED <<aborted, cancelling, shutdown>>
    BY <1>7 DEF Start, Catch, stored
  <2> QED
    BY <2>1, <2>2, RunningKeepsDrains
<1>8. ASSUME NEW a \in Actions, MoveToRunning(a) PROVE DrainInv'
  <2>1. pc[a] \notin {"off", "entered"} /\ \E there : Goto(a, there)
    BY <1>8 DEF MoveToRunning, At, Goto, Catch, SetTask
  <2>2. pauser' \in {pauser, "none"} /\ UNCHANGED <<aborted, cancelling, shutdown>>
    BY <1>8 DEF MoveToRunning, Catch, SetTask, stored
  <2> QED
    BY <2>1, <2>2, RunningKeepsDrains
<1>9. ASSUME NEW a \in Actions, Guard(a) PROVE DrainInv'
  <2>1. pc[a] \notin {"off", "entered"} /\ \E there : Goto(a, there)
    BY <1>9 DEF Guard, At, Goto, Catch
  <2>2. pauser' \in {pauser, "none"} /\ UNCHANGED <<aborted, cancelling, shutdown>>
    BY <1>9 DEF Guard, Catch, stored
  <2> QED
    BY <2>1, <2>2, RunningKeepsDrains
<1>10. ASSUME NEW a \in Actions, BeginMutation(a) PROVE DrainInv'
  <2>1. pc[a] \notin {"off", "entered"} /\ \E there : Goto(a, there)
    BY <1>10 DEF BeginMutation, At, Goto
  <2>2. pauser' \in {pauser, "none"} /\ UNCHANGED <<aborted, cancelling, shutdown>>
    BY <1>10 DEF BeginMutation, stored
  <2> QED
    BY <2>1, <2>2, RunningKeepsDrains
<1>11. ASSUME NEW a \in Actions, WorkEnds(a) PROVE DrainInv'
  <2>1. pc[a] \notin {"off", "entered"} /\ \E there : Goto(a, there)
    BY <1>11 DEF WorkEnds, At, Goto, Catch
  <2>2. pauser' \in {pauser, "none"} /\ UNCHANGED <<aborted, cancelling, shutdown>>
    BY <1>11 DEF WorkEnds, Catch, stored
  <2> QED
    BY <2>1, <2>2, RunningKeepsDrains
<1>12. ASSUME NEW a \in Actions, RecordStep(a) PROVE DrainInv'
  <2>1. pc[a] \notin {"off", "entered"} /\ \E there : Goto(a, there)
    BY <1>12 DEF RecordStep, At, Goto
  <2>2. pauser' \in {pauser, "none"} /\ UNCHANGED <<aborted, cancelling, shutdown>>
    BY <1>12 DEF RecordStep, stored
  <2> QED
    BY <2>1, <2>2, RunningKeepsDrains
<1>13. ASSUME NEW a \in Actions, Decide(a) PROVE DrainInv'
  <2>1. pc[a] \notin {"off", "entered"} /\ \E there : Goto(a, there)
    BY <1>13 DEF Decide, At, Goto, Catch
  <2>2. pauser' \in {pauser, "none"} /\ UNCHANGED <<aborted, cancelling, shutdown>>
    BY <1>13 DEF Decide, Catch, stored
  <2> QED
    BY <2>1, <2>2, RunningKeepsDrains
<1>14. ASSUME NEW a \in Actions, CloseStep(a) PROVE DrainInv'
  <2>1. pc[a] \notin {"off", "entered"} /\ \E there : Goto(a, there)
    BY <1>14 DEF CloseStep, At, Goto, PlanStepAfter
  <2>2. pauser' \in {pauser, "none"} /\ UNCHANGED <<aborted, cancelling, shutdown>>
    BY <1>14 DEF CloseStep, PlanStepAfter, stored
  <2> QED
    BY <2>1, <2>2, RunningKeepsDrains
<1>15. ASSUME NEW a \in Actions, Settle(a) PROVE DrainInv'
  <2>1. pc[a] \notin {"off", "entered"} /\ \E there : Goto(a, there)
    BY <1>15 DEF Settle, At, Goto
  <2>2. pauser' \in {pauser, "none"} /\ UNCHANGED <<aborted, cancelling, shutdown>>
    BY <1>15 DEF Settle, stored
  <2> QED
    BY <2>1, <2>2, RunningKeepsDrains
<1>16. ASSUME NEW a \in Actions, WriteTask(a) PROVE DrainInv'
  <2>1. pc[a] \notin {"off", "entered"} /\ \E there : Goto(a, there)
    BY <1>16 DEF WriteTask, At, Goto, Catch, SetTask
  <2>2. pauser' \in {pauser, "none"} /\ UNCHANGED <<aborted, cancelling, shutdown>>
    BY <1>16 DEF WriteTask, Catch, SetTask, stored
  <2> QED
    BY <2>1, <2>2, RunningKeepsDrains
<1>17. ASSUME NEW a \in Actions, Report(a) PROVE DrainInv'
  <2>1. pc[a] \notin {"off", "entered"} /\ \E there : Goto(a, there)
    BY <1>17 DEF Report, At, Goto
  <2>2. pauser' \in {pauser, "none"} /\ UNCHANGED <<aborted, cancelling, shutdown>>
    BY <1>17 DEF Report, stored
  <2> QED
    BY <2>1, <2>2, RunningKeepsDrains
<1>18. ASSUME NEW a \in Actions, FailStep(a) PROVE DrainInv'
  <2>1. pc[a] \notin {"off", "entered"} /\ \E there : Goto(a, there)
    BY <1>18 DEF FailStep, At, Goto
  <2>2. pauser' \in {pauser, "none"} /\ UNCHANGED <<aborted, cancelling, shutdown>>
    BY <1>18 DEF FailStep, stored
  <2> QED
    BY <2>1, <2>2, RunningKeepsDrains
<1>19. ASSUME NEW a \in Actions, Judge(a) PROVE DrainInv'
  <2>1. pc[a] \notin {"off", "entered"} /\ \E there : Goto(a, there)
    BY <1>19 DEF Judge, At, Goto
  <2>2. pauser' \in {pauser, "none"} /\ UNCHANGED <<aborted, cancelling, shutdown>>
    BY <1>19 DEF Judge, stored
  <2> QED
    BY <2>1, <2>2, RunningKeepsDrains
<1>20. ASSUME NEW a \in Actions, BlockTask(a) PROVE DrainInv'
  <2>1. pc[a] \notin {"off", "entered"} /\ \E there : Goto(a, there)
    BY <1>20 DEF BlockTask, At, Goto, SetTask
  <2>2. pauser' \in {pauser, "none"} /\ UNCHANGED <<aborted, cancelling, shutdown>>
    BY <1>20 DEF BlockTask, SetTask, stored
  <2> QED
    BY <2>1, <2>2, RunningKeepsDrains
<1>21. ASSUME NEW a \in Actions, EndMutation(a) PROVE DrainInv'
  <2>1. pc[a] \notin {"off", "entered"} /\ \E there : Goto(a, there)
    BY <1>21 DEF EndMutation, At, Goto
  <2>2. pauser' \in {pauser, "none"} /\ UNCHANGED <<aborted, cancelling, shutdown>>
    BY <1>21 DEF EndMutation, stored
  <2> QED
    BY <2>1, <2>2, RunningKeepsDrains
<1>22. ASSUME NEW a \in Actions, Finish(a) PROVE DrainInv'
  <2>1. pc[a] \notin {"off", "entered"} /\ \E there : Goto(a, there)
    BY <1>22 DEF Finish, At, Goto, PlanStepAfter, Result
  <2>2. pauser' \in {pauser, "none"} /\ UNCHANGED <<aborted, cancelling, shutdown>>
    BY <1>22 DEF Finish, PlanStepAfter, Result, stored
  <2> QED
    BY <2>1, <2>2, RunningKeepsDrains
<1>23. ASSUME NEW a \in Actions, StorageFails(a) PROVE DrainInv'
  <2>1. pc[a] \notin {"off", "entered"} /\ \E there : Goto(a, there)
    BY <1>23 DEF StorageFails, Goto, AfterFault, RealWaits
  <2>2. pauser' \in {pauser, "none"} /\ UNCHANGED <<aborted, cancelling, shutdown>>
    BY <1>23 DEF StorageFails, AfterFault, RealWaits, stored
  <2> QED
    BY <2>1, <2>2, RunningKeepsDrains
<1>24. ASSUME NEW a \in Actions, Approve(a) PROVE DrainInv'
  BY <1>24, OpenKeepsDrains DEF Approve
<1>25. ASSUME NEW a \in Actions, Reject(a) PROVE DrainInv'
  BY <1>25, OpenKeepsDrains DEF Reject, Move
<1>26. CASE Pause
  BY <1>26, OpenKeepsDrains DEF Pause, Move
<1>27. CASE Resume
  BY <1>27, OpenKeepsDrains DEF Resume
<1>28. CASE Cancel
  BY <1>28, OpenKeepsDrains DEF Cancel, Move
<1>29. CASE CancelExecution
  <2>1. app # "closed" /\ \A i \in DOMAIN drains : ~drains[i].ended
    BY <1>29, <1>c DEF CancelExecution
  <2>2. UNCHANGED <<app, sealed, drains, broken, task, pauser, pc>> /\ aborted \subseteq aborted'
    BY <1>29 DEF CancelExecution, stored, executions, shutdown
  <2> QED
    BY <2>1, <2>2 DEF DrainInv, Drains, Stopped, Inflight, Chosen, Resting
<1>30. CASE CancelReturns
  <2>1. app # "closed" /\ \A i \in DOMAIN drains : ~drains[i].ended
    BY <1>30, <1>c DEF CancelReturns
  <2>2. UNCHANGED <<app, sealed, drains, broken, task, pauser, pc>> /\ aborted \subseteq aborted'
    BY <1>30 DEF CancelReturns, stored, executions, shutdown
  <2> QED
    BY <2>1, <2>2 DEF DrainInv, Drains, Stopped, Inflight, Chosen, Resting
<1>31. CASE Quit
  BY <1>31, QuitKeepsDrains
<1>32. CASE Deadline
  BY <1>32 DEF Deadline, DrainInv, Drains, Left, Stopped, Inflight, Chosen, Resting,
     stored, executions, cancelling
<1>33. CASE Crash
  BY <1>33, LaunchKeepsDrains DEF Crash
<1>34. CASE Launch
  BY <1>34, LaunchKeepsDrains DEF Launch
<1>35. ASSUME NEW i \in DOMAIN drains, DrainEnds(i) PROVE DrainInv'
  BY <1>35, EndKeepsDrains
<1>36. CASE UNCHANGED vars
  BY <1>36
  DEF vars, stored, executions, cancelling, shutdown, bounds, DrainInv, Drains, Left, Stopped,
      Inflight, Chosen, Resting
<1> QED
  BY <1>1, <1>2, <1>3, <1>4, <1>5, <1>6, <1>7, <1>8, <1>9, <1>10, <1>11, <1>12, <1>13, <1>14,
     <1>15, <1>16, <1>17, <1>18, <1>19, <1>20, <1>21, <1>22, <1>23, <1>24, <1>25, <1>26, <1>27,
     <1>28, <1>29, <1>30, <1>31, <1>32, <1>33, <1>34, <1>35, <1>36
  DEF Next, ExecutionStep, CancelStep

-----------------------------------------------------------------------------
(* The synchronous gateway *)

\* Between two real waits only one call acts, so what it has read of the task is still so.
TurnInv ==
  /\ cancel = "stored" => \A a \in Actions : pc[a] \in RealWaits
  /\ \A a \in Actions : pc[a] \notin RealWaits => \A b \in Actions \ {a} : pc[b] \in RealWaits
  /\ \A a \in Actions :
       /\ pc[a] \in {"moving", "guarding"} => a \notin aborted
       /\ pc[a] = "writing" => task \notin {"paused", "cancelled"}
       /\ pc[a] = "blocking" => task \notin {"paused", "cancelled"}

\* Whoever acts while no wait is over acts alone.
LEMMA TurnKept ==
  ASSUME OneTurn, Typed, TurnInv, [Next]_vars
  PROVE  TurnInv'
<1>t. OneTurn /\ DOMAIN pc = Actions
  BY DEF Typed, TypeOK
<1>1. ASSUME NEW a \in Actions, Execute(a) PROVE TurnInv'
  BY <1>t, <1>1 DEF Execute, At, Goto, Yields, Waiting, cancelling, stored, TurnInv, RealWaits
<1>2. ASSUME NEW a \in Actions, Register(a) PROVE TurnInv'
  BY <1>t, <1>2 DEF Register, At, Goto, cancelling, stored, TurnInv, RealWaits
<1>3. ASSUME NEW a \in Actions, Claim(a) PROVE TurnInv'
  BY <1>t, <1>3 DEF Claim, At, Goto, Claimable, cancelling, stored, TurnInv, RealWaits
<1>4. ASSUME NEW a \in Actions, Check(a) PROVE TurnInv'
  BY <1>t, <1>4 DEF Check, At, Goto, Catch, cancelling, stored, TurnInv, RealWaits
<1>5. ASSUME NEW a \in Actions, Prepare(a) PROVE TurnInv'
  BY <1>t, <1>5 DEF Prepare, At, Goto, Yields, Waiting, cancelling, stored, TurnInv, RealWaits
<1>6. ASSUME NEW a \in Actions, CreateStep(a) PROVE TurnInv'
  BY <1>t, <1>6 DEF CreateStep, At, Goto, cancelling, stored, TurnInv, RealWaits
<1>7. ASSUME NEW a \in Actions, Start(a) PROVE TurnInv'
  BY <1>t, <1>7 DEF Start, At, Goto, Catch, cancelling, stored, TurnInv, RealWaits
<1>8. ASSUME NEW a \in Actions, MoveToRunning(a) PROVE TurnInv'
  BY <1>t, <1>8 DEF MoveToRunning, At, Goto, Catch, cancelling, stored, TurnInv, RealWaits
<1>9. ASSUME NEW a \in Actions, Guard(a) PROVE TurnInv'
  BY <1>t, <1>9 DEF Guard, At, Goto, Catch, cancelling, stored, TurnInv, RealWaits
<1>10. ASSUME NEW a \in Actions, BeginMutation(a) PROVE TurnInv'
  BY <1>t, <1>10
  DEF BeginMutation, At, Goto, Yields, Waiting, cancelling, stored, TurnInv, RealWaits
<1>11. ASSUME NEW a \in Actions, WorkEnds(a) PROVE TurnInv'
  BY <1>t, <1>11
  DEF WorkEnds, At, Goto, Catch, Yields, Waiting, cancelling, stored, TurnInv, RealWaits
<1>12. ASSUME NEW a \in Actions, RecordStep(a) PROVE TurnInv'
  BY <1>t, <1>12 DEF RecordStep, At, Goto, cancelling, stored, TurnInv, RealWaits
<1>13. ASSUME NEW a \in Actions, Decide(a) PROVE TurnInv'
  BY <1>t, <1>13 DEF Decide, At, Goto, Catch, cancelling, stored, TurnInv, RealWaits
<1>14. ASSUME NEW a \in Actions, CloseStep(a) PROVE TurnInv'
  BY <1>t, <1>14 DEF CloseStep, At, Goto, PlanStepAfter, cancelling, stored, TurnInv, RealWaits
<1>15. ASSUME NEW a \in Actions, Settle(a) PROVE TurnInv'
  BY <1>t, <1>15 DEF Settle, At, Goto, cancelling, stored, TurnInv, RealWaits
<1>16. ASSUME NEW a \in Actions, WriteTask(a) PROVE TurnInv'
  BY <1>t, <1>16 DEF WriteTask, At, Goto, Catch, cancelling, stored, TurnInv, RealWaits
<1>17. ASSUME NEW a \in Actions, Report(a) PROVE TurnInv'
  BY <1>t, <1>17 DEF Report, At, Goto, Yields, Waiting, cancelling, stored, TurnInv, RealWaits
<1>18. ASSUME NEW a \in Actions, FailStep(a) PROVE TurnInv'
  BY <1>t, <1>18 DEF FailStep, At, Goto, cancelling, stored, TurnInv, RealWaits
<1>19. ASSUME NEW a \in Actions, Judge(a) PROVE TurnInv'
  BY <1>t, <1>19 DEF Judge, At, Goto, cancelling, stored, TurnInv, RealWaits
<1>20. ASSUME NEW a \in Actions, BlockTask(a) PROVE TurnInv'
  BY <1>t, <1>20 DEF BlockTask, At, Goto, cancelling, stored, TurnInv, RealWaits
<1>21. ASSUME NEW a \in Actions, EndMutation(a) PROVE TurnInv'
  BY <1>t, <1>21 DEF EndMutation, At, Goto, cancelling, stored, TurnInv, RealWaits
<1>22. ASSUME NEW a \in Actions, Finish(a) PROVE TurnInv'
  BY <1>t, <1>22 DEF Finish, At, Goto, PlanStepAfter, Result, cancelling, stored, TurnInv, RealWaits
<1>23. ASSUME NEW a \in Actions, StorageFails(a) PROVE TurnInv'
  BY <1>t, <1>23 DEF StorageFails, Goto, AfterFault, cancelling, stored, TurnInv, RealWaits
<1>24. ASSUME NEW a \in Actions, Approve(a) PROVE TurnInv'
  <2>1. (\A b \in Actions : pc[b] \in RealWaits) /\ pc' = pc
    BY <1>t, <1>24 DEF Approve, Yields, Waiting, executions
  <2> QED
    BY <2>1 DEF TurnInv, RealWaits
<1>25. ASSUME NEW a \in Actions, Reject(a) PROVE TurnInv'
  <2>1. (\A b \in Actions : pc[b] \in RealWaits) /\ pc' = pc
    BY <1>t, <1>25 DEF Reject, Move, Yields, Waiting, executions
  <2> QED
    BY <2>1 DEF TurnInv, RealWaits
<1>26. CASE Pause
  <2>1. (\A b \in Actions : pc[b] \in RealWaits) /\ pc' = pc
    BY <1>t, <1>26 DEF Pause, Move, Yields, Waiting, executions
  <2> QED
    BY <2>1 DEF TurnInv, RealWaits
<1>27. CASE Resume
  <2>1. (\A b \in Actions : pc[b] \in RealWaits) /\ pc' = pc
    BY <1>t, <1>27 DEF Resume, Yields, Waiting, executions
  <2> QED
    BY <2>1 DEF TurnInv, RealWaits
<1>28. CASE Cancel
  <2>1. (\A b \in Actions : pc[b] \in RealWaits) /\ pc' = pc
    BY <1>t, <1>28 DEF Cancel, Move, Yields, Waiting, executions
  <2> QED
    BY <2>1 DEF TurnInv, RealWaits
<1>29. CASE CancelExecution
  BY <1>29 DEF CancelExecution, stored, TurnInv, RealWaits
<1>30. CASE CancelReturns
  BY <1>30 DEF CancelReturns, stored, executions, TurnInv
<1>31. CASE Quit
  <2>1. (\A b \in Actions : pc[b] \in RealWaits) /\ pc' = pc
    BY <1>t, <1>31 DEF Quit, MayQuit, Yields, Waiting, executions
  <2> QED
    BY <2>1 DEF TurnInv, RealWaits
<1>32. CASE Deadline
  BY <1>32 DEF Deadline, stored, executions, cancelling, TurnInv
<1>33. CASE Crash
  BY <1>33 DEF Crash, Launched, TurnInv, RealWaits
<1>34. CASE Launch
  BY <1>34 DEF Launch, Launched, TurnInv, RealWaits
<1>35. ASSUME NEW i \in DOMAIN drains, DrainEnds(i) PROVE TurnInv'
  BY <1>35 DEF DrainEnds, Drained, At, executions, cancelling, TurnInv, RealWaits
<1>36. CASE UNCHANGED vars
  BY <1>36 DEF vars, stored, executions, cancelling, shutdown, bounds, TurnInv
<1> QED
  BY <1>1, <1>2, <1>3, <1>4, <1>5, <1>6, <1>7, <1>8, <1>9, <1>10, <1>11, <1>12, <1>13, <1>14,
     <1>15, <1>16, <1>17, <1>18, <1>19, <1>20, <1>21, <1>22, <1>23, <1>24, <1>25, <1>26, <1>27,
     <1>28, <1>29, <1>30, <1>31, <1>32, <1>33, <1>34, <1>35, <1>36
  DEF Next, ExecutionStep, CancelStep

\* The task is what its user has made it, paused or cancelled.
UsersChoice == task = "cancelled" \/ (task = "paused" /\ pauser = "user")

\* Behind the seal, no step takes from the user what the user has chosen.
LEMMA ChoiceKept ==
  ASSUME IInv, TurnInv, [Next]_vars, sealed, sealed', UsersChoice
  PROVE  task' = task
<1>1. ASSUME NEW a \in Actions, Execute(a) PROVE task' = task
  BY <1>1 DEF Execute, stored
<1>2. ASSUME NEW a \in Actions, Register(a) PROVE task' = task
  BY <1>2 DEF Register, stored
<1>3. ASSUME NEW a \in Actions, Claim(a) PROVE task' = task
  BY <1>3 DEF Claim, stored
<1>4. ASSUME NEW a \in Actions, Check(a) PROVE task' = task
  BY <1>4 DEF Check, stored
<1>5. ASSUME NEW a \in Actions, Prepare(a) PROVE task' = task
  BY <1>5 DEF Prepare, stored
<1>6. ASSUME NEW a \in Actions, CreateStep(a) PROVE task' = task
  BY <1>6 DEF CreateStep, stored
<1>7. ASSUME NEW a \in Actions, Start(a) PROVE task' = task
  BY <1>7 DEF Start, stored
<1>8. ASSUME NEW a \in Actions, MoveToRunning(a) PROVE task' = task
  <2>1. a \notin aborted
    BY <1>8 DEF MoveToRunning, At, TurnInv
  <2>2. a \in Inflight
    BY <1>8 DEF MoveToRunning, At, Inflight
  <2> QED
    BY <2>1, <2>2 DEF IInv, DrainInv, Stopped
<1>9. ASSUME NEW a \in Actions, Guard(a) PROVE task' = task
  BY <1>9 DEF Guard, stored
<1>10. ASSUME NEW a \in Actions, BeginMutation(a) PROVE task' = task
  BY <1>10 DEF BeginMutation, stored
<1>11. ASSUME NEW a \in Actions, WorkEnds(a) PROVE task' = task
  BY <1>11 DEF WorkEnds, stored
<1>12. ASSUME NEW a \in Actions, RecordStep(a) PROVE task' = task
  BY <1>12 DEF RecordStep, stored
<1>13. ASSUME NEW a \in Actions, Decide(a) PROVE task' = task
  BY <1>13 DEF Decide, stored
<1>14. ASSUME NEW a \in Actions, CloseStep(a) PROVE task' = task
  BY <1>14 DEF CloseStep, stored
<1>15. ASSUME NEW a \in Actions, Settle(a) PROVE task' = task
  BY <1>15 DEF Settle, stored
<1>16. ASSUME NEW a \in Actions, WriteTask(a) PROVE task' = task
  BY <1>16 DEF WriteTask, At, UsersChoice, TurnInv
<1>17. ASSUME NEW a \in Actions, Report(a) PROVE task' = task
  BY <1>17 DEF Report, stored
<1>18. ASSUME NEW a \in Actions, FailStep(a) PROVE task' = task
  BY <1>18 DEF FailStep, stored
<1>19. ASSUME NEW a \in Actions, Judge(a) PROVE task' = task
  BY <1>19 DEF Judge, stored
<1>20. ASSUME NEW a \in Actions, BlockTask(a) PROVE task' = task
  BY <1>20 DEF BlockTask, At, UsersChoice, TurnInv
<1>21. ASSUME NEW a \in Actions, EndMutation(a) PROVE task' = task
  BY <1>21 DEF EndMutation, stored
<1>22. ASSUME NEW a \in Actions, Finish(a) PROVE task' = task
  BY <1>22 DEF Finish, stored
<1>23. ASSUME NEW a \in Actions, StorageFails(a) PROVE task' = task
  BY <1>23 DEF StorageFails, stored
<1>24. ASSUME NEW a \in Actions, Approve(a) PROVE task' = task
  BY <1>24 DEF Approve, Move
<1>25. ASSUME NEW a \in Actions, Reject(a) PROVE task' = task
  BY <1>25 DEF Reject, Move
<1>26. CASE Pause
  BY <1>26 DEF Pause, Move
<1>27. CASE Resume
  BY <1>27 DEF Resume, Move
<1>28. CASE Cancel
  BY <1>28 DEF Cancel, Move
<1>29. CASE CancelExecution
  BY <1>29 DEF CancelExecution, stored
<1>30. CASE CancelReturns
  BY <1>30 DEF CancelReturns, stored
<1>31. CASE Quit
  BY <1>31 DEF Quit, Pausable, UsersChoice
<1>32. CASE Deadline
  BY <1>32 DEF Deadline, stored
<1>33. CASE Crash
  BY <1>33 DEF Crash, Launched
<1>34. CASE Launch
  BY <1>34 DEF Launch, Launched
<1>35. ASSUME NEW i \in DOMAIN drains, DrainEnds(i) PROVE task' = task
  <2>1. task = "paused" => ~drains[i].interrupted
    BY <1>35 DEF UsersChoice, IInv, DrainInv, Chosen
  <2>2. task' = LeftAt(drains[i])
    BY <1>35 DEF DrainEnds
  <2>3. Pausable(drains[i].owned) = FALSE
    BY DEF Pausable, UsersChoice
  <2> QED
    BY <2>1, <2>2, <2>3 DEF LeftAt, UsersChoice
<1>36. CASE UNCHANGED vars
  BY <1>36 DEF vars, stored
<1> QED
  BY <1>1, <1>2, <1>3, <1>4, <1>5, <1>6, <1>7, <1>8, <1>9, <1>10, <1>11, <1>12, <1>13, <1>14,
     <1>15, <1>16, <1>17, <1>18, <1>19, <1>20, <1>21, <1>22, <1>23, <1>24, <1>25, <1>26, <1>27,
     <1>28, <1>29, <1>30, <1>31, <1>32, <1>33, <1>34, <1>35, <1>36
  DEF Next, ExecutionStep, CancelStep

-----------------------------------------------------------------------------
(* Theorems *)

\* Nothing is claimed, sealed or cancelled at first.
LEMMA InvInit == Init => IInv
<1> SUFFICES ASSUME Init
             PROVE  IInv
  OBVIOUS
<1>1. /\ pc \in [Actions -> {"off"}] /\ outcome \in [Actions -> {"ok"}] /\ target \in [Actions -> {"none"}]
      /\ exec \in [Actions -> {"none"}] /\ step \in [Actions -> {"none"}]
      /\ consent \in [Actions -> {"pending", "approved"}]
  BY DEF Init
<1>2. drains \in Seq(Drain) /\ DOMAIN drains = {}
  BY DEF Init
<1>3. Typed
  <2>1. /\ task \in TaskStatus /\ pauser \in {"none", "user", "quit"} /\ faults \in Nat
        /\ consent \in [Actions -> {"pending", "approved", "rejected", "executed"}]
        /\ exec \in [Actions -> {"none", "running", "succeeded", "failed", "uncertain"}]
        /\ step \in [Actions -> {"none", "running", "succeeded", "failed"}]
        /\ planStep \in {"pending", "succeeded", "failed"} /\ mutating \subseteq Actions \ Checks
    BY <1>1 DEF Init, TaskStatus
  <2>2. /\ outcome \in [Actions -> {"ok", "error", "cancelled", "failed", "unconfirmed"}]
        /\ aborted \subseteq Actions /\ awaited \subseteq Actions
        /\ target \in [Actions -> {"none", "waiting_for_approval", "ready_for_review"}]
        /\ cancel \in {"no", "stored", "waiting", "done"}
        /\ app \in {"open", "draining", "closed"} /\ sealed \in BOOLEAN /\ broken \in BOOLEAN
    BY <1>1 DEF Init
  <2> QED
    BY <1>1, <1>2, <2>1, <2>2 DEF Typed, TypeOK, RealWaits
<1>4. Rows
  BY <1>1
  DEF Init, Rows, RowInv, PcInv, Entering, Stepless, Doing, Recorded, Trying, Failed, Catching
<1>5. CancelInv /\ FaultlessInv
  BY <1>1 DEF Init, CancelInv, FaultlessInv, Entering
<1>6. DrainInv
  BY <1>2 DEF Init, DrainInv, Drains, Stopped, Chosen, Resting
<1> QED
  BY <1>3, <1>4, <1>5, <1>6 DEF IInv

\* The parts of the invariant, each kept with the help of the others.
LEMMA InvStep == IInv /\ [Next]_vars => IInv'
<1> SUFFICES ASSUME Typed, Rows, CancelInv, FaultlessInv, DrainInv, [Next]_vars
             PROVE  IInv'
  BY DEF IInv
<1>1. Typed' /\ Rows' /\ CancelInv'
  BY TypesKept, RowsKept, CancelKept
<1>2. FaultlessInv'
  BY FaultlessKept DEF DrainInv
<1>3. DrainInv'
  BY DrainsKept
<1> QED
  BY <1>1, <1>2, <1>3 DEF IInv

\* The rows, the executions and the drains agree at every await, whatever fails in between
\* (executeApprovedOnce, cancelExecution and the drain).
THEOREM Invariant == Spec => []IInv
BY InvInit, InvStep, PTL DEF Spec

\* Wherever an execution is interrupted, the ledger, the step, the approval and the mutation of
\* an action agree, and after the cancellation of a task nothing of it runs: ExecutionInv
\* (executeApprovedOnce with its catch blocks, and cancelTaskAndExecutions).
THEOREM ExecutionsAgree == Spec => []ExecutionInv
<1>1. IInv => ExecutionInv
  <2> SUFFICES ASSUME IInv
               PROVE  ExecutionInv
    OBVIOUS
  <2>1. TypeOK
    BY DEF IInv, Typed
  <2>2. OutcomeTold
    BY DEF IInv, Rows, RowInv, OutcomeTold
  <2>3. CancelIsComplete
    BY DEF IInv, CancelInv, CancelIsComplete, Entering
  <2> QED
    BY <2>1, <2>2, <2>3 DEF ExecutionInv
<1> QED
  BY <1>1, Invariant, PTL

\* The storage closes only when everything has ended, and a quit leaves what it interrupted where
\* its user can go on: QuitIsClean (installApplicationShutdown and the drain).
THEOREM QuitLeavesNothingOpen == Spec => []QuitIsClean
<1>1. IInv => QuitIsClean
  <2> SUFFICES ASSUME IInv, app = "closed"
               PROVE  CloseIsClean /\ QuitLeavesAWayOn
    BY DEF QuitIsClean, CloseIsClean, QuitLeavesAWayOn
  <2>1. 1 \in DOMAIN drains /\ sealed
    BY DEF IInv, DrainInv, Drains, Typed
  <2>2. ~broken /\ \A i \in DOMAIN drains : drains[i].ended /\ Left(drains[i])
    BY DEF IInv, DrainInv, Drains
  <2>3. \A a \in Actions : pc[a] = "off"
    BY <2>1, <2>2 DEF Left
  <2>4. ASSUME faults = 0
        PROVE  mutating = {} /\ \A a \in Actions : exec[a] # "running" /\ step[a] # "running"
    BY <2>3, <2>4 DEF IInv, Typed, TypeOK, FaultlessInv, Entering, Doing
  <2>5. CloseIsClean
    BY <2>1, <2>2, <2>3, <2>4 DEF CloseIsClean, At, Left
  <2>6. QuitLeavesAWayOn
    BY <2>1, <2>2 DEF IInv, DrainInv, Resting, QuitLeavesAWayOn, Left
  <2> QED
    BY <2>5, <2>6
<1> QED
  BY <1>1, Invariant, PTL

\* With the synchronous gateway, a quit and what still ends after it leave alone what the user
\* paused or cancelled: UserWins (pauseActiveTasks, and the looks of the runner at the task).
THEOREM QuitLeavesTheUsersChoice ==
  ASSUME OneTurn
  PROVE  Spec => UserWins
<1>1. Init => TurnInv
  BY DEF Init, TurnInv, RealWaits
<1>2. IInv /\ TurnInv /\ [Next]_vars => TurnInv'
  BY TurnKept DEF IInv
<1>3. IInv /\ TurnInv /\ [Next]_vars
      => [(sealed /\ sealed' /\ (task = "cancelled" \/ (task = "paused" /\ pauser = "user")))
            => task' = task]_vars
  BY ChoiceKept DEF UsersChoice
<1> QED
  BY <1>1, <1>2, <1>3, Invariant, PTL DEF Spec, UserWins


=============================================================================
