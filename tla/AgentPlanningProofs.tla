------------------------- MODULE AgentPlanningProofs -------------------------
(***************************************************************************)
(* What AgentPlanning keeps true for any plans, workers and bounds, and    *)
(* whoever cancels at whichever await.                                     *)
(*                                                                         *)
(* LaneInv says who is in a lane; RowInv how far the row of an operation   *)
(* is when the operation is at a point; Heard, Sealed and Silent what a    *)
(* cancellation of an invocation, a shutdown and a cancelled task have     *)
(* come to once they are through.                                          *)
(***************************************************************************)
EXTENDS AgentPlanning, SequenceTheorems, TLAPS

-----------------------------------------------------------------------------
(* The lanes *)

Lane == [inflight : Ops \cup {NULL}, waiting : Seq(Ops)]

\* An entry is in a lane once, and none waits while nothing is in flight.
Sound(lane) ==
  /\ lane \in Lane
  /\ \A j, k \in DOMAIN lane.waiting : lane.waiting[j] = lane.waiting[k] => j = k
  /\ \A k \in DOMAIN lane.waiting : lane.waiting[k] # lane.inflight
  /\ lane.inflight = NULL => lane.waiting = <<>>

\* No operation is named NULL.
LEMMA NullIsNoOp == NULL \notin Ops
BY PlanningAssumption DEF PlanningAssumption, Ops

\* Every operation has its lane.
LEMMA LaneIsLane ==
  ASSUME NEW i \in Ops
  PROVE  LaneFor(i) \in Lanes
BY DEF LaneFor, Lanes, Ops

\* What waits, by position.
LEMMA WaitsAt ==
  ASSUME NEW lane \in Lane, NEW i
  PROVE  Waits(lane, i) <=> \E k \in DOMAIN lane.waiting : lane.waiting[k] = i
<1>1. lane.waiting \in Seq(Ops)
  BY DEF Lane
<1>2. DOMAIN lane.waiting = 1..Len(lane.waiting)
  BY <1>1
<1> QED
  BY <1>2 DEF Waits, Contains

\* enqueue adds the entry, in flight if the lane was empty.
LEMMA EnqueuedAdds ==
  ASSUME NEW lane, Sound(lane), NEW i \in Ops, ~Busy(lane, i)
  PROVE  /\ Sound(Enqueued(lane, i))
         /\ \A j \in Ops : Busy(Enqueued(lane, i), j) <=> Busy(lane, j) \/ j = i
         /\ Enqueued(lane, i).inflight = IF lane.inflight = NULL THEN i ELSE lane.inflight
<1> DEFINE queue == lane.waiting
           longer == Append(queue, i)
<1>1. /\ lane \in Lane /\ lane.inflight \in Ops \cup {NULL} /\ queue \in Seq(Ops)
      /\ \A j, k \in DOMAIN queue : queue[j] = queue[k] => j = k
      /\ \A k \in DOMAIN queue : queue[k] # lane.inflight
      /\ lane.inflight = NULL => queue = <<>>
  BY DEF Sound, Lane
<1>2. lane.inflight # i /\ \A k \in DOMAIN queue : queue[k] # i
  BY <1>1, WaitsAt DEF Busy
<1>3. CASE lane.inflight = NULL
  <2>1. Enqueued(lane, i) = [inflight |-> i, waiting |-> <<>>]
    <3>1. longer \in Seq(Ops) /\ Len(longer) = 1 /\ longer[1] = i
      BY <1>1, <1>3
    <3> HIDE DEF longer
    <3>2. longer # <<>>
      BY <3>1, EmptySeq
    <3>7. Head(longer) = i
      BY <3>1
    <3>5. Tail(longer) \in Seq(Ops) /\ Len(Tail(longer)) = 0
      BY <3>1, <3>2, HeadTailProperties
    <3>6. Tail(longer) = <<>>
      BY <3>5, EmptySeq
    <3>3. [lane EXCEPT !.waiting = longer] = [inflight |-> NULL, waiting |-> longer]
      BY <1>1, <1>3 DEF Lane
    <3>4. Enqueued(lane, i) = Drained([lane EXCEPT !.waiting = longer])
      BY DEF Enqueued, longer
    <3> QED
      BY <3>2, <3>3, <3>4, <3>6, <3>7 DEF Drained
  <2>2. [inflight |-> i, waiting |-> <<>>] \in Lane
    BY DEF Lane
  <2>3. Sound(Enqueued(lane, i))
    BY <2>1, <2>2, NullIsNoOp DEF Sound
  <2>4. \A j \in Ops : ~Busy(lane, j)
    BY <1>1, <1>3, WaitsAt, NullIsNoOp DEF Busy
  <2>5. \A j \in Ops : Busy(Enqueued(lane, i), j) <=> j = i
    BY <2>1, <2>2, WaitsAt DEF Busy
  <2> QED
    BY <1>3, <2>1, <2>3, <2>4, <2>5
<1>4. CASE lane.inflight # NULL
  <2>1. Enqueued(lane, i) = [inflight |-> lane.inflight, waiting |-> longer]
    BY <1>1, <1>4 DEF Enqueued, Drained, Lane
  <2>2. /\ longer \in Seq(Ops) /\ DOMAIN longer = 1..(Len(queue) + 1) /\ Len(queue) \in Nat
        /\ \A k \in DOMAIN queue : longer[k] = queue[k]
        /\ longer[Len(queue) + 1] = i /\ DOMAIN queue = 1..Len(queue)
    BY <1>1
  <2>3. Enqueued(lane, i) \in Lane
    BY <1>1, <2>1, <2>2 DEF Lane
  <2>4. Sound(Enqueued(lane, i))
    BY <1>1, <1>2, <1>4, <2>1, <2>2, <2>3 DEF Sound
  <2>5. ASSUME NEW j \in Ops
        PROVE  Waits(Enqueued(lane, i), j) <=> Waits(lane, j) \/ j = i
    <3>1. Waits(Enqueued(lane, i), j) <=> \E k \in DOMAIN longer : longer[k] = j
      <4> HIDE DEF longer
      <4>1. Enqueued(lane, i).waiting = longer
        BY <2>1
      <4> QED
        BY <2>3, <4>1, WaitsAt
    <3>2. (\E k \in DOMAIN longer : longer[k] = j) <=>
            (\E k \in DOMAIN queue : queue[k] = j) \/ j = i
      <4> HIDE DEF longer
      <4> QED
        BY <2>2
    <3> QED
      BY <1>1, <3>1, <3>2, WaitsAt
  <2>6. Enqueued(lane, i).inflight = lane.inflight
    BY <2>1
  <2> QED
    BY <1>4, <2>4, <2>5, <2>6 DEF Busy
<1> QED
  BY <1>3, <1>4

\* The entry in flight settles: it leaves, and the first that waits is in flight.
LEMMA SettledRemoves ==
  ASSUME NEW lane, Sound(lane), NEW i \in Ops, lane.inflight = i
  PROVE  /\ Sound(Settled(lane))
         /\ \A j \in Ops : Busy(Settled(lane), j) <=> Busy(lane, j) /\ j # i
         /\ Settled(lane).inflight # NULL => Waits(lane, Settled(lane).inflight)
<1> DEFINE queue == lane.waiting
           shorter == Tail(queue)
<1>1. /\ lane \in Lane /\ queue \in Seq(Ops)
      /\ \A j, k \in DOMAIN queue : queue[j] = queue[k] => j = k
      /\ \A k \in DOMAIN queue : queue[k] # i
  BY DEF Sound, Lane
<1>2. CASE queue = <<>>
  <2>1. Settled(lane) = [inflight |-> NULL, waiting |-> <<>>]
    BY <1>1, <1>2 DEF Settled, Drained, Lane
  <2>2. [inflight |-> NULL, waiting |-> <<>>] \in Lane
    BY DEF Lane
  <2>3. Sound(Settled(lane))
    BY <2>1, <2>2 DEF Sound
  <2>4. \A j \in Ops : Busy(lane, j) <=> j = i
    BY <1>1, <1>2, WaitsAt DEF Busy
  <2>5. \A j \in Ops : ~Busy(Settled(lane), j)
    BY <2>1, <2>2, WaitsAt, NullIsNoOp DEF Busy
  <2> QED
    BY <2>1, <2>3, <2>4, <2>5
<1>3. CASE queue # <<>>
  <2>1. Settled(lane) = [inflight |-> queue[1], waiting |-> shorter]
    BY <1>1, <1>3 DEF Settled, Drained, Lane
  <2>2. /\ shorter \in Seq(Ops) /\ Len(queue) \in Nat \ {0} /\ DOMAIN queue = 1..Len(queue)
        /\ Len(shorter) = Len(queue) - 1 /\ DOMAIN shorter = 1..(Len(queue) - 1)
        /\ \A k \in DOMAIN shorter : shorter[k] = queue[k + 1]
    BY <1>1, <1>3
  <2>3. queue[1] \in Ops /\ queue[1] # NULL
    BY <1>1, <2>2, NullIsNoOp
  <2>4. Settled(lane) \in Lane
    BY <2>1, <2>2, <2>3 DEF Lane
  <2>5. Sound(Settled(lane))
    <3> HIDE DEF shorter
    <3>1. \A k \in DOMAIN shorter : k \in Nat /\ k + 1 \in DOMAIN queue /\ k + 1 # 1
      BY <2>2
    <3>2. 1 \in DOMAIN queue
      BY <2>2
    <3>3. ASSUME NEW j \in DOMAIN shorter, NEW k \in DOMAIN shorter, shorter[j] = shorter[k]
          PROVE  j = k
      <4>1. queue[j + 1] = queue[k + 1]
        BY <2>2, <3>3
      <4>2. j + 1 = k + 1
        BY <1>1, <3>1, <4>1
      <4> QED
        BY <3>1, <4>2
    <3>4. ASSUME NEW k \in DOMAIN shorter
          PROVE  shorter[k] # queue[1]
      <4>1. queue[k + 1] # queue[1]
        BY <1>1, <3>1, <3>2
      <4> QED
        BY <2>2, <4>1
    <3> QED
      BY <2>1, <2>3, <2>4, <3>3, <3>4 DEF Sound
  <2>6. ASSUME NEW j \in Ops
        PROVE  Busy(Settled(lane), j) <=> Busy(lane, j) /\ j # i
    <3>1. Busy(Settled(lane), j) <=> \E k \in DOMAIN queue : queue[k] = j
      <4>1. ASSUME NEW k \in DOMAIN queue, queue[k] = j
            PROVE  Busy(Settled(lane), j)
        <5>1. CASE k = 1
          BY <2>1, <4>1, <5>1 DEF Busy
        <5>2. CASE k # 1
          <6>1. k - 1 \in DOMAIN shorter /\ shorter[k - 1] = j
            BY <2>2, <4>1, <5>2
          <6> QED
            BY <2>1, <2>4, <6>1, WaitsAt DEF Busy
        <5> QED
          BY <5>1, <5>2
      <4>2. ASSUME Busy(Settled(lane), j)
            PROVE  \E k \in DOMAIN queue : queue[k] = j
        <5>1. CASE queue[1] = j
          BY <2>2, <5>1
        <5>2. CASE \E k \in DOMAIN shorter : shorter[k] = j
          BY <2>2, <5>2
        <5>3. queue[1] = j \/ Waits(Settled(lane), j)
          BY <2>1, <4>2 DEF Busy
        <5>4. Waits(Settled(lane), j) => \E k \in DOMAIN shorter : shorter[k] = j
          <6> HIDE DEF shorter
          <6>1. Settled(lane).waiting = shorter
            BY <2>1
          <6> QED
            BY <2>4, <6>1, WaitsAt
        <5> QED
          BY <5>1, <5>2, <5>3, <5>4
      <4> QED
        BY <4>1, <4>2
    <3> QED
      BY <1>1, <3>1, WaitsAt DEF Busy
  <2>7. Waits(lane, queue[1])
    BY <1>1, <2>2, WaitsAt
  <2>8. Settled(lane).inflight = queue[1]
    BY <2>1
  <2> QED
    BY <2>5, <2>6, <2>7, <2>8
<1> QED
  BY <1>2, <1>3

\* cancel splices the entry out of those that wait.
LEMMA WithdrawnRemoves ==
  ASSUME NEW lane, Sound(lane), NEW i \in Ops, Waits(lane, i)
  PROVE  /\ Sound(Withdrawn(lane, i))
         /\ \A j \in Ops : Busy(Withdrawn(lane, i), j) <=> Busy(lane, j) /\ j # i
         /\ Withdrawn(lane, i).inflight = lane.inflight
<1> DEFINE queue == lane.waiting
<1>1. /\ lane \in Lane /\ queue \in Seq(Ops) /\ lane.inflight \in Ops \cup {NULL}
      /\ \A j, k \in DOMAIN queue : queue[j] = queue[k] => j = k
      /\ \A k \in DOMAIN queue : queue[k] # lane.inflight
      /\ lane.inflight = NULL => queue = <<>>
      /\ Len(queue) \in Nat /\ DOMAIN queue = 1..Len(queue)
  BY DEF Sound, Lane
<1>2. PICK at \in DOMAIN queue : queue[at] = i
  BY <1>1, WaitsAt
<1>3. {k \in 1..Len(queue) : queue[k] = i} = {at} /\ at \in Nat
  BY <1>1, <1>2
<1>4. Min({at}) = at
  BY <1>3 DEF Min
<1>5. SelectInSeq(queue, LAMBDA v : v = i) = at
  BY <1>3, <1>4 DEF SelectInSeq
<1> DEFINE rest == SubSeq(queue, 1, at - 1) \o SubSeq(queue, at + 1, Len(queue))
<1>6. RemoveFirst(queue, i) = rest
  BY <1>1, <1>2, <1>5 DEF RemoveFirst, RemoveAt
<1>7. /\ rest \in Seq(Ops) /\ DOMAIN rest = 1..(Len(queue) - 1)
      /\ \A k \in DOMAIN rest : rest[k] = IF k < at THEN queue[k] ELSE queue[k + 1]
  <2> DEFINE front == SubSeq(queue, 1, at - 1)
             back == SubSeq(queue, at + 1, Len(queue))
  <2>1. at \in 1..Len(queue)
    BY <1>1
  <2>2. /\ front \in Seq(Ops) /\ Len(front) = at - 1
        /\ \A k \in 1..(at - 1) : front[k] = queue[k]
    BY <1>1, <2>1
  <2>3. /\ back \in Seq(Ops) /\ Len(back) = Len(queue) - at
        /\ \A k \in 1..(Len(queue) - at) : back[k] = queue[at + k]
    <3>1. PICK m \in 1..(Len(queue) + 1) : m = at + 1
      BY <1>1, <2>1
    <3>2. /\ SubSeq(queue, m, Len(queue)) \in Seq(Ops)
          /\ Len(SubSeq(queue, m, Len(queue))) = Len(queue) - m + 1
          /\ \A k \in 1..(Len(queue) - m + 1) : SubSeq(queue, m, Len(queue))[k] = queue[m + k - 1]
      BY <1>1
    <3>3. back = SubSeq(queue, m, Len(queue))
      BY <3>1
    <3> HIDE DEF back
    <3> QED
      BY <1>1, <2>1, <3>1, <3>2, <3>3
  <2> HIDE DEF front, back
  <2>4. /\ front \o back \in Seq(Ops) /\ Len(front \o back) = Len(queue) - 1
        /\ \A k \in 1..(Len(queue) - 1) :
             (front \o back)[k] = IF k < at THEN front[k] ELSE back[k - (at - 1)]
    <3>1. /\ front \o back \in Seq(Ops) /\ Len(front \o back) = Len(front) + Len(back)
          /\ \A k \in 1..(Len(front) + Len(back)) : (front \o back)[k] =
               IF k <= Len(front) THEN front[k] ELSE back[k - Len(front)]
      BY <2>2, <2>3, ConcatProperties, Zenon
    <3>2. Len(front) + Len(back) = Len(queue) - 1
      BY <1>1, <2>1, <2>2, <2>3
    <3>3. \A k \in 1..(Len(queue) - 1) :
            (front \o back)[k] = IF k <= at - 1 THEN front[k] ELSE back[k - (at - 1)]
      BY <2>2, <3>1, <3>2
    <3>4. \A k \in 1..(Len(queue) - 1) : k <= at - 1 <=> k < at
      BY <2>1
    <3> QED
      BY <3>1, <3>2, <3>3, <3>4
  <2>5. rest = front \o back
    BY DEF front, back
  <2> HIDE DEF rest
  <2>6. rest \in Seq(Ops) /\ DOMAIN rest = 1..(Len(queue) - 1)
    <3>1. rest \in Seq(Ops) /\ Len(rest) = Len(queue) - 1
      BY <2>4, <2>5
    <3> QED
      BY <3>1, LenProperties
  <2>7. ASSUME NEW k \in DOMAIN rest
        PROVE  rest[k] = IF k < at THEN queue[k] ELSE queue[k + 1]
    <3>1. CASE k < at
      BY <1>1, <2>1, <2>2, <2>4, <2>5, <2>6, <3>1
    <3>2. CASE ~(k < at)
      <4>1. k - (at - 1) \in 1..(Len(queue) - at) /\ at + (k - (at - 1)) = k + 1
        BY <1>1, <2>1, <2>6, <3>2
      <4> QED
        BY <2>3, <2>4, <2>5, <2>6, <3>2, <4>1
    <3> QED
      BY <3>1, <3>2
  <2> QED
    BY <2>6, <2>7
<1>8. Withdrawn(lane, i) = [inflight |-> lane.inflight, waiting |-> rest]
  <2>1. Withdrawn(lane, i) = [lane EXCEPT !.waiting = RemoveFirst(queue, i)]
    BY DEF Withdrawn
  <2> QED
    BY <1>1, <1>6, <2>1 DEF Lane
<1> HIDE DEF rest
<1>9. Withdrawn(lane, i) \in Lane
  BY <1>1, <1>7, <1>8 DEF Lane
<1>10. Sound(Withdrawn(lane, i))
  <2>1. ASSUME NEW j \in DOMAIN rest, NEW k \in DOMAIN rest, rest[j] = rest[k]
        PROVE  j = k
    <3>1. PICK m \in DOMAIN queue : rest[j] = queue[m] /\ m = IF j < at THEN j ELSE j + 1
      BY <1>1, <1>3, <1>7
    <3>2. PICK n \in DOMAIN queue : rest[k] = queue[n] /\ n = IF k < at THEN k ELSE k + 1
      BY <1>1, <1>3, <1>7
    <3>3. m = n
      BY <1>1, <2>1, <3>1, <3>2
    <3> QED
      BY <1>1, <1>3, <1>7, <3>1, <3>2, <3>3
  <2>2. \A k \in DOMAIN rest : rest[k] # lane.inflight
    BY <1>1, <1>3, <1>7
  <2>3. lane.inflight # NULL
    BY <1>1, <1>2
  <2> QED
    BY <1>8, <1>9, <2>1, <2>2, <2>3 DEF Sound
<1>11. ASSUME NEW j \in Ops
       PROVE  Waits(Withdrawn(lane, i), j) <=> Waits(lane, j) /\ j # i
  <2>1. Waits(Withdrawn(lane, i), j) <=> \E k \in DOMAIN rest : rest[k] = j
    BY <1>8, <1>9, WaitsAt
  <2>2. ASSUME NEW k \in DOMAIN rest, rest[k] = j
        PROVE  j # i /\ \E l \in DOMAIN queue : queue[l] = j
    <3>1. PICK m \in DOMAIN queue : rest[k] = queue[m] /\ m = IF k < at THEN k ELSE k + 1
      BY <1>1, <1>3, <1>7
    <3>2. m # at
      BY <1>1, <1>3, <1>7, <3>1
    <3> QED
      BY <1>1, <1>2, <2>2, <3>1, <3>2
  <2>3. ASSUME NEW l \in DOMAIN queue, queue[l] = j, j # i
        PROVE  \E k \in DOMAIN rest : rest[k] = j
    <3>1. CASE l < at
      BY <1>1, <1>3, <1>7, <2>3, <3>1
    <3>2. CASE l > at
      <4>1. l - 1 \in DOMAIN rest /\ ~(l - 1 < at) /\ (l - 1) + 1 = l
        BY <1>1, <1>3, <1>7, <3>2
      <4> QED
        BY <1>7, <2>3, <4>1
    <3> QED
      BY <1>1, <1>2, <1>3, <2>3, <3>1, <3>2
  <2> QED
    BY <1>1, <2>1, <2>2, <2>3, WaitsAt
<1>12. lane.inflight # i
  BY <1>1, <1>2
<1> QED
  BY <1>8, <1>10, <1>11, <1>12 DEF Busy

-----------------------------------------------------------------------------
(* The inductive invariant *)

\* An operation is in its lane, once, while it is queued or its process is alive.
LaneInv ==
  /\ lanes \in [Lanes -> Lane]
  /\ \A l \in Lanes : Sound(lanes[l])
  /\ \A l \in Lanes, i \in Ops :
       Busy(lanes[l], i) <=> LaneFor(i) = l /\ (pc[i] = "queued" \/ CliRuns(i))
  /\ \A i \in Ops : CliRuns(i) => InFlight(i)

\* Where an operation has no row; where its row may be final without a cancellation; where it no
\* longer looks at its signal, or has not yet.
Rowless == {"idle", "preparing"}
Over == {"blocking", "rejecting", "declining", "confirming", "abandoning", "releasing", "ended"}
Leaving == {"abandoning", "releasing", "ended"}
Unheard == {"created", "refusing", "asserting"} \cup Leaving

\* The row, the answer and the step have come as far as the operation has.
RowInv(i) ==
  /\ row[i] = NULL <=> pc[i] \in Rowless
  /\ row[i] \in {"succeeded", "failed"} =>
       pc[i] \in Over \/ (i \in Workers /\ pc[i] \in {"thrown", "failing"} /\ lifetime[i])
  /\ lifetime[i] /\ row[i] \notin Final =>
       pc[i] \in {"thrown", "cancelling"} \/ (i \in Workers /\ pc[i] = "failing")
  /\ pc[i] = "blocking" => row[i] = "failed"
  /\ pc[i] \in {"rejecting", "declining", "confirming"} => row[i] \in Final
  /\ pc[i] \in {"answered", "parsing", "planned", "proposing", "moving"} => answer[i] = "ok"
  /\ pc[i] \in {"proposing", "moving"} => i \in Plans /\ step[i] = "succeeded"
  /\ pc[i] \in Leaving =>
       row[i] \in Final \/ (i \in Plans /\ answer[i] = "ok" /\ step[i] = "succeeded")
  /\ pc[i] \in {"cancelling", "blocking", "rejecting", "unparsable", "outofscope", "declining",
                "planned", "abandoning"} => i \in Plans
  /\ pc[i] = "capturing" => answer[i] # "none"

Rows == \A i \in Ops : RowInv(i)

\* A cancellation aborts what it found final, and persists only on a row; shutdown cancels
\* nothing before it seals.
CancelInv ==
  /\ \A o \in Origins, i \in Ops :
       /\ cancel[o][i] = "aborting" => row[i] \in Final
       /\ cancel[o][i] = "persisting" => row[i] # NULL
  /\ "shutdown" \in Origins /\ ~closed => \A i \in Ops : cancel["shutdown"][i] = "idle"
  /\ closed => "shutdown" \in Origins

\* The operation has its signal, or is where it will look for the row, or will start nothing.
Told(i) ==
  /\ lifetime[i] \/ pc[i] \in Rowless \cup Unheard
  /\ pc[i] = "queued" => InFlight(i)
  /\ pc[i] \in {"snapshot", "invoking"} => signal[i]

\* A cancellation that is through has told its operation.
Heard == \A i \in Ops : row[i] = "cancelled" /\ CancelSettled(i) => Told(i)

\* So has a shutdown that has come through for it.
Sealed ==
  closed => \A i \in Ops : cancel["shutdown"][i] = "idle" =>
    Told(i) /\ (pc[i] = "asserting" => lifetime[i])

\* So has the cancellation of the task, or it will.
Silent ==
  /\ listing => "task" \in Origins /\ task = "cancelled"
  /\ task = "cancelled" => "task" \in Origins
  /\ task = "cancelled" /\ ~listing => \A i \in Ops :
       pc[i] \in {"starting", "readying", "queued", "snapshot", "invoking"} /\ row[i] \in Open =>
         cancel["task"][i] = "persisting"

\* A plan proposes what it parsed, and nothing before that.
Early == {"idle", "preparing", "created", "refusing", "asserting", "starting", "readying", "queued",
          "snapshot", "invoking", "capturing", "answered", "parsing"}
Budget ==
  \A i \in Plans : left[i] + offers[i] <= MaxActions /\ (pc[i] \in Early => offers[i] = 0)

IInv == TypeOK /\ Budget /\ LaneInv /\ Rows /\ CancelInv /\ Heard /\ Sealed /\ Silent

-----------------------------------------------------------------------------
(* Every step keeps the lanes *)

\* A step that moves nobody in or out of the queue, or out of its process, leaves them alone.
LEMMA LanesUntouched ==
  ASSUME LaneInv, lanes' = lanes,
         \A i \in Ops : (pc'[i] = "queued" <=> pc[i] = "queued") /\ (CliRuns(i)' <=> CliRuns(i))
  PROVE  LaneInv'
BY DEF LaneInv, InFlight

\* A step may put a sound lane in the place of its own, if the lane holds what it should.
LEMMA LaneReplaced ==
  ASSUME LaneInv, NEW i \in Ops, NEW lane, Sound(lane),
         lanes' = [lanes EXCEPT ![LaneFor(i)] = lane],
         \A j \in Ops : j # i =>
           (pc'[j] = "queued" <=> pc[j] = "queued") /\ (CliRuns(j)' <=> CliRuns(j)),
         \A j \in Ops : LaneFor(j) = LaneFor(i) \/ j = i =>
           (Busy(lane, j) <=> pc'[j] = "queued" \/ CliRuns(j)'),
         \A j \in Ops : Busy(lane, j) => LaneFor(j) = LaneFor(i),
         \A j \in Ops : LaneFor(j) = LaneFor(i) /\ CliRuns(j)' => lane.inflight = j
  PROVE  LaneInv'
<1>1. LaneFor(i) \in Lanes /\ lane \in Lane
  BY LaneIsLane DEF Sound
<1>2. lanes \in [Lanes -> Lane] /\ lanes' \in [Lanes -> Lane]
  BY <1>1 DEF LaneInv
<1>3. lanes'[LaneFor(i)] = lane /\ \A l \in Lanes : l # LaneFor(i) => lanes'[l] = lanes[l]
  BY <1>1, <1>2
<1>4. \A l \in Lanes : Sound(lanes'[l])
  BY <1>3 DEF LaneInv
<1>5. ASSUME NEW l \in Lanes, NEW j \in Ops
      PROVE  Busy(lanes'[l], j) <=> LaneFor(j) = l /\ (pc'[j] = "queued" \/ CliRuns(j)')
  <2>1. CASE l = LaneFor(i)
    BY <1>3, <2>1
  <2>2. CASE l # LaneFor(i)
    BY <1>3, <2>2 DEF LaneInv
  <2> QED
    BY <2>1, <2>2
<1>6. ASSUME NEW j \in Ops, CliRuns(j)'
      PROVE  lanes'[LaneFor(j)].inflight = j
  <2>1. CASE LaneFor(j) = LaneFor(i)
    BY <1>3, <1>6, <2>1
  <2>2. CASE LaneFor(j) # LaneFor(i)
    BY <1>3, <1>6, <2>2, LaneIsLane DEF LaneInv, InFlight
  <2> QED
    BY <2>1, <2>2
<1> QED
  BY <1>2, <1>4, <1>5, <1>6 DEF LaneInv, InFlight

\* The entry in flight is of its operation alone.
LEMMA InFlightAlone ==
  ASSUME LaneInv, NEW i \in Ops, InFlight(i), NEW j \in Ops, j # i, LaneFor(j) = LaneFor(i)
  PROVE  ~CliRuns(j)
BY DEF LaneInv, InFlight

\* What settles an entry leaves the lane to the others.
LEMMA LaneLeft ==
  ASSUME LaneInv, DOMAIN pc = Ops, NEW i \in Ops, InFlight(i), LeaveLane(i),
         NEW point, Goto(i, point), point \notin {"queued", "snapshot", "invoking", "capturing"}
  PROVE  LaneInv'
<1> DEFINE lane == lanes[LaneFor(i)]
<1>1. LaneFor(i) \in Lanes /\ Sound(lane) /\ lane.inflight = i
  BY LaneIsLane DEF LaneInv, InFlight
<1>2. lanes' = [lanes EXCEPT ![LaneFor(i)] = Settled(lane)]
  BY DEF LeaveLane
<1>3. /\ Sound(Settled(lane))
      /\ \A j \in Ops : Busy(Settled(lane), j) <=> Busy(lane, j) /\ j # i
  BY <1>1, SettledRemoves
<1>4. \A j \in Ops : j # i => pc'[j] = pc[j]
  BY DEF Goto
<1>5. pc'[i] = point
  BY DEF Goto
<1> HIDE DEF lane
<1>6. \A j \in Ops : Busy(lane, j) <=> LaneFor(j) = LaneFor(i) /\ (pc[j] = "queued" \/ CliRuns(j))
  BY <1>1 DEF LaneInv, lane
<1>7. \A j \in Ops : j # i => (CliRuns(j)' <=> CliRuns(j))
  BY <1>4 DEF CliRuns
<1>8. ~CliRuns(i)' /\ pc'[i] # "queued"
  BY <1>5 DEF CliRuns
<1>9. \A j \in Ops : ~(LaneFor(j) = LaneFor(i) /\ CliRuns(j)')
  BY <1>7, <1>8, InFlightAlone
<1> QED
  BY <1>2, <1>3, <1>4, <1>6, <1>7, <1>8, <1>9, LaneReplaced

\* An entry leaves the lane when its work settles or a cancellation withdraws it, and not before.
LEMMA LanesKept ==
  ASSUME TypeOK, LaneInv, [Next]_vars
  PROVE  LaneInv'
<1>t. DOMAIN pc = Ops
  BY DEF TypeOK
<1>1. ASSUME NEW i \in Ops, CreateInvocation(i) PROVE LaneInv'
  BY <1>t, LanesUntouched, <1>1 DEF CreateInvocation, Goto, CliRuns
<1>2. ASSUME NEW i \in Ops, Register(i) PROVE LaneInv'
  BY <1>t, LanesUntouched, <1>2 DEF Register, Goto, CliRuns
<1>3. ASSUME NEW i \in Ops, RefuseWhenClosed(i) PROVE LaneInv'
  BY <1>t, LanesUntouched, <1>3 DEF RefuseWhenClosed, Update, Winner, Goto, CliRuns
<1>4. ASSUME NEW i \in Ops, AssertActive(i) PROVE LaneInv'
  BY <1>t, LanesUntouched, <1>4 DEF AssertActive, GotoIfActive, Goto, CliRuns
<1>5. ASSUME NEW i \in Ops, Start(i) PROVE LaneInv'
  BY <1>t, LanesUntouched, <1>5
  DEF Start, UpdateAndCheck, Update, Winner, GotoIfActive, Goto, CliRuns
<1>6. ASSUME NEW i \in Ops, Enqueue(i) PROVE LaneInv'
  <2> DEFINE lane == lanes[LaneFor(i)]
  <2>1. lanes' = [lanes EXCEPT ![LaneFor(i)] = Enqueued(lane, i)] /\ Goto(i, "queued")
    BY <1>6 DEF Enqueue
  <2>2. pc[i] = "readying"
    BY <1>6 DEF Enqueue
  <2> HIDE DEF lane
  <2>3. Sound(lane)
        /\ \A j \in Ops : Busy(lane, j) <=>
             LaneFor(j) = LaneFor(i) /\ (pc[j] = "queued" \/ CliRuns(j))
    BY LaneIsLane DEF LaneInv, lane
  <2>4. ~Busy(lane, i)
    BY <2>2, <2>3 DEF CliRuns
  <2>5. /\ Sound(Enqueued(lane, i))
        /\ \A j \in Ops : Busy(Enqueued(lane, i), j) <=> Busy(lane, j) \/ j = i
        /\ Enqueued(lane, i).inflight = IF lane.inflight = NULL THEN i ELSE lane.inflight
    BY <2>3, <2>4, EnqueuedAdds
  <2>6. pc'[i] = "queued" /\ \A j \in Ops : j # i => pc'[j] = pc[j]
    BY <1>t, <2>1 DEF Goto
  <2>7. ~CliRuns(i)' /\ \A j \in Ops : j # i => (CliRuns(j)' <=> CliRuns(j))
    BY <2>6 DEF CliRuns
  <2>8. \A j \in Ops : LaneFor(j) = LaneFor(i) /\ CliRuns(j)' => Enqueued(lane, i).inflight = j
    BY <2>5, <2>7, NullIsNoOp DEF LaneInv, InFlight, lane
  <2> QED
    BY <2>1, <2>3, <2>5, <2>6, <2>7, <2>8, LaneReplaced
<1>7. ASSUME NEW i \in Ops, PreparationThrows(i) PROVE LaneInv'
  BY <1>t, LanesUntouched, <1>7 DEF PreparationThrows, Goto, CliRuns
<1>8. ASSUME NEW i \in Ops, BeginWork(i) PROVE LaneInv'
  <2>1. pc[i] = "queued" /\ InFlight(i)
    BY <1>8 DEF BeginWork
  <2>2. CASE lifetime[i] \/ signal[i]
    <3>1. LeaveLane(i) /\ Goto(i, "thrown")
      BY <1>8, <2>2 DEF BeginWork
    <3> QED
      BY <1>t, <2>1, <3>1, LaneLeft
  <2>3. CASE ~(lifetime[i] \/ signal[i])
    <3>1. lanes' = lanes /\ pc'[i] = "snapshot" /\ \A j \in Ops : j # i => pc'[j] = pc[j]
      BY <1>t, <1>8, <2>3 DEF BeginWork, Goto
    <3> QED
      BY <2>1, <3>1 DEF LaneInv, InFlight, CliRuns
  <2> QED
    BY <2>2, <2>3
<1>9. ASSUME NEW i \in Ops, Spawn(i) PROVE LaneInv'
  BY <1>t, LanesUntouched, <1>9 DEF Spawn, Goto, CliRuns
<1>10. ASSUME NEW i \in Ops, SettleEntry(i) PROVE LaneInv'
  <2>1. PICK point \in {"answered", "thrown"} : Goto(i, point)
    BY <1>10 DEF SettleEntry
  <2>2. InFlight(i) /\ LeaveLane(i)
    BY <1>10 DEF SettleEntry, LaneInv, CliRuns
  <2> QED
    BY <1>t, <2>1, <2>2, LaneLeft
<1>11. ASSUME NEW i \in Ops, NEW outcome \in {"ok", "failed", "cancelled"}, ProcessEnds(i, outcome)
       PROVE  LaneInv'
  BY <1>t, LanesUntouched, <1>11 DEF ProcessEnds, Goto, CliRuns
<1>12. ASSUME NEW i \in Ops, Diagnose(i) PROVE LaneInv'
  BY <1>t, LanesUntouched, <1>12 DEF Diagnose, Goto, Cancelled, CliRuns
<1>13. ASSUME NEW i \in Ops, PersistCancelled(i) PROVE LaneInv'
  BY <1>t, LanesUntouched, <1>13 DEF PersistCancelled, Update, Winner, SetStep, Goto, CliRuns
<1>14. ASSUME NEW i \in Ops, PersistFailed(i) PROVE LaneInv'
  BY <1>t, LanesUntouched, <1>14
  DEF PersistFailed, UpdateAndCheck, Update, Winner, GotoIfActive, Goto, CliRuns
<1>15. ASSUME NEW i \in Ops, BlockTask(i) PROVE LaneInv'
  BY <1>t, LanesUntouched, <1>15 DEF BlockTask, SetStep, SetTask, Goto, CliRuns
<1>16. ASSUME NEW i \in Ops, PersistWorkerOutcome(i) PROVE LaneInv'
  BY <1>t, LanesUntouched, <1>16
  DEF PersistWorkerOutcome, UpdateAndCheck, Update, Winner, GotoIfActive, Goto, Cancelled,
      CliRuns
<1>17. ASSUME NEW i \in Ops, RecordOutput(i) PROVE LaneInv'
  BY <1>t, LanesUntouched, <1>17 DEF RecordOutput, GotoIfActive, Goto, CliRuns
<1>18. ASSUME NEW i \in Ops, Parse(i) PROVE LaneInv'
  BY <1>t, LanesUntouched, <1>18 DEF Parse, GotoIfActive, Goto, CliRuns
<1>19. ASSUME NEW i \in Ops, ParseWorkerOutput(i) PROVE LaneInv'
  BY <1>t, LanesUntouched, <1>19 DEF ParseWorkerOutput, GotoIfActive, Goto, CliRuns
<1>20. ASSUME NEW i \in Ops, PersistRefusal(i) PROVE LaneInv'
  BY <1>t, LanesUntouched, <1>20 DEF PersistRefusal, Update, Winner, Goto, CliRuns
<1>21. ASSUME NEW i \in Ops, DeclinePlan(i) PROVE LaneInv'
  BY <1>t, LanesUntouched, <1>21 DEF DeclinePlan, SetStep, SetTask, Goto, CliRuns
<1>22. ASSUME NEW i \in Ops, AcceptPlan(i) PROVE LaneInv'
  BY <1>t, LanesUntouched, <1>22 DEF AcceptPlan, SetStep, GotoIfActive, Goto, CliRuns
<1>23. ASSUME NEW i \in Ops, Propose(i) PROVE LaneInv'
  BY <1>t, LanesUntouched, <1>23 DEF Propose, GotoIfActive, Goto, CliRuns
<1>24. ASSUME NEW i \in Ops, MoveTaskOn(i) PROVE LaneInv'
  BY <1>t, LanesUntouched, <1>24 DEF MoveTaskOn, SetTask, Goto, CliRuns
<1>25. ASSUME NEW i \in Ops, PersistSucceeded(i) PROVE LaneInv'
  BY <1>t, LanesUntouched, <1>25 DEF PersistSucceeded, Update, Winner, Goto, CliRuns
<1>26. ASSUME NEW i \in Ops, Confirm(i) PROVE LaneInv'
  BY <1>t, LanesUntouched, <1>26 DEF Confirm, GotoIfActive, Goto, CliRuns
<1>27. ASSUME NEW i \in Ops, Abandon(i) PROVE LaneInv'
  BY <1>t, LanesUntouched, <1>27 DEF Abandon, SetStep, Goto, CliRuns
<1>28. ASSUME NEW i \in Ops, Release(i) PROVE LaneInv'
  BY <1>t, LanesUntouched, <1>28 DEF Release, Goto, CliRuns
<1>29. ASSUME NEW i \in Ops, GeneratePlan(i) PROVE LaneInv'
  BY <1>t, LanesUntouched, <1>29 DEF GeneratePlan, SetStep, Goto, CliRuns
<1>30. ASSUME NEW i \in Ops, InvokeForWorker(i) PROVE LaneInv'
  BY <1>t, LanesUntouched, <1>30 DEF InvokeForWorker, Goto, CliRuns
<1>31. ASSUME NEW i \in Ops, CancelInvocation(i) PROVE LaneInv'
  BY <1>t, LanesUntouched, <1>31 DEF CancelInvocation, CliRuns
<1>32. ASSUME NEW i \in Ops, NEW o \in Origins, PersistCancellation(o, i) PROVE LaneInv'
  BY <1>t, LanesUntouched, <1>32 DEF PersistCancellation, Update, Winner, CliRuns
<1>33. ASSUME NEW i \in Ops, NEW o \in Origins, Abort(o, i) PROVE LaneInv'
  <2> DEFINE lane == lanes[LaneFor(i)]
  <2>1. CASE ~(~InFlight(i) /\ Waits(lane, i))
    BY <1>33, <2>1, LanesUntouched DEF Abort, CliRuns
  <2>2. CASE ~InFlight(i) /\ Waits(lane, i)
    <3>1. lanes' = [lanes EXCEPT ![LaneFor(i)] = Withdrawn(lane, i)] /\ Goto(i, "thrown")
      BY <1>33, <2>2 DEF Abort
    <3> HIDE DEF lane
    <3>2. Sound(lane)
          /\ \A j \in Ops : Busy(lane, j) <=>
               LaneFor(j) = LaneFor(i) /\ (pc[j] = "queued" \/ CliRuns(j))
      BY LaneIsLane DEF LaneInv, lane
    <3>3. /\ Sound(Withdrawn(lane, i))
          /\ \A j \in Ops : Busy(Withdrawn(lane, i), j) <=> Busy(lane, j) /\ j # i
          /\ Withdrawn(lane, i).inflight = lane.inflight
      BY <2>2, <3>2, WithdrawnRemoves
    <3>4. pc'[i] = "thrown" /\ \A j \in Ops : j # i => pc'[j] = pc[j]
      BY <1>t, <3>1 DEF Goto
    <3>5. ~CliRuns(i)' /\ \A j \in Ops : j # i => (CliRuns(j)' <=> CliRuns(j))
      BY <3>4 DEF CliRuns
    <3>6. \A j \in Ops : LaneFor(j) = LaneFor(i) /\ CliRuns(j)' => Withdrawn(lane, i).inflight = j
      BY <3>3, <3>5 DEF LaneInv, InFlight, lane
    <3>7. \A j \in Ops : LaneFor(j) = LaneFor(i) \/ j = i =>
            (Busy(Withdrawn(lane, i), j) <=> pc'[j] = "queued" \/ CliRuns(j)')
      BY <3>2, <3>3, <3>4, <3>5
    <3>8. \A j \in Ops : Busy(Withdrawn(lane, i), j) => LaneFor(j) = LaneFor(i)
      BY <3>2, <3>3
    <3> QED
      BY <3>1, <3>3, <3>4, <3>5, <3>6, <3>7, <3>8, LaneReplaced
  <2> QED
    BY <2>1, <2>2
<1>34. CASE CancelTask
  BY <1>t, LanesUntouched, <1>34 DEF CancelTask, CliRuns
<1>35. CASE CancelTaskInvocations
  BY <1>t, LanesUntouched, <1>35 DEF CancelTaskInvocations, CliRuns
<1>36. ASSUME NEW status \in Moves, MoveTask(status) PROVE LaneInv'
  BY <1>t, LanesUntouched, <1>36 DEF MoveTask, CliRuns
<1>37. CASE Shutdown
  BY <1>t, LanesUntouched, <1>37 DEF Shutdown, CliRuns
<1>38. CASE UNCHANGED vars
  BY <1>t, LanesUntouched, <1>38 DEF vars, CliRuns
<1> QED
  BY <1>1, <1>2, <1>3, <1>4, <1>5, <1>6, <1>7, <1>8, <1>9, <1>10, <1>11, <1>12, <1>13, <1>14,
       <1>15, <1>16, <1>17, <1>18, <1>19, <1>20, <1>21, <1>22, <1>23, <1>24, <1>25, <1>26,
       <1>27, <1>28, <1>29, <1>30, <1>31, <1>32, <1>33, <1>34, <1>35, <1>36, <1>37, <1>38
  DEF Next, Step, Request, Cancelling, RetryInvocation

-----------------------------------------------------------------------------
(* Every step keeps what is said of the rows *)

\* Every step keeps the types.
LEMMA TypesKept ==
  ASSUME TypeOK, Budget', LaneInv', [Next]_vars
  PROVE  TypeOK'
<1>t. TypeOK /\ lanes' \in [Lanes -> [inflight : Ops \cup {NULL}, waiting : Seq(Ops)]]
  BY DEF LaneInv, Lane
<1>1. ASSUME NEW i \in Ops, CreateInvocation(i) PROVE TypeOK'
  BY <1>t, <1>1 DEF CreateInvocation, Goto, external, data, TypeOK, PC, Open, Final, TaskStatus
<1>2. ASSUME NEW i \in Ops, Register(i) PROVE TypeOK'
  BY <1>t, <1>2 DEF Register, Goto, external, data, TypeOK, PC, Open, Final, TaskStatus
<1>3. ASSUME NEW i \in Ops, RefuseWhenClosed(i) PROVE TypeOK'
  BY <1>t, <1>3
  DEF RefuseWhenClosed, Update, Winner, Goto, external, data, TypeOK, PC, Open, Final,
      TaskStatus
<1>4. ASSUME NEW i \in Ops, AssertActive(i) PROVE TypeOK'
  BY <1>t, <1>4
  DEF AssertActive, GotoIfActive, Goto, external, data, TypeOK, PC, Open, Final, TaskStatus
<1>5. ASSUME NEW i \in Ops, Start(i) PROVE TypeOK'
  BY <1>t, <1>5
  DEF Start, UpdateAndCheck, Update, Winner, GotoIfActive, Goto, external, data, TypeOK, PC,
      Open, Final, TaskStatus
<1>6. ASSUME NEW i \in Ops, Enqueue(i) PROVE TypeOK'
  BY <1>t, <1>6 DEF Enqueue, Goto, external, data, TypeOK, PC, Open, Final, TaskStatus
<1>7. ASSUME NEW i \in Ops, PreparationThrows(i) PROVE TypeOK'
  BY <1>t, <1>7 DEF PreparationThrows, Goto, external, data, TypeOK, PC, Open, Final, TaskStatus
<1>8. ASSUME NEW i \in Ops, BeginWork(i) PROVE TypeOK'
  BY <1>t, <1>8 DEF BeginWork, LeaveLane, Goto, external, data, TypeOK, PC, Open, Final, TaskStatus
<1>9. ASSUME NEW i \in Ops, Spawn(i) PROVE TypeOK'
  BY <1>t, <1>9 DEF Spawn, Goto, external, data, TypeOK, PC, Open, Final, TaskStatus
<1>10. ASSUME NEW i \in Ops, SettleEntry(i) PROVE TypeOK'
  BY <1>t, <1>10
  DEF SettleEntry, LeaveLane, Goto, external, data, TypeOK, PC, Open, Final, TaskStatus
<1>11. ASSUME NEW i \in Ops, NEW outcome \in {"ok", "failed", "cancelled"}, ProcessEnds(i, outcome)
       PROVE  TypeOK'
  BY <1>t, <1>11 DEF ProcessEnds, Goto, external, data, TypeOK, PC, Open, Final, TaskStatus
<1>12. ASSUME NEW i \in Ops, Diagnose(i) PROVE TypeOK'
  BY <1>t, <1>12 DEF Diagnose, Goto, Cancelled, external, data, TypeOK, PC, Open, Final, TaskStatus
<1>13. ASSUME NEW i \in Ops, PersistCancelled(i) PROVE TypeOK'
  BY <1>t, <1>13
  DEF PersistCancelled, Update, Winner, SetStep, Goto, external, data, TypeOK, PC, Open, Final,
      TaskStatus
<1>14. ASSUME NEW i \in Ops, PersistFailed(i) PROVE TypeOK'
  <2>1. UNCHANGED <<task, step, answer, signal, left, offers, external>>
    BY <1>14 DEF PersistFailed, data
  <2>2. CASE lifetime[i]
    BY <1>t, <1>14, <2>1, <2>2 DEF PersistFailed, Goto, external, TypeOK, PC
  <2>3. CASE ~lifetime[i]
    <3>1. row' \in [Ops -> Open \cup Final \cup {NULL}]
      BY <1>t, <1>14, <2>3 DEF PersistFailed, UpdateAndCheck, Update, Winner, TypeOK, Final
    <3>2. lifetime' \in [Ops -> BOOLEAN]
      BY <1>t, <1>14, <2>3 DEF PersistFailed, UpdateAndCheck, TypeOK
    <3>3. pc' = [pc EXCEPT ![i] = IF lifetime'[i] THEN "abandoning" ELSE "blocking"]
      BY <1>14, <2>3 DEF PersistFailed, UpdateAndCheck, GotoIfActive, Goto
    <3>4. pc' \in [Ops -> PC]
      BY <1>t, <3>3 DEF TypeOK, PC
    <3>5. UNCHANGED lanes
      BY <1>14 DEF PersistFailed
    <3> QED
      BY <1>t, <2>1, <3>1, <3>2, <3>4, <3>5 DEF external, TypeOK
  <2> QED
    BY <2>2, <2>3
<1>15. ASSUME NEW i \in Ops, BlockTask(i) PROVE TypeOK'
  BY <1>t, <1>15
  DEF BlockTask, SetStep, SetTask, Goto, external, data, TypeOK, PC, Open, Final, TaskStatus
<1>16. ASSUME NEW i \in Ops, PersistWorkerOutcome(i) PROVE TypeOK'
  BY <1>t, <1>16
  DEF PersistWorkerOutcome, UpdateAndCheck, Update, Winner, GotoIfActive, Goto, Cancelled,
      external, data, TypeOK, PC, Open, Final, TaskStatus
<1>17. ASSUME NEW i \in Ops, RecordOutput(i) PROVE TypeOK'
  BY <1>t, <1>17
  DEF RecordOutput, GotoIfActive, Goto, external, data, TypeOK, PC, Open, Final, TaskStatus
<1>18. ASSUME NEW i \in Ops, Parse(i) PROVE TypeOK'
  BY <1>t, <1>18 DEF Parse, GotoIfActive, Goto, external, TypeOK, PC, Open, Final, TaskStatus
<1>19. ASSUME NEW i \in Ops, ParseWorkerOutput(i) PROVE TypeOK'
  BY <1>t, <1>19
  DEF ParseWorkerOutput, GotoIfActive, Goto, external, data, TypeOK, PC, Open, Final, TaskStatus
<1>20. ASSUME NEW i \in Ops, PersistRefusal(i) PROVE TypeOK'
  BY <1>t, <1>20
  DEF PersistRefusal, Update, Winner, Goto, external, data, TypeOK, PC, Open, Final, TaskStatus
<1>21. ASSUME NEW i \in Ops, DeclinePlan(i) PROVE TypeOK'
  BY <1>t, <1>21
  DEF DeclinePlan, SetStep, SetTask, Goto, external, data, TypeOK, PC, Open, Final, TaskStatus
<1>22. ASSUME NEW i \in Ops, AcceptPlan(i) PROVE TypeOK'
  BY <1>t, <1>22
  DEF AcceptPlan, SetStep, GotoIfActive, Goto, external, data, TypeOK, PC, Open, Final,
      TaskStatus
<1>23. ASSUME NEW i \in Ops, Propose(i) PROVE TypeOK'
  <2>1. UNCHANGED <<task, row, step, answer, signal, lanes, external, lifetime>>
    BY <1>23 DEF Propose
  <2>2. pc' \in [Ops -> PC]
    <3>1. pc' = pc \/ pc' = [pc EXCEPT ![i] = IF lifetime'[i] THEN "abandoning" ELSE "moving"]
      BY <1>23 DEF Propose, GotoIfActive, Goto
    <3> QED
      BY <1>t, <3>1 DEF TypeOK, PC
  <2>3. left' \in [Plans -> 0..MaxActions]
    BY <1>t, <1>23, PlanningAssumption DEF Propose, data, TypeOK, PlanningAssumption
  <2>4. offers' \in [Plans -> Nat]
    BY <1>t, <1>23, PlanningAssumption DEF Propose, data, TypeOK, PlanningAssumption
  <2>5. offers' \in [Plans -> 0..MaxActions]
    BY <2>3, <2>4, PlanningAssumption DEF Budget, PlanningAssumption
  <2> QED
    BY <1>t, <2>1, <2>2, <2>3, <2>5 DEF TypeOK, external
<1>24. ASSUME NEW i \in Ops, MoveTaskOn(i) PROVE TypeOK'
  BY <1>t, <1>24 DEF MoveTaskOn, SetTask, Goto, external, data, TypeOK, PC, Open, Final, TaskStatus
<1>25. ASSUME NEW i \in Ops, PersistSucceeded(i) PROVE TypeOK'
  BY <1>t, <1>25
  DEF PersistSucceeded, Update, Winner, Goto, external, data, TypeOK, PC, Open, Final,
      TaskStatus
<1>26. ASSUME NEW i \in Ops, Confirm(i) PROVE TypeOK'
  BY <1>t, <1>26
  DEF Confirm, GotoIfActive, Goto, external, data, TypeOK, PC, Open, Final, TaskStatus
<1>27. ASSUME NEW i \in Ops, Abandon(i) PROVE TypeOK'
  BY <1>t, <1>27 DEF Abandon, SetStep, Goto, external, data, TypeOK, PC, Open, Final, TaskStatus
<1>28. ASSUME NEW i \in Ops, Release(i) PROVE TypeOK'
  BY <1>t, <1>28 DEF Release, Goto, external, data, TypeOK, PC, Open, Final, TaskStatus
<1>29. ASSUME NEW i \in Ops, GeneratePlan(i) PROVE TypeOK'
  BY <1>t, <1>29
  DEF GeneratePlan, SetStep, Goto, external, data, TypeOK, PC, Open, Final, TaskStatus
<1>30. ASSUME NEW i \in Ops, InvokeForWorker(i) PROVE TypeOK'
  BY <1>t, <1>30 DEF InvokeForWorker, Goto, external, data, TypeOK, PC, Open, Final, TaskStatus
<1>31. ASSUME NEW i \in Ops, CancelInvocation(i) PROVE TypeOK'
  BY <1>t, <1>31 DEF CancelInvocation, data, TypeOK, PC, Open, Final, TaskStatus
<1>32. ASSUME NEW i \in Ops, NEW o \in Origins, PersistCancellation(o, i) PROVE TypeOK'
  BY <1>t, <1>32 DEF PersistCancellation, Update, Winner, data, TypeOK, PC, Open, Final, TaskStatus
<1>33. ASSUME NEW i \in Ops, NEW o \in Origins, Abort(o, i) PROVE TypeOK'
  BY <1>t, <1>33 DEF Abort, Goto, data, TypeOK, PC, Open, Final, TaskStatus
<1>34. CASE CancelTask
  BY <1>t, <1>34 DEF CancelTask, data, TypeOK, PC, Open, Final, TaskStatus
<1>35. CASE CancelTaskInvocations
  BY <1>t, <1>35 DEF CancelTaskInvocations, data, TypeOK, PC, Open, Final, TaskStatus
<1>36. ASSUME NEW status \in Moves, MoveTask(status) PROVE TypeOK'
  BY <1>t, <1>36, PlanningAssumption DEF MoveTask, external, data, TypeOK, PlanningAssumption
<1>37. CASE Shutdown
  BY <1>t, <1>37 DEF Shutdown, data, TypeOK, PC, Open, Final, TaskStatus
<1>38. CASE UNCHANGED vars
  BY <1>t, <1>38 DEF vars, TypeOK, PC, Open, Final, TaskStatus
<1> QED
  BY <1>1, <1>2, <1>3, <1>4, <1>5, <1>6, <1>7, <1>8, <1>9, <1>10, <1>11, <1>12, <1>13, <1>14,
       <1>15, <1>16, <1>17, <1>18, <1>19, <1>20, <1>21, <1>22, <1>23, <1>24, <1>25, <1>26,
       <1>27, <1>28, <1>29, <1>30, <1>31, <1>32, <1>33, <1>34, <1>35, <1>36, <1>37, <1>38
  DEF Next, Step, Request, Cancelling, RetryInvocation

\* Proposing only turns what is left into offers.
LEMMA BudgetKept ==
  ASSUME TypeOK, Budget, Rows, [Next]_vars
  PROVE  Budget'
<1>t. /\ pc \in [Ops -> PC] /\ left \in [Plans -> Nat] /\ offers \in [Plans -> Nat]
      /\ \A i \in Plans : left[i] <= MaxActions
      /\ Plans \subseteq Ops /\ MaxActions \in Nat
  BY PlanningAssumption DEF TypeOK, Ops, PlanningAssumption
<1>1. ASSUME NEW i \in Ops, CreateInvocation(i) PROVE Budget'
  BY <1>t, <1>1 DEF CreateInvocation, Goto, data, Budget, Early
<1>2. ASSUME NEW i \in Ops, Register(i) PROVE Budget'
  BY <1>t, <1>2 DEF Register, Goto, data, Budget, Early
<1>3. ASSUME NEW i \in Ops, RefuseWhenClosed(i) PROVE Budget'
  BY <1>t, <1>3 DEF RefuseWhenClosed, Update, Winner, Goto, data, Budget, Early
<1>4. ASSUME NEW i \in Ops, AssertActive(i) PROVE Budget'
  BY <1>t, <1>4 DEF AssertActive, GotoIfActive, Goto, data, Budget, Early
<1>5. ASSUME NEW i \in Ops, Start(i) PROVE Budget'
  BY <1>t, <1>5 DEF Start, UpdateAndCheck, Update, Winner, GotoIfActive, Goto, data, Budget, Early
<1>6. ASSUME NEW i \in Ops, Enqueue(i) PROVE Budget'
  BY <1>t, <1>6 DEF Enqueue, Goto, data, Budget, Early
<1>7. ASSUME NEW i \in Ops, PreparationThrows(i) PROVE Budget'
  BY <1>t, <1>7 DEF PreparationThrows, Goto, data, Budget, Early
<1>8. ASSUME NEW i \in Ops, BeginWork(i) PROVE Budget'
  BY <1>t, <1>8 DEF BeginWork, LeaveLane, Goto, data, Budget, Early
<1>9. ASSUME NEW i \in Ops, Spawn(i) PROVE Budget'
  BY <1>t, <1>9 DEF Spawn, Goto, data, Budget, Early
<1>10. ASSUME NEW i \in Ops, SettleEntry(i) PROVE Budget'
  BY <1>t, <1>10 DEF SettleEntry, LeaveLane, Goto, data, Budget, Early
<1>11. ASSUME NEW i \in Ops, NEW outcome \in {"ok", "failed", "cancelled"}, ProcessEnds(i, outcome)
       PROVE  Budget'
  BY <1>t, <1>11 DEF ProcessEnds, Goto, data, Budget, Early
<1>12. ASSUME NEW i \in Ops, Diagnose(i) PROVE Budget'
  BY <1>t, <1>12 DEF Diagnose, Goto, Cancelled, data, Budget, Early
<1>13. ASSUME NEW i \in Ops, PersistCancelled(i) PROVE Budget'
  BY <1>t, <1>13 DEF PersistCancelled, Update, Winner, SetStep, Goto, data, Budget, Early
<1>14. ASSUME NEW i \in Ops, PersistFailed(i) PROVE Budget'
  BY <1>t, <1>14
  DEF PersistFailed, UpdateAndCheck, Update, Winner, GotoIfActive, Goto, data, Budget, Early
<1>15. ASSUME NEW i \in Ops, BlockTask(i) PROVE Budget'
  BY <1>t, <1>15 DEF BlockTask, SetStep, SetTask, Goto, data, Budget, Early
<1>16. ASSUME NEW i \in Ops, PersistWorkerOutcome(i) PROVE Budget'
  BY <1>t, <1>16
  DEF PersistWorkerOutcome, UpdateAndCheck, Update, Winner, GotoIfActive, Goto, Cancelled, data,
      Budget, Early
<1>17. ASSUME NEW i \in Ops, RecordOutput(i) PROVE Budget'
  BY <1>t, <1>17 DEF RecordOutput, GotoIfActive, Goto, data, Budget, Early
<1>18. ASSUME NEW i \in Ops, Parse(i) PROVE Budget'
  BY <1>t, <1>18 DEF Parse, GotoIfActive, Goto, Budget, Early
<1>19. ASSUME NEW i \in Ops, ParseWorkerOutput(i) PROVE Budget'
  BY <1>t, <1>19 DEF ParseWorkerOutput, GotoIfActive, Goto, data, Budget, Early
<1>20. ASSUME NEW i \in Ops, PersistRefusal(i) PROVE Budget'
  BY <1>t, <1>20 DEF PersistRefusal, Update, Winner, Goto, data, Budget, Early
<1>21. ASSUME NEW i \in Ops, DeclinePlan(i) PROVE Budget'
  BY <1>t, <1>21 DEF DeclinePlan, SetStep, SetTask, Goto, data, Budget, Early
<1>22. ASSUME NEW i \in Ops, AcceptPlan(i) PROVE Budget'
  BY <1>t, <1>22 DEF AcceptPlan, SetStep, GotoIfActive, Goto, data, Budget, Early
<1>23. ASSUME NEW i \in Ops, Propose(i) PROVE Budget'
  <2>1. i \in Plans /\ pc[i] = "proposing"
    BY <1>23 DEF Propose, Rows, RowInv
  <2>2. pc'[i] \notin Early
    BY <1>t, <1>23 DEF Propose, GotoIfActive, Goto, Early
  <2>3. \A j \in Plans : j # i => pc'[j] = pc[j] /\ left'[j] = left[j] /\ offers'[j] = offers[j]
    BY <1>t, <1>23 DEF Propose, GotoIfActive, Goto, data
  <2>4. left'[i] + offers'[i] = left[i] + offers[i]
    <3>1. CASE lifetime[i] \/ left[i] = 0
      BY <1>23, <3>1 DEF Propose, data
    <3>2. CASE ~(lifetime[i] \/ left[i] = 0)
      BY <1>t, <1>23, <2>1, <3>2 DEF Propose
    <3> QED
      BY <3>1, <3>2
  <2> QED
    BY <2>1, <2>2, <2>3, <2>4 DEF Budget
<1>24. ASSUME NEW i \in Ops, MoveTaskOn(i) PROVE Budget'
  BY <1>t, <1>24 DEF MoveTaskOn, SetTask, Goto, data, Budget, Early
<1>25. ASSUME NEW i \in Ops, PersistSucceeded(i) PROVE Budget'
  BY <1>t, <1>25 DEF PersistSucceeded, Update, Winner, Goto, data, Budget, Early
<1>26. ASSUME NEW i \in Ops, Confirm(i) PROVE Budget'
  BY <1>t, <1>26 DEF Confirm, GotoIfActive, Goto, data, Budget, Early
<1>27. ASSUME NEW i \in Ops, Abandon(i) PROVE Budget'
  BY <1>t, <1>27 DEF Abandon, SetStep, Goto, data, Budget, Early
<1>28. ASSUME NEW i \in Ops, Release(i) PROVE Budget'
  BY <1>t, <1>28 DEF Release, Goto, data, Budget, Early
<1>29. ASSUME NEW i \in Ops, GeneratePlan(i) PROVE Budget'
  BY <1>t, <1>29 DEF GeneratePlan, SetStep, Goto, data, Budget, Early
<1>30. ASSUME NEW i \in Ops, InvokeForWorker(i) PROVE Budget'
  BY <1>t, <1>30 DEF InvokeForWorker, Goto, data, Budget, Early
<1>31. ASSUME NEW i \in Ops, CancelInvocation(i) PROVE Budget'
  BY <1>t, <1>31 DEF CancelInvocation, data, Budget, Early
<1>32. ASSUME NEW i \in Ops, NEW o \in Origins, PersistCancellation(o, i) PROVE Budget'
  BY <1>t, <1>32 DEF PersistCancellation, Update, Winner, data, Budget, Early
<1>33. ASSUME NEW i \in Ops, NEW o \in Origins, Abort(o, i) PROVE Budget'
  BY <1>t, <1>33 DEF Abort, Goto, data, Budget, Early
<1>34. CASE CancelTask
  BY <1>t, <1>34 DEF CancelTask, data, Budget, Early
<1>35. CASE CancelTaskInvocations
  BY <1>t, <1>35 DEF CancelTaskInvocations, data, Budget, Early
<1>36. ASSUME NEW status \in Moves, MoveTask(status) PROVE Budget'
  BY <1>t, <1>36 DEF MoveTask, data, Budget, Early
<1>37. CASE Shutdown
  BY <1>t, <1>37 DEF Shutdown, data, Budget, Early
<1>38. CASE UNCHANGED vars
  BY <1>t, <1>38 DEF vars, Budget, Early
<1> QED
  BY <1>1, <1>2, <1>3, <1>4, <1>5, <1>6, <1>7, <1>8, <1>9, <1>10, <1>11, <1>12, <1>13, <1>14,
       <1>15, <1>16, <1>17, <1>18, <1>19, <1>20, <1>21, <1>22, <1>23, <1>24, <1>25, <1>26,
       <1>27, <1>28, <1>29, <1>30, <1>31, <1>32, <1>33, <1>34, <1>35, <1>36, <1>37, <1>38
  DEF Next, Step, Request, Cancelling, RetryInvocation

\* An operation goes on only after what it had to write.
LEMMA RowsKept ==
  ASSUME TypeOK, LaneInv, CancelInv, Rows, [Next]_vars
  PROVE  Rows'
<1>t. /\ pc \in [Ops -> PC] /\ answer \in [Ops -> {"none", "ok", "failed", "cancelled"}]
      /\ row \in [Ops -> Open \cup Final \cup {NULL}]
      /\ lifetime \in [Ops -> BOOLEAN]
      /\ step \in [Plans -> {"none", "running", "succeeded", "failed"}]
      /\ Ops = Plans \cup Workers /\ Plans \cap Workers = {}
      /\ NULL \notin Open \cup Final
  BY PlanningAssumption DEF TypeOK, Ops, PlanningAssumption
<1>1. ASSUME NEW i \in Ops, CreateInvocation(i) PROVE Rows'
  BY <1>t, <1>1 DEF CreateInvocation, Goto, Rows, RowInv, Rowless, Over, Leaving, Open, Final
<1>2. ASSUME NEW i \in Ops, Register(i) PROVE Rows'
  BY <1>t, <1>2 DEF Register, Goto, Rows, RowInv, Rowless, Over, Leaving, Open, Final
<1>3. ASSUME NEW i \in Ops, RefuseWhenClosed(i) PROVE Rows'
  BY <1>t, <1>3
  DEF RefuseWhenClosed, Update, Winner, Goto, Rows, RowInv, Rowless, Over, Leaving, Open, Final
<1>4. ASSUME NEW i \in Ops, AssertActive(i) PROVE Rows'
  BY <1>t, <1>4
  DEF AssertActive, GotoIfActive, Goto, Rows, RowInv, Rowless, Over, Leaving, Open, Final
<1>5. ASSUME NEW i \in Ops, Start(i) PROVE Rows'
  BY <1>t, <1>5
  DEF Start, UpdateAndCheck, Update, Winner, GotoIfActive, Goto, Rows, RowInv, Rowless, Over,
      Leaving, Open, Final
<1>6. ASSUME NEW i \in Ops, Enqueue(i) PROVE Rows'
  BY <1>t, <1>6 DEF Enqueue, Goto, Rows, RowInv, Rowless, Over, Leaving, Open, Final
<1>7. ASSUME NEW i \in Ops, PreparationThrows(i) PROVE Rows'
  BY <1>t, <1>7 DEF PreparationThrows, Goto, Rows, RowInv, Rowless, Over, Leaving, Open, Final
<1>8. ASSUME NEW i \in Ops, BeginWork(i) PROVE Rows'
  BY <1>t, <1>8 DEF BeginWork, LeaveLane, Goto, Rows, RowInv, Rowless, Over, Leaving, Open, Final
<1>9. ASSUME NEW i \in Ops, Spawn(i) PROVE Rows'
  BY <1>t, <1>9 DEF Spawn, Goto, Rows, RowInv, Rowless, Over, Leaving, Open, Final
<1>10. ASSUME NEW i \in Ops, SettleEntry(i) PROVE Rows'
  BY <1>t, <1>10 DEF SettleEntry, LeaveLane, Goto, Rows, RowInv, Rowless, Over, Leaving, Open, Final
<1>11. ASSUME NEW i \in Ops, NEW outcome \in {"ok", "failed", "cancelled"}, ProcessEnds(i, outcome)
       PROVE  Rows'
  BY <1>t, <1>11 DEF ProcessEnds, Goto, Rows, RowInv, Rowless, Over, Leaving, Open, Final
<1>12. ASSUME NEW i \in Ops, Diagnose(i) PROVE Rows'
  BY <1>t, <1>12 DEF Diagnose, Goto, Cancelled, Rows, RowInv, Rowless, Over, Leaving, Open, Final
<1>13. ASSUME NEW i \in Ops, PersistCancelled(i) PROVE Rows'
  BY <1>t, <1>13
  DEF PersistCancelled, Update, Winner, SetStep, Goto, Rows, RowInv, Rowless, Over, Leaving,
      Open, Final
<1>14. ASSUME NEW i \in Ops, PersistFailed(i) PROVE Rows'
  <2>1. pc[i] = "failing" /\ i \in Plans /\ UNCHANGED <<step, answer>>
    BY <1>14 DEF PersistFailed
  <2>2. RowInv(i) /\ \A j \in Ops : j # i => RowInv(j)
    BY DEF Rows
  <2>3. \A j \in Ops : j # i => pc'[j] = pc[j] /\ row'[j] = row[j] /\ lifetime'[j] = lifetime[j]
    BY <1>t, <1>14 DEF PersistFailed, UpdateAndCheck, Update, GotoIfActive, Goto
  <2>4. \A j \in Ops : j # i => RowInv(j)'
    BY <2>1, <2>2, <2>3 DEF RowInv
  <2>5. CASE lifetime[i]
    <3>1. row' = row /\ lifetime' = lifetime /\ pc'[i] = "abandoning"
      BY <1>t, <1>14, <2>5 DEF PersistFailed, Goto
    <3>2. RowInv(i)'
      BY <1>t, <2>1, <2>2, <2>5, <3>1 DEF RowInv, Rowless, Over, Leaving, Final, Open
    <3> QED
      BY <2>4, <3>2 DEF Rows
  <2>6. CASE ~lifetime[i]
    <3>1. row'[i] = IF row[i] = "cancelled" THEN "cancelled" ELSE "failed"
      BY <1>t, <1>14, <2>6 DEF PersistFailed, UpdateAndCheck, Update, Winner
    <3>2. lifetime'[i] = (row'[i] = "cancelled")
      BY <1>t, <1>14, <2>6 DEF PersistFailed, UpdateAndCheck
    <3>3. pc'[i] = IF row'[i] = "cancelled" THEN "abandoning" ELSE "blocking"
      BY <1>t, <1>14, <2>6, <3>2 DEF PersistFailed, UpdateAndCheck, GotoIfActive, Goto
    <3>4. RowInv(i)'
      BY <1>t, <2>1, <2>2, <3>1, <3>2, <3>3 DEF RowInv, Rowless, Over, Leaving, Final, Open
    <3> QED
      BY <2>4, <3>4 DEF Rows
  <2> QED
    BY <2>5, <2>6
<1>15. ASSUME NEW i \in Ops, BlockTask(i) PROVE Rows'
  BY <1>t, <1>15
  DEF BlockTask, SetStep, SetTask, Goto, Rows, RowInv, Rowless, Over, Leaving, Open, Final
<1>16. ASSUME NEW i \in Ops, PersistWorkerOutcome(i) PROVE Rows'
  BY <1>t, <1>16
  DEF PersistWorkerOutcome, UpdateAndCheck, Update, Winner, GotoIfActive, Goto, Cancelled, Rows,
      RowInv, Rowless, Over, Leaving, Open, Final
<1>17. ASSUME NEW i \in Ops, RecordOutput(i) PROVE Rows'
  BY <1>t, <1>17
  DEF RecordOutput, GotoIfActive, Goto, Rows, RowInv, Rowless, Over, Leaving, Open, Final
<1>18. ASSUME NEW i \in Ops, Parse(i) PROVE Rows'
  BY <1>t, <1>18 DEF Parse, GotoIfActive, Goto, Rows, RowInv, Rowless, Over, Leaving, Open, Final
<1>19. ASSUME NEW i \in Ops, ParseWorkerOutput(i) PROVE Rows'
  BY <1>t, <1>19
  DEF ParseWorkerOutput, GotoIfActive, Goto, Rows, RowInv, Rowless, Over, Leaving, Open, Final
<1>20. ASSUME NEW i \in Ops, PersistRefusal(i) PROVE Rows'
  BY <1>t, <1>20
  DEF PersistRefusal, Update, Winner, Goto, Rows, RowInv, Rowless, Over, Leaving, Open, Final
<1>21. ASSUME NEW i \in Ops, DeclinePlan(i) PROVE Rows'
  BY <1>t, <1>21
  DEF DeclinePlan, SetStep, SetTask, Goto, Rows, RowInv, Rowless, Over, Leaving, Open, Final
<1>22. ASSUME NEW i \in Ops, AcceptPlan(i) PROVE Rows'
  BY <1>t, <1>22
  DEF AcceptPlan, SetStep, GotoIfActive, Goto, Rows, RowInv, Rowless, Over, Leaving, Open, Final
<1>23. ASSUME NEW i \in Ops, Propose(i) PROVE Rows'
  BY <1>t, <1>23 DEF Propose, GotoIfActive, Goto, Rows, RowInv, Rowless, Over, Leaving, Open, Final
<1>24. ASSUME NEW i \in Ops, MoveTaskOn(i) PROVE Rows'
  BY <1>t, <1>24 DEF MoveTaskOn, SetTask, Goto, Rows, RowInv, Rowless, Over, Leaving, Open, Final
<1>25. ASSUME NEW i \in Ops, PersistSucceeded(i) PROVE Rows'
  BY <1>t, <1>25
  DEF PersistSucceeded, Update, Winner, Goto, Rows, RowInv, Rowless, Over, Leaving, Open, Final
<1>26. ASSUME NEW i \in Ops, Confirm(i) PROVE Rows'
  BY <1>t, <1>26 DEF Confirm, GotoIfActive, Goto, Rows, RowInv, Rowless, Over, Leaving, Open, Final
<1>27. ASSUME NEW i \in Ops, Abandon(i) PROVE Rows'
  BY <1>t, <1>27 DEF Abandon, SetStep, Goto, Rows, RowInv, Rowless, Over, Leaving, Open, Final
<1>28. ASSUME NEW i \in Ops, Release(i) PROVE Rows'
  BY <1>t, <1>28 DEF Release, Goto, Rows, RowInv, Rowless, Over, Leaving, Open, Final
<1>29. ASSUME NEW i \in Ops, GeneratePlan(i) PROVE Rows'
  BY <1>t, <1>29 DEF GeneratePlan, SetStep, Goto, Rows, RowInv, Rowless, Over, Leaving, Open, Final
<1>30. ASSUME NEW i \in Ops, InvokeForWorker(i) PROVE Rows'
  BY <1>t, <1>30 DEF InvokeForWorker, Goto, Rows, RowInv, Rowless, Over, Leaving, Open, Final
<1>31. ASSUME NEW i \in Ops, CancelInvocation(i) PROVE Rows'
  BY <1>t, <1>31 DEF CancelInvocation, Rows, RowInv, Rowless, Over, Leaving, Open, Final
<1>32. ASSUME NEW i \in Ops, NEW o \in Origins, PersistCancellation(o, i) PROVE Rows'
  <2>1. UNCHANGED <<step, pc, answer, lifetime>> /\ row[i] # NULL
    BY <1>32 DEF PersistCancellation, CancelInv
  <2>2. \A j \in Ops : j # i => row'[j] = row[j]
    BY <1>t, <1>32 DEF PersistCancellation, Update
  <2>3. \A j \in Ops : j # i => RowInv(j)'
    BY <2>1, <2>2 DEF Rows, RowInv
  <2>4. row'[i] = IF row[i] \in Final THEN row[i] ELSE "cancelled"
    BY <1>t, <1>32 DEF PersistCancellation, Update, Winner, Final
  <2>5. RowInv(i)'
    BY <1>t, <2>1, <2>4 DEF Rows, RowInv, Final
  <2> QED
    BY <2>3, <2>5 DEF Rows
<1>33. ASSUME NEW i \in Ops, NEW o \in Origins, Abort(o, i) PROVE Rows'
  <2>1. row[i] \in Final /\ UNCHANGED <<row, step>> /\ lifetime'[i] = (lifetime[i] \/ Registered(i))
    BY <1>t, <1>33 DEF Abort, CancelInv
  <2>2. \A j \in Ops : j # i =>
          pc'[j] = pc[j] /\ answer'[j] = answer[j] /\ lifetime'[j] = lifetime[j]
    BY <1>t, <1>33 DEF Abort, Goto
  <2>3. \A j \in Ops : j # i => RowInv(j)'
    BY <2>1, <2>2 DEF Rows, RowInv
  <2>4. CASE pc' = pc /\ answer' = answer
    BY <1>t, <2>1, <2>3, <2>4 DEF Rows, RowInv
  <2>5. CASE ~(pc' = pc /\ answer' = answer)
    <3>1. Waits(lanes[LaneFor(i)], i) /\ ~InFlight(i) /\ Goto(i, "thrown")
      BY <1>33, <2>5 DEF Abort
    <3>2. pc[i] = "queued" \/ CliRuns(i)
      BY <3>1, LaneIsLane DEF LaneInv, Busy
    <3>3. pc[i] = "queued" /\ pc'[i] = "thrown"
      BY <1>t, <3>1, <3>2 DEF LaneInv, Goto
    <3>4. row[i] = "cancelled"
      BY <2>1, <3>3 DEF Rows, RowInv, Over, Final
    <3>5. RowInv(i)'
      BY <1>t, <2>1, <3>3, <3>4 DEF RowInv, Rowless, Leaving, Final
    <3> QED
      BY <2>3, <3>5 DEF Rows
  <2> QED
    BY <2>4, <2>5
<1>34. CASE CancelTask
  BY <1>t, <1>34 DEF CancelTask, Rows, RowInv, Rowless, Over, Leaving, Open, Final
<1>35. CASE CancelTaskInvocations
  BY <1>t, <1>35 DEF CancelTaskInvocations, Rows, RowInv, Rowless, Over, Leaving, Open, Final
<1>36. ASSUME NEW status \in Moves, MoveTask(status) PROVE Rows'
  BY <1>t, <1>36 DEF MoveTask, Rows, RowInv, Rowless, Over, Leaving, Open, Final
<1>37. CASE Shutdown
  BY <1>t, <1>37 DEF Shutdown, Rows, RowInv, Rowless, Over, Leaving, Open, Final
<1>38. CASE UNCHANGED vars
  BY <1>t, <1>38 DEF vars, Rows, RowInv, Rowless, Over, Leaving, Open, Final
<1> QED
  BY <1>1, <1>2, <1>3, <1>4, <1>5, <1>6, <1>7, <1>8, <1>9, <1>10, <1>11, <1>12, <1>13, <1>14,
       <1>15, <1>16, <1>17, <1>18, <1>19, <1>20, <1>21, <1>22, <1>23, <1>24, <1>25, <1>26,
       <1>27, <1>28, <1>29, <1>30, <1>31, <1>32, <1>33, <1>34, <1>35, <1>36, <1>37, <1>38
  DEF Next, Step, Request, Cancelling, RetryInvocation

\* A cancellation goes on to abort only what it found final.
LEMMA CancelKept ==
  ASSUME TypeOK, Rows, CancelInv, [Next]_vars
  PROVE  CancelInv'
<1>t. /\ cancel \in [Origins -> [Ops -> {"idle", "persisting", "aborting"}]]
      /\ row \in [Ops -> Open \cup Final \cup {NULL}] /\ NULL \notin Open \cup Final
  BY PlanningAssumption DEF TypeOK, PlanningAssumption
<1>1. ASSUME NEW i \in Ops, CreateInvocation(i) PROVE CancelInv'
  BY <1>t, <1>1 DEF CreateInvocation, Goto, external, Rows, RowInv, Rowless, CancelInv, Open, Final
<1>2. ASSUME NEW i \in Ops, Register(i) PROVE CancelInv'
  BY <1>t, <1>2 DEF Register, Goto, external, CancelInv, Open, Final
<1>3. ASSUME NEW i \in Ops, RefuseWhenClosed(i) PROVE CancelInv'
  BY <1>t, <1>3 DEF RefuseWhenClosed, Update, Winner, Goto, external, CancelInv, Open, Final
<1>4. ASSUME NEW i \in Ops, AssertActive(i) PROVE CancelInv'
  BY <1>t, <1>4 DEF AssertActive, GotoIfActive, Goto, external, CancelInv, Open, Final
<1>5. ASSUME NEW i \in Ops, Start(i) PROVE CancelInv'
  BY <1>t, <1>5
  DEF Start, UpdateAndCheck, Update, Winner, GotoIfActive, Goto, external, Rows, RowInv, Over,
      Rowless, CancelInv, Open, Final
<1>6. ASSUME NEW i \in Ops, Enqueue(i) PROVE CancelInv'
  BY <1>t, <1>6 DEF Enqueue, Goto, external, CancelInv, Open, Final
<1>7. ASSUME NEW i \in Ops, PreparationThrows(i) PROVE CancelInv'
  BY <1>t, <1>7 DEF PreparationThrows, Goto, external, CancelInv, Open, Final
<1>8. ASSUME NEW i \in Ops, BeginWork(i) PROVE CancelInv'
  BY <1>t, <1>8 DEF BeginWork, LeaveLane, Goto, external, CancelInv, Open, Final
<1>9. ASSUME NEW i \in Ops, Spawn(i) PROVE CancelInv'
  BY <1>t, <1>9 DEF Spawn, Goto, external, CancelInv, Open, Final
<1>10. ASSUME NEW i \in Ops, SettleEntry(i) PROVE CancelInv'
  BY <1>t, <1>10 DEF SettleEntry, LeaveLane, Goto, external, CancelInv, Open, Final
<1>11. ASSUME NEW i \in Ops, NEW outcome \in {"ok", "failed", "cancelled"}, ProcessEnds(i, outcome)
       PROVE  CancelInv'
  BY <1>t, <1>11 DEF ProcessEnds, Goto, external, CancelInv, Open, Final
<1>12. ASSUME NEW i \in Ops, Diagnose(i) PROVE CancelInv'
  BY <1>t, <1>12 DEF Diagnose, Goto, Cancelled, external, CancelInv, Open, Final
<1>13. ASSUME NEW i \in Ops, PersistCancelled(i) PROVE CancelInv'
  BY <1>t, <1>13
  DEF PersistCancelled, Update, Winner, SetStep, Goto, external, CancelInv, Open, Final
<1>14. ASSUME NEW i \in Ops, PersistFailed(i) PROVE CancelInv'
  BY <1>t, <1>14
  DEF PersistFailed, UpdateAndCheck, Update, Winner, GotoIfActive, Goto, external, CancelInv,
      Open, Final
<1>15. ASSUME NEW i \in Ops, BlockTask(i) PROVE CancelInv'
  BY <1>t, <1>15 DEF BlockTask, SetStep, SetTask, Goto, external, CancelInv, Open, Final
<1>16. ASSUME NEW i \in Ops, PersistWorkerOutcome(i) PROVE CancelInv'
  BY <1>t, <1>16
  DEF PersistWorkerOutcome, UpdateAndCheck, Update, Winner, GotoIfActive, Goto, Cancelled,
      external, CancelInv, Open, Final
<1>17. ASSUME NEW i \in Ops, RecordOutput(i) PROVE CancelInv'
  BY <1>t, <1>17 DEF RecordOutput, GotoIfActive, Goto, external, CancelInv, Open, Final
<1>18. ASSUME NEW i \in Ops, Parse(i) PROVE CancelInv'
  BY <1>t, <1>18 DEF Parse, GotoIfActive, Goto, external, CancelInv, Open, Final
<1>19. ASSUME NEW i \in Ops, ParseWorkerOutput(i) PROVE CancelInv'
  BY <1>t, <1>19 DEF ParseWorkerOutput, GotoIfActive, Goto, external, CancelInv, Open, Final
<1>20. ASSUME NEW i \in Ops, PersistRefusal(i) PROVE CancelInv'
  BY <1>t, <1>20 DEF PersistRefusal, Update, Winner, Goto, external, CancelInv, Open, Final
<1>21. ASSUME NEW i \in Ops, DeclinePlan(i) PROVE CancelInv'
  BY <1>t, <1>21 DEF DeclinePlan, SetStep, SetTask, Goto, external, CancelInv, Open, Final
<1>22. ASSUME NEW i \in Ops, AcceptPlan(i) PROVE CancelInv'
  BY <1>t, <1>22 DEF AcceptPlan, SetStep, GotoIfActive, Goto, external, CancelInv, Open, Final
<1>23. ASSUME NEW i \in Ops, Propose(i) PROVE CancelInv'
  BY <1>t, <1>23 DEF Propose, GotoIfActive, Goto, external, CancelInv, Open, Final
<1>24. ASSUME NEW i \in Ops, MoveTaskOn(i) PROVE CancelInv'
  BY <1>t, <1>24 DEF MoveTaskOn, SetTask, Goto, external, CancelInv, Open, Final
<1>25. ASSUME NEW i \in Ops, PersistSucceeded(i) PROVE CancelInv'
  BY <1>t, <1>25 DEF PersistSucceeded, Update, Winner, Goto, external, CancelInv, Open, Final
<1>26. ASSUME NEW i \in Ops, Confirm(i) PROVE CancelInv'
  BY <1>t, <1>26 DEF Confirm, GotoIfActive, Goto, external, CancelInv, Open, Final
<1>27. ASSUME NEW i \in Ops, Abandon(i) PROVE CancelInv'
  BY <1>t, <1>27 DEF Abandon, SetStep, Goto, external, CancelInv, Open, Final
<1>28. ASSUME NEW i \in Ops, Release(i) PROVE CancelInv'
  BY <1>t, <1>28 DEF Release, Goto, external, CancelInv, Open, Final
<1>29. ASSUME NEW i \in Ops, GeneratePlan(i) PROVE CancelInv'
  BY <1>t, <1>29 DEF GeneratePlan, SetStep, Goto, external, CancelInv, Open, Final
<1>30. ASSUME NEW i \in Ops, InvokeForWorker(i) PROVE CancelInv'
  BY <1>t, <1>30 DEF InvokeForWorker, Goto, external, CancelInv, Open, Final
<1>31. ASSUME NEW i \in Ops, CancelInvocation(i) PROVE CancelInv'
  BY <1>t, <1>31 DEF CancelInvocation, CancelInv, Open, Final
<1>32. ASSUME NEW i \in Ops, NEW o \in Origins, PersistCancellation(o, i) PROVE CancelInv'
  BY <1>t, <1>32 DEF PersistCancellation, Update, Winner, CancelInv, Open, Final
<1>33. ASSUME NEW i \in Ops, NEW o \in Origins, Abort(o, i) PROVE CancelInv'
  BY <1>t, <1>33 DEF Abort, Goto, CancelInv, Open, Final
<1>34. CASE CancelTask
  BY <1>t, <1>34 DEF CancelTask, CancelInv, Open, Final
<1>35. CASE CancelTaskInvocations
  BY <1>t, <1>35 DEF CancelTaskInvocations, CancelInv, Open, Final
<1>36. ASSUME NEW status \in Moves, MoveTask(status) PROVE CancelInv'
  BY <1>t, <1>36 DEF MoveTask, external, CancelInv, Open, Final
<1>37. CASE Shutdown
  BY <1>t, <1>37
  DEF Shutdown, Rows, RowInv, Rowless, Registered, Unregistered, CancelInv, Open, Final
<1>38. CASE UNCHANGED vars
  BY <1>t, <1>38 DEF vars, CancelInv, Open, Final
<1> QED
  BY <1>1, <1>2, <1>3, <1>4, <1>5, <1>6, <1>7, <1>8, <1>9, <1>10, <1>11, <1>12, <1>13, <1>14,
       <1>15, <1>16, <1>17, <1>18, <1>19, <1>20, <1>21, <1>22, <1>23, <1>24, <1>25, <1>26,
       <1>27, <1>28, <1>29, <1>30, <1>31, <1>32, <1>33, <1>34, <1>35, <1>36, <1>37, <1>38
  DEF Next, Step, Request, Cancelling, RetryInvocation

\* What is in flight stays there while it is queued.
LEMMA InFlightKept ==
  ASSUME TypeOK, LaneInv, [Next]_vars
  PROVE  \A j \in Ops : InFlight(j) => InFlight(j)' \/ pc'[j] # "queued"
<1>t. DOMAIN pc = Ops /\ lanes \in [Lanes -> Lane]
  BY DEF TypeOK, LaneInv
<1>1. ASSUME NEW i \in Ops, CreateInvocation(i)
      PROVE  \A j \in Ops : InFlight(j) => InFlight(j)' \/ pc'[j] # "queued"
  BY <1>t, <1>1 DEF CreateInvocation, Goto, InFlight
<1>2. ASSUME NEW i \in Ops, Register(i)
      PROVE  \A j \in Ops : InFlight(j) => InFlight(j)' \/ pc'[j] # "queued"
  BY <1>t, <1>2 DEF Register, Goto, InFlight
<1>3. ASSUME NEW i \in Ops, RefuseWhenClosed(i)
      PROVE  \A j \in Ops : InFlight(j) => InFlight(j)' \/ pc'[j] # "queued"
  BY <1>t, <1>3 DEF RefuseWhenClosed, Update, Winner, Goto, InFlight
<1>4. ASSUME NEW i \in Ops, AssertActive(i)
      PROVE  \A j \in Ops : InFlight(j) => InFlight(j)' \/ pc'[j] # "queued"
  BY <1>t, <1>4 DEF AssertActive, GotoIfActive, Goto, InFlight
<1>5. ASSUME NEW i \in Ops, Start(i)
      PROVE  \A j \in Ops : InFlight(j) => InFlight(j)' \/ pc'[j] # "queued"
  BY <1>t, <1>5 DEF Start, UpdateAndCheck, Update, Winner, GotoIfActive, Goto, InFlight
<1>6. ASSUME NEW i \in Ops, Enqueue(i)
      PROVE  \A j \in Ops : InFlight(j) => InFlight(j)' \/ pc'[j] # "queued"
  <2> DEFINE lane == lanes[LaneFor(i)]
  <2>1. lanes' = [lanes EXCEPT ![LaneFor(i)] = Enqueued(lane, i)]
    BY <1>6 DEF Enqueue
  <2>2. pc[i] = "readying"
    BY <1>6 DEF Enqueue
  <2> HIDE DEF lane
  <2>3. Sound(lane) /\ ~Busy(lane, i)
    BY <2>2, LaneIsLane DEF LaneInv, CliRuns, lane
  <2>4. Enqueued(lane, i).inflight = IF lane.inflight = NULL THEN i ELSE lane.inflight
    BY <2>3, EnqueuedAdds
  <2> QED
    BY <1>t, <2>1, <2>4, LaneIsLane, NullIsNoOp DEF InFlight, lane
<1>7. ASSUME NEW i \in Ops, PreparationThrows(i)
      PROVE  \A j \in Ops : InFlight(j) => InFlight(j)' \/ pc'[j] # "queued"
  BY <1>t, <1>7 DEF PreparationThrows, Goto, InFlight
<1>8. ASSUME NEW i \in Ops, BeginWork(i)
      PROVE  \A j \in Ops : InFlight(j) => InFlight(j)' \/ pc'[j] # "queued"
  <2>1. lanes' = lanes \/ (LeaveLane(i) /\ InFlight(i) /\ pc'[i] # "queued")
    BY <1>t, <1>8 DEF BeginWork, Goto
  <2> QED
    BY <1>t, <2>1, LaneIsLane DEF LeaveLane, InFlight
<1>9. ASSUME NEW i \in Ops, Spawn(i)
      PROVE  \A j \in Ops : InFlight(j) => InFlight(j)' \/ pc'[j] # "queued"
  BY <1>t, <1>9 DEF Spawn, Goto, InFlight
<1>10. ASSUME NEW i \in Ops, SettleEntry(i)
       PROVE  \A j \in Ops : InFlight(j) => InFlight(j)' \/ pc'[j] # "queued"
  <2>1. InFlight(i) /\ LeaveLane(i) /\ pc'[i] # "queued"
    BY <1>t, <1>10 DEF SettleEntry, LaneInv, CliRuns, InFlight, Goto
  <2> QED
    BY <1>t, <2>1, LaneIsLane DEF LeaveLane, InFlight
<1>11. ASSUME NEW i \in Ops, NEW outcome \in {"ok", "failed", "cancelled"}, ProcessEnds(i, outcome)
       PROVE  \A j \in Ops : InFlight(j) => InFlight(j)' \/ pc'[j] # "queued"
  BY <1>t, <1>11 DEF ProcessEnds, Goto, InFlight
<1>12. ASSUME NEW i \in Ops, Diagnose(i)
       PROVE  \A j \in Ops : InFlight(j) => InFlight(j)' \/ pc'[j] # "queued"
  BY <1>t, <1>12 DEF Diagnose, Goto, Cancelled, InFlight
<1>13. ASSUME NEW i \in Ops, PersistCancelled(i)
       PROVE  \A j \in Ops : InFlight(j) => InFlight(j)' \/ pc'[j] # "queued"
  BY <1>t, <1>13 DEF PersistCancelled, Update, Winner, SetStep, Goto, InFlight
<1>14. ASSUME NEW i \in Ops, PersistFailed(i)
       PROVE  \A j \in Ops : InFlight(j) => InFlight(j)' \/ pc'[j] # "queued"
  BY <1>t, <1>14 DEF PersistFailed, UpdateAndCheck, Update, Winner, GotoIfActive, Goto, InFlight
<1>15. ASSUME NEW i \in Ops, BlockTask(i)
       PROVE  \A j \in Ops : InFlight(j) => InFlight(j)' \/ pc'[j] # "queued"
  BY <1>t, <1>15 DEF BlockTask, SetStep, SetTask, Goto, InFlight
<1>16. ASSUME NEW i \in Ops, PersistWorkerOutcome(i)
       PROVE  \A j \in Ops : InFlight(j) => InFlight(j)' \/ pc'[j] # "queued"
  BY <1>t, <1>16
  DEF PersistWorkerOutcome, UpdateAndCheck, Update, Winner, GotoIfActive, Goto, Cancelled,
      InFlight
<1>17. ASSUME NEW i \in Ops, RecordOutput(i)
       PROVE  \A j \in Ops : InFlight(j) => InFlight(j)' \/ pc'[j] # "queued"
  BY <1>t, <1>17 DEF RecordOutput, GotoIfActive, Goto, InFlight
<1>18. ASSUME NEW i \in Ops, Parse(i)
       PROVE  \A j \in Ops : InFlight(j) => InFlight(j)' \/ pc'[j] # "queued"
  BY <1>t, <1>18 DEF Parse, GotoIfActive, Goto, InFlight
<1>19. ASSUME NEW i \in Ops, ParseWorkerOutput(i)
       PROVE  \A j \in Ops : InFlight(j) => InFlight(j)' \/ pc'[j] # "queued"
  BY <1>t, <1>19 DEF ParseWorkerOutput, GotoIfActive, Goto, InFlight
<1>20. ASSUME NEW i \in Ops, PersistRefusal(i)
       PROVE  \A j \in Ops : InFlight(j) => InFlight(j)' \/ pc'[j] # "queued"
  BY <1>t, <1>20 DEF PersistRefusal, Update, Winner, Goto, InFlight
<1>21. ASSUME NEW i \in Ops, DeclinePlan(i)
       PROVE  \A j \in Ops : InFlight(j) => InFlight(j)' \/ pc'[j] # "queued"
  BY <1>t, <1>21 DEF DeclinePlan, SetStep, SetTask, Goto, InFlight
<1>22. ASSUME NEW i \in Ops, AcceptPlan(i)
       PROVE  \A j \in Ops : InFlight(j) => InFlight(j)' \/ pc'[j] # "queued"
  BY <1>t, <1>22 DEF AcceptPlan, SetStep, GotoIfActive, Goto, InFlight
<1>23. ASSUME NEW i \in Ops, Propose(i)
       PROVE  \A j \in Ops : InFlight(j) => InFlight(j)' \/ pc'[j] # "queued"
  BY <1>t, <1>23 DEF Propose, GotoIfActive, Goto, InFlight
<1>24. ASSUME NEW i \in Ops, MoveTaskOn(i)
       PROVE  \A j \in Ops : InFlight(j) => InFlight(j)' \/ pc'[j] # "queued"
  BY <1>t, <1>24 DEF MoveTaskOn, SetTask, Goto, InFlight
<1>25. ASSUME NEW i \in Ops, PersistSucceeded(i)
       PROVE  \A j \in Ops : InFlight(j) => InFlight(j)' \/ pc'[j] # "queued"
  BY <1>t, <1>25 DEF PersistSucceeded, Update, Winner, Goto, InFlight
<1>26. ASSUME NEW i \in Ops, Confirm(i)
       PROVE  \A j \in Ops : InFlight(j) => InFlight(j)' \/ pc'[j] # "queued"
  BY <1>t, <1>26 DEF Confirm, GotoIfActive, Goto, InFlight
<1>27. ASSUME NEW i \in Ops, Abandon(i)
       PROVE  \A j \in Ops : InFlight(j) => InFlight(j)' \/ pc'[j] # "queued"
  BY <1>t, <1>27 DEF Abandon, SetStep, Goto, InFlight
<1>28. ASSUME NEW i \in Ops, Release(i)
       PROVE  \A j \in Ops : InFlight(j) => InFlight(j)' \/ pc'[j] # "queued"
  BY <1>t, <1>28 DEF Release, Goto, InFlight
<1>29. ASSUME NEW i \in Ops, GeneratePlan(i)
       PROVE  \A j \in Ops : InFlight(j) => InFlight(j)' \/ pc'[j] # "queued"
  BY <1>t, <1>29 DEF GeneratePlan, SetStep, Goto, InFlight
<1>30. ASSUME NEW i \in Ops, InvokeForWorker(i)
       PROVE  \A j \in Ops : InFlight(j) => InFlight(j)' \/ pc'[j] # "queued"
  BY <1>t, <1>30 DEF InvokeForWorker, Goto, InFlight
<1>31. ASSUME NEW i \in Ops, CancelInvocation(i)
       PROVE  \A j \in Ops : InFlight(j) => InFlight(j)' \/ pc'[j] # "queued"
  BY <1>t, <1>31 DEF CancelInvocation, InFlight
<1>32. ASSUME NEW i \in Ops, NEW o \in Origins, PersistCancellation(o, i)
       PROVE  \A j \in Ops : InFlight(j) => InFlight(j)' \/ pc'[j] # "queued"
  BY <1>t, <1>32 DEF PersistCancellation, Update, Winner, InFlight
<1>33. ASSUME NEW i \in Ops, NEW o \in Origins, Abort(o, i)
       PROVE  \A j \in Ops : InFlight(j) => InFlight(j)' \/ pc'[j] # "queued"
  <2> DEFINE lane == lanes[LaneFor(i)]
  <2>1. CASE ~(~InFlight(i) /\ Waits(lane, i))
    BY <1>33, <2>1 DEF Abort, InFlight
  <2>2. CASE ~InFlight(i) /\ Waits(lane, i)
    <3>1. lanes' = [lanes EXCEPT ![LaneFor(i)] = Withdrawn(lane, i)]
      BY <1>33, <2>2 DEF Abort
    <3> HIDE DEF lane
    <3>2. Sound(lane)
      BY LaneIsLane DEF LaneInv, lane
    <3>3. Withdrawn(lane, i).inflight = lane.inflight
      BY <2>2, <3>2, WithdrawnRemoves
    <3> QED
      BY <1>t, <3>1, <3>3, LaneIsLane DEF InFlight, lane
  <2> QED
    BY <2>1, <2>2
<1>34. CASE CancelTask
  BY <1>t, <1>34 DEF CancelTask, InFlight
<1>35. CASE CancelTaskInvocations
  BY <1>t, <1>35 DEF CancelTaskInvocations, InFlight
<1>36. ASSUME NEW status \in Moves, MoveTask(status)
       PROVE  \A j \in Ops : InFlight(j) => InFlight(j)' \/ pc'[j] # "queued"
  BY <1>t, <1>36 DEF MoveTask, InFlight
<1>37. CASE Shutdown
  BY <1>t, <1>37 DEF Shutdown, InFlight
<1>38. CASE UNCHANGED vars
  BY <1>t, <1>38 DEF vars, InFlight
<1> QED
  BY <1>1, <1>2, <1>3, <1>4, <1>5, <1>6, <1>7, <1>8, <1>9, <1>10, <1>11, <1>12, <1>13, <1>14,
       <1>15, <1>16, <1>17, <1>18, <1>19, <1>20, <1>21, <1>22, <1>23, <1>24, <1>25, <1>26,
       <1>27, <1>28, <1>29, <1>30, <1>31, <1>32, <1>33, <1>34, <1>35, <1>36, <1>37, <1>38
  DEF Next, Step, Request, Cancelling, RetryInvocation

\* What is told stays told, and an abort tells.
LEMMA HeardKept ==
  ASSUME TypeOK, LaneInv, Rows, CancelInv, Heard, [Next]_vars
  PROVE  Heard'
<1>t. /\ pc \in [Ops -> PC] /\ answer \in [Ops -> {"none", "ok", "failed", "cancelled"}]
      /\ row \in [Ops -> Open \cup Final \cup {NULL}] /\ NULL \notin Open \cup Final
      /\ lifetime \in [Ops -> BOOLEAN] /\ signal \in [Ops -> BOOLEAN]
      /\ cancel \in [Origins -> [Ops -> {"idle", "persisting", "aborting"}]]
  BY PlanningAssumption DEF TypeOK, PlanningAssumption
<1>k. \A j \in Ops : InFlight(j) => InFlight(j)' \/ pc'[j] # "queued"
  BY InFlightKept
<1>1. ASSUME NEW i \in Ops, CreateInvocation(i) PROVE Heard'
  BY <1>t, <1>1
  DEF CreateInvocation, Goto, external, Heard, CancelSettled, Told, InFlight, Rowless, Unheard,
      Leaving, Final
<1>2. ASSUME NEW i \in Ops, Register(i) PROVE Heard'
  BY <1>t, <1>2
  DEF Register, Goto, external, Heard, CancelSettled, Told, InFlight, Rowless, Unheard, Leaving,
      Final
<1>3. ASSUME NEW i \in Ops, RefuseWhenClosed(i) PROVE Heard'
  BY <1>t, <1>3
  DEF RefuseWhenClosed, Update, Winner, Goto, external, Heard, CancelSettled, Told, InFlight,
      Rowless, Unheard, Leaving, Final
<1>4. ASSUME NEW i \in Ops, AssertActive(i) PROVE Heard'
  BY <1>t, <1>4
  DEF AssertActive, GotoIfActive, Goto, external, Heard, CancelSettled, Told, InFlight, Rowless,
      Unheard, Leaving, Final
<1>5. ASSUME NEW i \in Ops, Start(i) PROVE Heard'
  BY <1>t, <1>5
  DEF Start, UpdateAndCheck, Update, Winner, GotoIfActive, Goto, external, Heard, CancelSettled,
      Told, InFlight, Rowless, Unheard, Leaving, Final
<1>6. ASSUME NEW i \in Ops, Enqueue(i) PROVE Heard'
  <2>1. \A j \in Ops : j # i =>
          pc'[j] = pc[j] /\ lifetime'[j] = lifetime[j] /\ signal'[j] = signal[j]
    BY <1>t, <1>6 DEF Enqueue, Goto
  <2>2. \A j \in Ops : j # i /\ Told(j) => Told(j)'
    BY <1>k, <2>1 DEF Told
  <2>3. Told(i) => Told(i)' /\ pc'[i] # "asserting"
    BY <1>t, <1>6 DEF Enqueue, Goto, Told, Rowless, Unheard, Leaving
  <2>4. UNCHANGED <<row, cancel>>
    BY <1>6 DEF Enqueue, external
  <2> QED
    BY <2>1, <2>2, <2>3, <2>4 DEF Heard, CancelSettled
<1>7. ASSUME NEW i \in Ops, PreparationThrows(i) PROVE Heard'
  BY <1>t, <1>7
  DEF PreparationThrows, Goto, external, Heard, CancelSettled, Told, InFlight, Rowless, Unheard,
      Leaving, Final
<1>8. ASSUME NEW i \in Ops, BeginWork(i) PROVE Heard'
  <2>1. \A j \in Ops : j # i =>
          pc'[j] = pc[j] /\ lifetime'[j] = lifetime[j] /\ signal'[j] = signal[j]
    BY <1>t, <1>8 DEF BeginWork, Goto
  <2>2. \A j \in Ops : j # i /\ Told(j) => Told(j)'
    BY <1>k, <2>1 DEF Told
  <2>3. Told(i) => Told(i)' /\ pc'[i] # "asserting"
    BY <1>t, <1>8 DEF BeginWork, Goto, Told, Rowless, Unheard, Leaving
  <2>4. UNCHANGED <<row, cancel>>
    BY <1>8 DEF BeginWork, external
  <2> QED
    BY <2>1, <2>2, <2>3, <2>4 DEF Heard, CancelSettled
<1>9. ASSUME NEW i \in Ops, Spawn(i) PROVE Heard'
  BY <1>t, <1>9
  DEF Spawn, Goto, external, Heard, CancelSettled, Told, InFlight, Rowless, Unheard, Leaving,
      Final
<1>10. ASSUME NEW i \in Ops, SettleEntry(i) PROVE Heard'
  <2>1. \A j \in Ops : j # i =>
          pc'[j] = pc[j] /\ lifetime'[j] = lifetime[j] /\ signal'[j] = signal[j]
    BY <1>t, <1>10 DEF SettleEntry, Goto
  <2>2. \A j \in Ops : j # i /\ Told(j) => Told(j)'
    BY <1>k, <2>1 DEF Told
  <2>3. Told(i) => Told(i)' /\ pc'[i] # "asserting"
    BY <1>t, <1>10 DEF SettleEntry, Goto, Told, Rowless, Unheard, Leaving
  <2>4. UNCHANGED <<row, cancel>>
    BY <1>10 DEF SettleEntry, external
  <2> QED
    BY <2>1, <2>2, <2>3, <2>4 DEF Heard, CancelSettled
<1>11. ASSUME NEW i \in Ops, NEW outcome \in {"ok", "failed", "cancelled"}, ProcessEnds(i, outcome)
       PROVE  Heard'
  BY <1>t, <1>11
  DEF ProcessEnds, Goto, external, Heard, CancelSettled, Told, InFlight, Rowless, Unheard,
      Leaving, Final
<1>12. ASSUME NEW i \in Ops, Diagnose(i) PROVE Heard'
  BY <1>t, <1>12
  DEF Diagnose, Goto, Cancelled, external, Heard, CancelSettled, Told, InFlight, Rowless,
      Unheard, Leaving, Final
<1>13. ASSUME NEW i \in Ops, PersistCancelled(i) PROVE Heard'
  BY <1>t, <1>13
  DEF PersistCancelled, Update, Winner, SetStep, Goto, external, Heard, CancelSettled, Told,
      InFlight, Rowless, Unheard, Leaving, Final
<1>14. ASSUME NEW i \in Ops, PersistFailed(i) PROVE Heard'
  BY <1>t, <1>14
  DEF PersistFailed, UpdateAndCheck, Update, Winner, GotoIfActive, Goto, external, Heard,
      CancelSettled, Told, InFlight, Rowless, Unheard, Leaving, Final
<1>15. ASSUME NEW i \in Ops, BlockTask(i) PROVE Heard'
  BY <1>t, <1>15
  DEF BlockTask, SetStep, SetTask, Goto, external, Heard, CancelSettled, Told, InFlight,
      Rowless, Unheard, Leaving, Final
<1>16. ASSUME NEW i \in Ops, PersistWorkerOutcome(i) PROVE Heard'
  BY <1>t, <1>16
  DEF PersistWorkerOutcome, UpdateAndCheck, Update, Winner, GotoIfActive, Goto, Cancelled,
      external, Heard, CancelSettled, Told, InFlight, Rowless, Unheard, Leaving, Final
<1>17. ASSUME NEW i \in Ops, RecordOutput(i) PROVE Heard'
  BY <1>t, <1>17
  DEF RecordOutput, GotoIfActive, Goto, external, Heard, CancelSettled, Told, InFlight, Rowless,
      Unheard, Leaving, Final
<1>18. ASSUME NEW i \in Ops, Parse(i) PROVE Heard'
  BY <1>t, <1>18
  DEF Parse, GotoIfActive, Goto, external, Heard, CancelSettled, Told, InFlight, Rowless,
      Unheard, Leaving, Final
<1>19. ASSUME NEW i \in Ops, ParseWorkerOutput(i) PROVE Heard'
  BY <1>t, <1>19
  DEF ParseWorkerOutput, GotoIfActive, Goto, external, Heard, CancelSettled, Told, InFlight,
      Rowless, Unheard, Leaving, Final
<1>20. ASSUME NEW i \in Ops, PersistRefusal(i) PROVE Heard'
  BY <1>t, <1>20
  DEF PersistRefusal, Update, Winner, Goto, external, Heard, CancelSettled, Told, InFlight,
      Rowless, Unheard, Leaving, Final
<1>21. ASSUME NEW i \in Ops, DeclinePlan(i) PROVE Heard'
  BY <1>t, <1>21
  DEF DeclinePlan, SetStep, SetTask, Goto, external, Heard, CancelSettled, Told, InFlight,
      Rowless, Unheard, Leaving, Final
<1>22. ASSUME NEW i \in Ops, AcceptPlan(i) PROVE Heard'
  BY <1>t, <1>22
  DEF AcceptPlan, SetStep, GotoIfActive, Goto, external, Heard, CancelSettled, Told, InFlight,
      Rowless, Unheard, Leaving, Final
<1>23. ASSUME NEW i \in Ops, Propose(i) PROVE Heard'
  BY <1>t, <1>23
  DEF Propose, GotoIfActive, Goto, external, Heard, CancelSettled, Told, InFlight, Rowless,
      Unheard, Leaving, Final
<1>24. ASSUME NEW i \in Ops, MoveTaskOn(i) PROVE Heard'
  BY <1>t, <1>24
  DEF MoveTaskOn, SetTask, Goto, external, Heard, CancelSettled, Told, InFlight, Rowless,
      Unheard, Leaving, Final
<1>25. ASSUME NEW i \in Ops, PersistSucceeded(i) PROVE Heard'
  BY <1>t, <1>25
  DEF PersistSucceeded, Update, Winner, Goto, external, Heard, CancelSettled, Told, InFlight,
      Rowless, Unheard, Leaving, Final
<1>26. ASSUME NEW i \in Ops, Confirm(i) PROVE Heard'
  BY <1>t, <1>26
  DEF Confirm, GotoIfActive, Goto, external, Heard, CancelSettled, Told, InFlight, Rowless,
      Unheard, Leaving, Final
<1>27. ASSUME NEW i \in Ops, Abandon(i) PROVE Heard'
  BY <1>t, <1>27
  DEF Abandon, SetStep, Goto, external, Heard, CancelSettled, Told, InFlight, Rowless, Unheard,
      Leaving, Final
<1>28. ASSUME NEW i \in Ops, Release(i) PROVE Heard'
  BY <1>t, <1>28
  DEF Release, Goto, external, Heard, CancelSettled, Told, InFlight, Rowless, Unheard, Leaving,
      Final
<1>29. ASSUME NEW i \in Ops, GeneratePlan(i) PROVE Heard'
  BY <1>t, <1>29
  DEF GeneratePlan, SetStep, Goto, external, Heard, CancelSettled, Told, InFlight, Rowless,
      Unheard, Leaving, Final
<1>30. ASSUME NEW i \in Ops, InvokeForWorker(i) PROVE Heard'
  BY <1>t, <1>30
  DEF InvokeForWorker, Goto, external, Heard, CancelSettled, Told, InFlight, Rowless, Unheard,
      Leaving, Final
<1>31. ASSUME NEW i \in Ops, CancelInvocation(i) PROVE Heard'
  BY <1>t, <1>31
  DEF CancelInvocation, Heard, CancelSettled, Told, InFlight, Rowless, Unheard, Leaving, Final
<1>32. ASSUME NEW i \in Ops, NEW o \in Origins, PersistCancellation(o, i) PROVE Heard'
  BY <1>t, <1>32
  DEF PersistCancellation, Update, Winner, Heard, CancelSettled, Told, InFlight, Rowless,
      Unheard, Leaving, Final
<1>33. ASSUME NEW i \in Ops, NEW o \in Origins, Abort(o, i) PROVE Heard'
  <2>1. \A j \in Ops : j # i =>
          pc'[j] = pc[j] /\ lifetime'[j] = lifetime[j] /\ signal'[j] = signal[j]
    BY <1>t, <1>33 DEF Abort, Goto
  <2>2. \A j \in Ops : j # i /\ Told(j) => Told(j)'
    BY <1>k, <2>1 DEF Told
  <2>3. Told(i)' /\ (pc'[i] = "asserting" => lifetime'[i])
    <3>1. lifetime'[i] = (lifetime[i] \/ Registered(i)) /\ signal'[i] = (signal[i] \/ InFlight(i))
      BY <1>t, <1>33 DEF Abort
    <3>2. pc'[i] = pc[i] \/ (pc'[i] = "thrown" /\ Registered(i))
      <4>1. Waits(lanes[LaneFor(i)], i) => Registered(i)
        BY LaneIsLane DEF LaneInv, Busy, CliRuns, Registered, Unregistered
      <4> QED
        BY <1>t, <1>33, <4>1 DEF Abort, Goto
    <3>3. lifetime'[i] \/ pc'[i] \in Rowless \cup Unheard
      BY <3>1, <3>2 DEF Registered, Unregistered, Rowless, Unheard, Leaving
    <3>4. pc[i] \in {"queued", "snapshot", "invoking"} => Busy(lanes[LaneFor(i)], i)
      BY LaneIsLane DEF LaneInv, CliRuns
    <3>5. pc[i] = "queued" => InFlight(i) \/ pc'[i] = "thrown"
      BY <1>t, <1>33, <3>4 DEF Abort, Goto, Busy, InFlight
    <3>6. pc[i] \in {"snapshot", "invoking"} => InFlight(i)
      BY DEF LaneInv, CliRuns
    <3>7. pc'[i] = "asserting" => Registered(i)
      BY <3>2 DEF Registered, Unregistered
    <3> QED
      BY <1>k, <3>1, <3>2, <3>3, <3>5, <3>6, <3>7 DEF Told
  <2>4. row' = row /\ \A p \in Origins, j \in Ops : j # i => cancel'[p][j] = cancel[p][j]
    BY <1>t, <1>33 DEF Abort
  <2> QED
    BY <2>2, <2>3, <2>4 DEF Heard, CancelSettled
<1>34. CASE CancelTask
  BY <1>t, <1>34
  DEF CancelTask, Heard, CancelSettled, Told, InFlight, Rowless, Unheard, Leaving, Final
<1>35. CASE CancelTaskInvocations
  <2>1. UNCHANGED <<row, pc, lifetime, signal, lanes>>
    BY <1>35 DEF CancelTaskInvocations
  <2>2. ASSUME NEW j \in Ops, NEW o \in Origins, cancel[o][j] = "aborting"
        PROVE  cancel'[o][j] = "aborting"
    <3>1. row[j] \notin Open
      BY <2>2 DEF CancelInv, Open, Final
    <3>2. cancel' = [cancel EXCEPT !["task"] =
                       [k \in Ops |-> IF row[k] \in Open THEN "persisting" ELSE cancel["task"][k]]]
      BY <1>35 DEF CancelTaskInvocations
    <3> QED
      BY <1>t, <2>2, <3>1, <3>2
  <2>3. \A j \in Ops : CancelSettled(j)' => CancelSettled(j)
    BY <2>2 DEF CancelSettled
  <2> QED
    BY <2>1, <2>3 DEF Heard, Told, InFlight
<1>36. ASSUME NEW status \in Moves, MoveTask(status) PROVE Heard'
  BY <1>t, <1>36
  DEF MoveTask, external, Heard, CancelSettled, Told, InFlight, Rowless, Unheard, Leaving, Final
<1>37. CASE Shutdown
  <2>1. UNCHANGED <<row, pc, lifetime, signal, lanes>>
    BY <1>37 DEF Shutdown
  <2>2. \A j \in Ops, o \in Origins : cancel[o][j] = "aborting" => cancel'[o][j] = "aborting"
    BY <1>t, <1>37 DEF Shutdown, CancelInv
  <2>3. \A j \in Ops : CancelSettled(j)' => CancelSettled(j)
    BY <2>2 DEF CancelSettled
  <2> QED
    BY <2>1, <2>3 DEF Heard, Told, InFlight
<1>38. CASE UNCHANGED vars
  BY <1>t, <1>38 DEF vars, Heard, CancelSettled, Told, InFlight, Rowless, Unheard, Leaving, Final
<1> QED
  BY <1>1, <1>2, <1>3, <1>4, <1>5, <1>6, <1>7, <1>8, <1>9, <1>10, <1>11, <1>12, <1>13, <1>14,
       <1>15, <1>16, <1>17, <1>18, <1>19, <1>20, <1>21, <1>22, <1>23, <1>24, <1>25, <1>26,
       <1>27, <1>28, <1>29, <1>30, <1>31, <1>32, <1>33, <1>34, <1>35, <1>36, <1>37, <1>38
  DEF Next, Step, Request, Cancelling, RetryInvocation

\* Shutdown misses nobody: what is not registered yet will be refused.
LEMMA SealedKept ==
  ASSUME TypeOK, LaneInv, Rows, CancelInv, Sealed, [Next]_vars
  PROVE  Sealed'
<1>t. /\ pc \in [Ops -> PC] /\ answer \in [Ops -> {"none", "ok", "failed", "cancelled"}]
      /\ row \in [Ops -> Open \cup Final \cup {NULL}] /\ NULL \notin Open \cup Final
      /\ lifetime \in [Ops -> BOOLEAN] /\ signal \in [Ops -> BOOLEAN]
      /\ cancel \in [Origins -> [Ops -> {"idle", "persisting", "aborting"}]]
  BY PlanningAssumption DEF TypeOK, PlanningAssumption
<1>k. \A j \in Ops : InFlight(j) => InFlight(j)' \/ pc'[j] # "queued"
  BY InFlightKept
<1>1. ASSUME NEW i \in Ops, CreateInvocation(i) PROVE Sealed'
  BY <1>t, <1>1
  DEF CreateInvocation, Goto, external, Sealed, Told, InFlight, Rowless, Unheard, Leaving
<1>2. ASSUME NEW i \in Ops, Register(i) PROVE Sealed'
  BY <1>t, <1>2 DEF Register, Goto, external, Sealed, Told, InFlight, Rowless, Unheard, Leaving
<1>3. ASSUME NEW i \in Ops, RefuseWhenClosed(i) PROVE Sealed'
  BY <1>t, <1>3
  DEF RefuseWhenClosed, Update, Winner, Goto, external, Sealed, Told, InFlight, Rowless,
      Unheard, Leaving
<1>4. ASSUME NEW i \in Ops, AssertActive(i) PROVE Sealed'
  BY <1>t, <1>4
  DEF AssertActive, GotoIfActive, Goto, external, Sealed, Told, InFlight, Rowless, Unheard,
      Leaving
<1>5. ASSUME NEW i \in Ops, Start(i) PROVE Sealed'
  BY <1>t, <1>5
  DEF Start, UpdateAndCheck, Update, Winner, GotoIfActive, Goto, external, Sealed, Told,
      InFlight, Rowless, Unheard, Leaving
<1>6. ASSUME NEW i \in Ops, Enqueue(i) PROVE Sealed'
  <2>1. \A j \in Ops : j # i =>
          pc'[j] = pc[j] /\ lifetime'[j] = lifetime[j] /\ signal'[j] = signal[j]
    BY <1>t, <1>6 DEF Enqueue, Goto
  <2>2. \A j \in Ops : j # i /\ Told(j) => Told(j)'
    BY <1>k, <2>1 DEF Told
  <2>3. Told(i) => Told(i)' /\ pc'[i] # "asserting"
    BY <1>t, <1>6 DEF Enqueue, Goto, Told, Rowless, Unheard, Leaving
  <2>4. UNCHANGED <<cancel, closed>>
    BY <1>6 DEF Enqueue, external
  <2> QED
    BY <2>1, <2>2, <2>3, <2>4 DEF Sealed
<1>7. ASSUME NEW i \in Ops, PreparationThrows(i) PROVE Sealed'
  BY <1>t, <1>7
  DEF PreparationThrows, Goto, external, Sealed, Told, InFlight, Rowless, Unheard, Leaving
<1>8. ASSUME NEW i \in Ops, BeginWork(i) PROVE Sealed'
  <2>1. \A j \in Ops : j # i =>
          pc'[j] = pc[j] /\ lifetime'[j] = lifetime[j] /\ signal'[j] = signal[j]
    BY <1>t, <1>8 DEF BeginWork, Goto
  <2>2. \A j \in Ops : j # i /\ Told(j) => Told(j)'
    BY <1>k, <2>1 DEF Told
  <2>3. Told(i) => Told(i)' /\ pc'[i] # "asserting"
    BY <1>t, <1>8 DEF BeginWork, Goto, Told, Rowless, Unheard, Leaving
  <2>4. UNCHANGED <<cancel, closed>>
    BY <1>8 DEF BeginWork, external
  <2> QED
    BY <2>1, <2>2, <2>3, <2>4 DEF Sealed
<1>9. ASSUME NEW i \in Ops, Spawn(i) PROVE Sealed'
  BY <1>t, <1>9 DEF Spawn, Goto, external, Sealed, Told, InFlight, Rowless, Unheard, Leaving
<1>10. ASSUME NEW i \in Ops, SettleEntry(i) PROVE Sealed'
  <2>1. \A j \in Ops : j # i =>
          pc'[j] = pc[j] /\ lifetime'[j] = lifetime[j] /\ signal'[j] = signal[j]
    BY <1>t, <1>10 DEF SettleEntry, Goto
  <2>2. \A j \in Ops : j # i /\ Told(j) => Told(j)'
    BY <1>k, <2>1 DEF Told
  <2>3. Told(i) => Told(i)' /\ pc'[i] # "asserting"
    BY <1>t, <1>10 DEF SettleEntry, Goto, Told, Rowless, Unheard, Leaving
  <2>4. UNCHANGED <<cancel, closed>>
    BY <1>10 DEF SettleEntry, external
  <2> QED
    BY <2>1, <2>2, <2>3, <2>4 DEF Sealed
<1>11. ASSUME NEW i \in Ops, NEW outcome \in {"ok", "failed", "cancelled"}, ProcessEnds(i, outcome)
       PROVE  Sealed'
  BY <1>t, <1>11 DEF ProcessEnds, Goto, external, Sealed, Told, InFlight, Rowless, Unheard, Leaving
<1>12. ASSUME NEW i \in Ops, Diagnose(i) PROVE Sealed'
  BY <1>t, <1>12
  DEF Diagnose, Goto, Cancelled, external, Sealed, Told, InFlight, Rowless, Unheard, Leaving
<1>13. ASSUME NEW i \in Ops, PersistCancelled(i) PROVE Sealed'
  BY <1>t, <1>13
  DEF PersistCancelled, Update, Winner, SetStep, Goto, external, Sealed, Told, InFlight,
      Rowless, Unheard, Leaving
<1>14. ASSUME NEW i \in Ops, PersistFailed(i) PROVE Sealed'
  BY <1>t, <1>14
  DEF PersistFailed, UpdateAndCheck, Update, Winner, GotoIfActive, Goto, external, Sealed, Told,
      InFlight, Rowless, Unheard, Leaving
<1>15. ASSUME NEW i \in Ops, BlockTask(i) PROVE Sealed'
  BY <1>t, <1>15
  DEF BlockTask, SetStep, SetTask, Goto, external, Sealed, Told, InFlight, Rowless, Unheard,
      Leaving
<1>16. ASSUME NEW i \in Ops, PersistWorkerOutcome(i) PROVE Sealed'
  BY <1>t, <1>16
  DEF PersistWorkerOutcome, UpdateAndCheck, Update, Winner, GotoIfActive, Goto, Cancelled,
      external, Sealed, Told, InFlight, Rowless, Unheard, Leaving
<1>17. ASSUME NEW i \in Ops, RecordOutput(i) PROVE Sealed'
  BY <1>t, <1>17
  DEF RecordOutput, GotoIfActive, Goto, external, Sealed, Told, InFlight, Rowless, Unheard,
      Leaving
<1>18. ASSUME NEW i \in Ops, Parse(i) PROVE Sealed'
  BY <1>t, <1>18
  DEF Parse, GotoIfActive, Goto, external, Sealed, Told, InFlight, Rowless, Unheard, Leaving
<1>19. ASSUME NEW i \in Ops, ParseWorkerOutput(i) PROVE Sealed'
  BY <1>t, <1>19
  DEF ParseWorkerOutput, GotoIfActive, Goto, external, Sealed, Told, InFlight, Rowless, Unheard,
      Leaving
<1>20. ASSUME NEW i \in Ops, PersistRefusal(i) PROVE Sealed'
  BY <1>t, <1>20
  DEF PersistRefusal, Update, Winner, Goto, external, Sealed, Told, InFlight, Rowless, Unheard,
      Leaving
<1>21. ASSUME NEW i \in Ops, DeclinePlan(i) PROVE Sealed'
  BY <1>t, <1>21
  DEF DeclinePlan, SetStep, SetTask, Goto, external, Sealed, Told, InFlight, Rowless, Unheard,
      Leaving
<1>22. ASSUME NEW i \in Ops, AcceptPlan(i) PROVE Sealed'
  BY <1>t, <1>22
  DEF AcceptPlan, SetStep, GotoIfActive, Goto, external, Sealed, Told, InFlight, Rowless,
      Unheard, Leaving
<1>23. ASSUME NEW i \in Ops, Propose(i) PROVE Sealed'
  BY <1>t, <1>23
  DEF Propose, GotoIfActive, Goto, external, Sealed, Told, InFlight, Rowless, Unheard, Leaving
<1>24. ASSUME NEW i \in Ops, MoveTaskOn(i) PROVE Sealed'
  BY <1>t, <1>24
  DEF MoveTaskOn, SetTask, Goto, external, Sealed, Told, InFlight, Rowless, Unheard, Leaving
<1>25. ASSUME NEW i \in Ops, PersistSucceeded(i) PROVE Sealed'
  BY <1>t, <1>25
  DEF PersistSucceeded, Update, Winner, Goto, external, Sealed, Told, InFlight, Rowless,
      Unheard, Leaving
<1>26. ASSUME NEW i \in Ops, Confirm(i) PROVE Sealed'
  BY <1>t, <1>26
  DEF Confirm, GotoIfActive, Goto, external, Sealed, Told, InFlight, Rowless, Unheard, Leaving
<1>27. ASSUME NEW i \in Ops, Abandon(i) PROVE Sealed'
  BY <1>t, <1>27
  DEF Abandon, SetStep, Goto, external, Sealed, Told, InFlight, Rowless, Unheard, Leaving
<1>28. ASSUME NEW i \in Ops, Release(i) PROVE Sealed'
  BY <1>t, <1>28 DEF Release, Goto, external, Sealed, Told, InFlight, Rowless, Unheard, Leaving
<1>29. ASSUME NEW i \in Ops, GeneratePlan(i) PROVE Sealed'
  BY <1>t, <1>29
  DEF GeneratePlan, SetStep, Goto, external, Sealed, Told, InFlight, Rowless, Unheard, Leaving
<1>30. ASSUME NEW i \in Ops, InvokeForWorker(i) PROVE Sealed'
  BY <1>t, <1>30
  DEF InvokeForWorker, Goto, external, Sealed, Told, InFlight, Rowless, Unheard, Leaving
<1>31. ASSUME NEW i \in Ops, CancelInvocation(i) PROVE Sealed'
  BY <1>t, <1>31 DEF CancelInvocation, Sealed, Told, InFlight, Rowless, Unheard, Leaving
<1>32. ASSUME NEW i \in Ops, NEW o \in Origins, PersistCancellation(o, i) PROVE Sealed'
  BY <1>t, <1>32
  DEF PersistCancellation, Update, Winner, Sealed, Told, InFlight, Rowless, Unheard, Leaving
<1>33. ASSUME NEW i \in Ops, NEW o \in Origins, Abort(o, i) PROVE Sealed'
  <2>1. \A j \in Ops : j # i =>
          pc'[j] = pc[j] /\ lifetime'[j] = lifetime[j] /\ signal'[j] = signal[j]
    BY <1>t, <1>33 DEF Abort, Goto
  <2>2. \A j \in Ops : j # i /\ Told(j) => Told(j)'
    BY <1>k, <2>1 DEF Told
  <2>3. Told(i)' /\ (pc'[i] = "asserting" => lifetime'[i])
    <3>1. lifetime'[i] = (lifetime[i] \/ Registered(i)) /\ signal'[i] = (signal[i] \/ InFlight(i))
      BY <1>t, <1>33 DEF Abort
    <3>2. pc'[i] = pc[i] \/ (pc'[i] = "thrown" /\ Registered(i))
      <4>1. Waits(lanes[LaneFor(i)], i) => Registered(i)
        BY LaneIsLane DEF LaneInv, Busy, CliRuns, Registered, Unregistered
      <4> QED
        BY <1>t, <1>33, <4>1 DEF Abort, Goto
    <3>3. lifetime'[i] \/ pc'[i] \in Rowless \cup Unheard
      BY <3>1, <3>2 DEF Registered, Unregistered, Rowless, Unheard, Leaving
    <3>4. pc[i] \in {"queued", "snapshot", "invoking"} => Busy(lanes[LaneFor(i)], i)
      BY LaneIsLane DEF LaneInv, CliRuns
    <3>5. pc[i] = "queued" => InFlight(i) \/ pc'[i] = "thrown"
      BY <1>t, <1>33, <3>4 DEF Abort, Goto, Busy, InFlight
    <3>6. pc[i] \in {"snapshot", "invoking"} => InFlight(i)
      BY DEF LaneInv, CliRuns
    <3>7. pc'[i] = "asserting" => Registered(i)
      BY <3>2 DEF Registered, Unregistered
    <3> QED
      BY <1>k, <3>1, <3>2, <3>3, <3>5, <3>6, <3>7 DEF Told
  <2>4. closed' = closed /\ \A p \in Origins, j \in Ops : j # i => cancel'[p][j] = cancel[p][j]
    BY <1>t, <1>33 DEF Abort
  <2> QED
    BY <2>1, <2>2, <2>3, <2>4 DEF Sealed, CancelInv
<1>34. CASE CancelTask
  BY <1>t, <1>34 DEF CancelTask, Sealed, Told, InFlight, Rowless, Unheard, Leaving
<1>35. CASE CancelTaskInvocations
  BY <1>t, <1>35 DEF CancelTaskInvocations, Sealed, Told, InFlight, Rowless, Unheard, Leaving
<1>36. ASSUME NEW status \in Moves, MoveTask(status) PROVE Sealed'
  BY <1>t, <1>36 DEF MoveTask, external, Sealed, Told, InFlight, Rowless, Unheard, Leaving
<1>37. CASE Shutdown
  <2>1. UNCHANGED <<pc, lifetime, signal, lanes>>
    BY <1>37 DEF Shutdown
  <2>2. \A j \in Ops : cancel'["shutdown"][j] = "idle" => pc[j] \in Unregistered
    BY <1>t, <1>37 DEF Shutdown, Registered
  <2> QED
    BY <2>1, <2>2 DEF Sealed, Told, Unregistered, Rowless, Unheard, Leaving
<1>38. CASE UNCHANGED vars
  BY <1>t, <1>38 DEF vars, Sealed, Told, InFlight, Rowless, Unheard, Leaving
<1> QED
  BY <1>1, <1>2, <1>3, <1>4, <1>5, <1>6, <1>7, <1>8, <1>9, <1>10, <1>11, <1>12, <1>13, <1>14,
       <1>15, <1>16, <1>17, <1>18, <1>19, <1>20, <1>21, <1>22, <1>23, <1>24, <1>25, <1>26,
       <1>27, <1>28, <1>29, <1>30, <1>31, <1>32, <1>33, <1>34, <1>35, <1>36, <1>37, <1>38
  DEF Next, Step, Request, Cancelling, RetryInvocation

\* The cancellation of the task lists every invocation that could still start.
LEMMA SilentKept ==
  ASSUME TypeOK, LaneInv, Rows, Silent, [Next]_vars
  PROVE  Silent'
<1>t. /\ pc \in [Ops -> PC] /\ answer \in [Ops -> {"none", "ok", "failed", "cancelled"}]
      /\ row \in [Ops -> Open \cup Final \cup {NULL}] /\ NULL \notin Open \cup Final
      /\ lifetime \in [Ops -> BOOLEAN] /\ signal \in [Ops -> BOOLEAN]
      /\ cancel \in [Origins -> [Ops -> {"idle", "persisting", "aborting"}]]
  BY PlanningAssumption DEF TypeOK, PlanningAssumption
<1>1. ASSUME NEW i \in Ops, CreateInvocation(i) PROVE Silent'
  BY <1>t, <1>1 DEF CreateInvocation, Goto, external, Silent, Open
<1>2. ASSUME NEW i \in Ops, Register(i) PROVE Silent'
  BY <1>t, <1>2 DEF Register, Goto, external, Silent, Open
<1>3. ASSUME NEW i \in Ops, RefuseWhenClosed(i) PROVE Silent'
  BY <1>t, <1>3 DEF RefuseWhenClosed, Update, Winner, Goto, external, Silent, Open
<1>4. ASSUME NEW i \in Ops, AssertActive(i) PROVE Silent'
  BY <1>t, <1>4 DEF AssertActive, GotoIfActive, Goto, external, Silent, Open
<1>5. ASSUME NEW i \in Ops, Start(i) PROVE Silent'
  BY <1>t, <1>5
  DEF Start, UpdateAndCheck, Update, Winner, GotoIfActive, Goto, external, Rows, RowInv,
      Rowless, Over, Final, Silent, Open
<1>6. ASSUME NEW i \in Ops, Enqueue(i) PROVE Silent'
  BY <1>t, <1>6 DEF Enqueue, Goto, external, Silent, Open
<1>7. ASSUME NEW i \in Ops, PreparationThrows(i) PROVE Silent'
  BY <1>t, <1>7 DEF PreparationThrows, Goto, external, Silent, Open
<1>8. ASSUME NEW i \in Ops, BeginWork(i) PROVE Silent'
  BY <1>t, <1>8 DEF BeginWork, LeaveLane, Goto, external, Silent, Open
<1>9. ASSUME NEW i \in Ops, Spawn(i) PROVE Silent'
  BY <1>t, <1>9 DEF Spawn, Goto, external, Silent, Open
<1>10. ASSUME NEW i \in Ops, SettleEntry(i) PROVE Silent'
  BY <1>t, <1>10 DEF SettleEntry, LeaveLane, Goto, external, Silent, Open
<1>11. ASSUME NEW i \in Ops, NEW outcome \in {"ok", "failed", "cancelled"}, ProcessEnds(i, outcome)
       PROVE  Silent'
  BY <1>t, <1>11 DEF ProcessEnds, Goto, external, Silent, Open
<1>12. ASSUME NEW i \in Ops, Diagnose(i) PROVE Silent'
  BY <1>t, <1>12 DEF Diagnose, Goto, Cancelled, external, Silent, Open
<1>13. ASSUME NEW i \in Ops, PersistCancelled(i) PROVE Silent'
  BY <1>t, <1>13 DEF PersistCancelled, Update, Winner, SetStep, Goto, external, Silent, Open
<1>14. ASSUME NEW i \in Ops, PersistFailed(i) PROVE Silent'
  BY <1>t, <1>14
  DEF PersistFailed, UpdateAndCheck, Update, Winner, GotoIfActive, Goto, external, Silent, Open
<1>15. ASSUME NEW i \in Ops, BlockTask(i) PROVE Silent'
  BY <1>t, <1>15 DEF BlockTask, SetStep, SetTask, Goto, external, Allowed, AllowedFrom, Silent, Open
<1>16. ASSUME NEW i \in Ops, PersistWorkerOutcome(i) PROVE Silent'
  BY <1>t, <1>16
  DEF PersistWorkerOutcome, UpdateAndCheck, Update, Winner, GotoIfActive, Goto, Cancelled,
      external, Silent, Open
<1>17. ASSUME NEW i \in Ops, RecordOutput(i) PROVE Silent'
  BY <1>t, <1>17 DEF RecordOutput, GotoIfActive, Goto, external, Silent, Open
<1>18. ASSUME NEW i \in Ops, Parse(i) PROVE Silent'
  BY <1>t, <1>18 DEF Parse, GotoIfActive, Goto, external, Silent, Open
<1>19. ASSUME NEW i \in Ops, ParseWorkerOutput(i) PROVE Silent'
  BY <1>t, <1>19 DEF ParseWorkerOutput, GotoIfActive, Goto, external, Silent, Open
<1>20. ASSUME NEW i \in Ops, PersistRefusal(i) PROVE Silent'
  BY <1>t, <1>20 DEF PersistRefusal, Update, Winner, Goto, external, Silent, Open
<1>21. ASSUME NEW i \in Ops, DeclinePlan(i) PROVE Silent'
  BY <1>t, <1>21
  DEF DeclinePlan, SetStep, SetTask, Goto, external, Allowed, AllowedFrom, Silent, Open
<1>22. ASSUME NEW i \in Ops, AcceptPlan(i) PROVE Silent'
  BY <1>t, <1>22 DEF AcceptPlan, SetStep, GotoIfActive, Goto, external, Silent, Open
<1>23. ASSUME NEW i \in Ops, Propose(i) PROVE Silent'
  BY <1>t, <1>23 DEF Propose, GotoIfActive, Goto, external, Silent, Open
<1>24. ASSUME NEW i \in Ops, MoveTaskOn(i) PROVE Silent'
  BY <1>t, <1>24 DEF MoveTaskOn, SetTask, Goto, external, Allowed, AllowedFrom, Silent, Open
<1>25. ASSUME NEW i \in Ops, PersistSucceeded(i) PROVE Silent'
  BY <1>t, <1>25 DEF PersistSucceeded, Update, Winner, Goto, external, Silent, Open
<1>26. ASSUME NEW i \in Ops, Confirm(i) PROVE Silent'
  BY <1>t, <1>26 DEF Confirm, GotoIfActive, Goto, external, Silent, Open
<1>27. ASSUME NEW i \in Ops, Abandon(i) PROVE Silent'
  BY <1>t, <1>27 DEF Abandon, SetStep, Goto, external, Silent, Open
<1>28. ASSUME NEW i \in Ops, Release(i) PROVE Silent'
  BY <1>t, <1>28 DEF Release, Goto, external, Silent, Open
<1>29. ASSUME NEW i \in Ops, GeneratePlan(i) PROVE Silent'
  BY <1>t, <1>29 DEF GeneratePlan, SetStep, Goto, external, Silent, Open
<1>30. ASSUME NEW i \in Ops, InvokeForWorker(i) PROVE Silent'
  BY <1>t, <1>30 DEF InvokeForWorker, Goto, external, Silent, Open
<1>31. ASSUME NEW i \in Ops, CancelInvocation(i) PROVE Silent'
  BY <1>t, <1>31 DEF CancelInvocation, Silent, Open
<1>32. ASSUME NEW i \in Ops, NEW o \in Origins, PersistCancellation(o, i) PROVE Silent'
  BY <1>t, <1>32 DEF PersistCancellation, Update, Winner, Silent, Open
<1>33. ASSUME NEW i \in Ops, NEW o \in Origins, Abort(o, i) PROVE Silent'
  BY <1>t, <1>33 DEF Abort, Goto, Silent, Open
<1>34. CASE CancelTask
  BY <1>t, <1>34 DEF CancelTask, Silent, Open
<1>35. CASE CancelTaskInvocations
  BY <1>t, <1>35 DEF CancelTaskInvocations, Silent, Open
<1>36. ASSUME NEW status \in Moves, MoveTask(status) PROVE Silent'
  BY <1>t, <1>36, PlanningAssumption
  DEF MoveTask, external, Silent, Open, Allowed, AllowedFrom, PlanningAssumption
<1>37. CASE Shutdown
  BY <1>t, <1>37 DEF Shutdown, Silent, Open
<1>38. CASE UNCHANGED vars
  BY <1>t, <1>38 DEF vars, Silent, Open
<1> QED
  BY <1>1, <1>2, <1>3, <1>4, <1>5, <1>6, <1>7, <1>8, <1>9, <1>10, <1>11, <1>12, <1>13, <1>14,
       <1>15, <1>16, <1>17, <1>18, <1>19, <1>20, <1>21, <1>22, <1>23, <1>24, <1>25, <1>26,
       <1>27, <1>28, <1>29, <1>30, <1>31, <1>32, <1>33, <1>34, <1>35, <1>36, <1>37, <1>38
  DEF Next, Step, Request, Cancelling, RetryInvocation

-----------------------------------------------------------------------------
(* The invariant *)

\* Nothing has started.
LEMMA InitHolds ==
  ASSUME Init
  PROVE  IInv
<1>1. \A i \in Ops : pc[i] = "idle" /\ row[i] = NULL /\ ~lifetime[i] /\ answer[i] = "none"
  BY DEF Init
<1>2. TypeOK
  <2>1. lanes \in [Lanes -> [inflight : Ops \cup {NULL}, waiting : Seq(Ops)]]
    BY DEF Init, EmptyLane
  <2>2. left \in [Plans -> 0..MaxActions] /\ offers \in [Plans -> 0..MaxActions]
    BY PlanningAssumption DEF Init, PlanningAssumption
  <2> QED
    BY <2>1, <2>2 DEF Init, TypeOK, PC, TaskStatus
<1>3. Budget
  BY PlanningAssumption DEF Init, Budget, Early, Ops, PlanningAssumption
<1>4. LaneInv
  <2>1. EmptyLane \in Lane
    BY DEF EmptyLane, Lane
  <2>2. lanes = [l \in Lanes |-> EmptyLane]
    BY DEF Init
  <2>3. Sound(EmptyLane)
    BY <2>1 DEF Sound, EmptyLane
  <2>4. \A i \in Ops : ~Busy(EmptyLane, i)
    BY <2>1, WaitsAt, NullIsNoOp DEF Busy, EmptyLane
  <2> QED
    BY <1>1, <2>1, <2>2, <2>3, <2>4 DEF LaneInv, CliRuns
<1>5. Rows
  BY <1>1, PlanningAssumption DEF Rows, RowInv, Rowless, Over, Leaving, Final, PlanningAssumption
<1>6. CancelInv
  BY DEF Init, CancelInv
<1>7. Heard /\ Sealed /\ Silent
  BY <1>1, PlanningAssumption DEF Init, Heard, Sealed, Silent, Final, PlanningAssumption
<1> QED
  BY <1>2, <1>3, <1>4, <1>5, <1>6, <1>7 DEF IInv

\* It is kept.
LEMMA StepHolds ==
  ASSUME IInv, [Next]_vars
  PROVE  IInv'
<1>1. TypeOK /\ Budget /\ LaneInv /\ Rows /\ CancelInv /\ Heard /\ Sealed /\ Silent
  BY DEF IInv
<1>2. LaneInv' /\ Budget'
  BY <1>1, LanesKept, BudgetKept
<1>3. TypeOK' /\ Rows' /\ CancelInv' /\ Heard' /\ Sealed' /\ Silent'
  BY <1>1, <1>2, TypesKept, RowsKept, CancelKept, HeardKept, SealedKept, SilentKept
<1> QED
  BY <1>2, <1>3 DEF IInv

\* IInv holds in every reachable state.
THEOREM Invariant == Spec => []IInv
<1>1. Init => IInv
  BY InitHolds
<1>2. IInv /\ [Next]_vars => IInv'
  BY StepHolds
<1> QED
  BY <1>1, <1>2, PTL DEF Spec

-----------------------------------------------------------------------------
(* What it means *)

\* Every operation that ends leaves a final row, unless it is a plan that was accepted and could
\* not move its task; and only a failed invocation blocks its task (generatePlanOnce,
\* invokeForWorkerOnce).
THEOREM RowsAgree == Spec => []PlanningInv
<1>1. ASSUME IInv PROVE PlanningInv
  <2>1. EndedIsSettled
    BY <1>1 DEF IInv, Rows, RowInv, Leaving, EndedIsSettled
  <2>2. OnlyFailuresBlock
    BY <1>1 DEF IInv, Rows, RowInv, OnlyFailuresBlock
  <2> QED
    BY <1>1, <2>1, <2>2 DEF IInv, PlanningInv
<1> QED
  BY <1>1, Invariant, PTL

\* A lane serves one invocation at a time, and has exactly the entries of the operations that are
\* queued or run (AgentInvocationQueue).
THEOREM LanesStayExclusive == Spec => []LanesAreExclusive
<1>1. ASSUME IInv PROVE LanesAreExclusive
  <2> SUFFICES ASSUME NEW i \in Ops
               PROVE  /\ CliRuns(i) => InFlight(i)
                      /\ InFlight(i) => pc[i] = "queued" \/ CliRuns(i)
                      /\ pc[i] = "queued" <=>
                           Waits(lanes[LaneFor(i)], i) \/ (InFlight(i) /\ ~CliRuns(i))
                      /\ lanes[LaneFor(i)].inflight = NULL => lanes[LaneFor(i)].waiting = <<>>
    BY DEF LanesAreExclusive
  <2> DEFINE lane == lanes[LaneFor(i)]
  <2>1. /\ Sound(lane) /\ (CliRuns(i) => lane.inflight = i)
        /\ Busy(lane, i) <=> pc[i] = "queued" \/ CliRuns(i)
    BY <1>1, LaneIsLane DEF IInv, LaneInv, InFlight
  <2> HIDE DEF lane
  <2>2. ~(Waits(lane, i) /\ lane.inflight = i)
    BY <2>1, WaitsAt DEF Sound
  <2>3. pc[i] = "queued" => ~CliRuns(i)
    BY DEF CliRuns
  <2>4. lane.inflight = NULL => lane.waiting = <<>>
    BY <2>1 DEF Sound
  <2>5. InFlight(i) <=> lane.inflight = i
    BY DEF InFlight, lane
  <2>6. Waits(lane, i) <=> Waits(lanes[LaneFor(i)], i)
    BY DEF lane
  <2>7. Busy(lane, i) <=> lane.inflight = i \/ Waits(lane, i)
    BY DEF Busy
  <2> QED
    BY <2>1, <2>2, <2>3, <2>4, <2>5, <2>6, <2>7 DEF lane
<1> QED
  BY <1>1, Invariant, PTL

\* Whenever a cancellation persisted, once it is through the process has its signal and nothing
\* that waits will start; the same for the cancellation of the task (cancelInvocation,
\* cancelTaskInvocations, assertInvocationActive).
THEOREM CancellationsAlwaysArrive == Spec => []CancellationsArrive
<1>1. ASSUME IInv PROVE CancelReachesProcess
  <2> SUFFICES ASSUME NEW i \in Ops, row[i] = "cancelled", CancelSettled(i)
               PROVE  /\ CliRuns(i) /\ answer[i] = "none" => signal[i]
                      /\ pc[i] \in {"starting", "readying", "queued"} => lifetime[i] \/ signal[i]
                      /\ ~Waits(lanes[LaneFor(i)], i)
    BY DEF CancelReachesProcess
  <2>1. Told(i)
    BY <1>1 DEF IInv, Heard
  <2>2. CliRuns(i) /\ answer[i] = "none" => signal[i]
    BY <1>1, <2>1 DEF IInv, Rows, RowInv, Told, CliRuns
  <2>3. pc[i] \in {"starting", "readying", "queued"} => lifetime[i]
    BY <2>1 DEF Told, Rowless, Unheard, Leaving
  <2>4. ~Waits(lanes[LaneFor(i)], i)
    <3> SUFFICES ASSUME Waits(lanes[LaneFor(i)], i)
                 PROVE  FALSE
      OBVIOUS
    <3>1. Sound(lanes[LaneFor(i)]) /\ Busy(lanes[LaneFor(i)], i)
      BY <1>1, LaneIsLane DEF IInv, LaneInv, Busy
    <3>2. pc[i] = "queued" \/ CliRuns(i)
      BY <1>1, <3>1, LaneIsLane DEF IInv, LaneInv
    <3>3. lanes[LaneFor(i)].inflight = i
      BY <1>1, <2>1, <3>2 DEF IInv, LaneInv, Told, InFlight
    <3> QED
      BY <3>1, <3>3, WaitsAt DEF Sound
  <2> QED
    BY <2>2, <2>3, <2>4
<1>2. ASSUME IInv PROVE CancelledTaskIsSilent
  <2> SUFFICES ASSUME task = "cancelled", ~listing, NEW i \in Ops, pc[i] = "invoking",
                      CancelSettled(i), cancel["task"][i] = "idle"
               PROVE  signal[i]
    BY DEF CancelledTaskIsSilent
  <2>1. row[i] \notin Open
    BY <1>2 DEF IInv, Silent
  <2>2. row[i] = "cancelled"
    BY <1>2, <2>1 DEF IInv, TypeOK, Rows, RowInv, Rowless, Over, Final
  <2> QED
    BY <1>2, <2>2 DEF IInv, Heard, Told
<1> QED
  BY <1>1, <1>2, Invariant, PTL DEF CancellationsArrive

\* What writes a row finds it open, or leaves it as it is.
LEMMA FinalKept ==
  ASSUME TypeOK, Rows, [Next]_vars
  PROVE  \A j \in Ops : row[j] \in Final => row'[j] = row[j]
<1>t. /\ pc \in [Ops -> PC] /\ answer \in [Ops -> {"none", "ok", "failed", "cancelled"}]
      /\ row \in [Ops -> Open \cup Final \cup {NULL}] /\ NULL \notin Open \cup Final
      /\ lifetime \in [Ops -> BOOLEAN] /\ signal \in [Ops -> BOOLEAN]
      /\ cancel \in [Origins -> [Ops -> {"idle", "persisting", "aborting"}]]
  BY PlanningAssumption DEF TypeOK, PlanningAssumption
<1>1. ASSUME NEW i \in Ops, CreateInvocation(i)
      PROVE  \A j \in Ops : row[j] \in Final => row'[j] = row[j]
  BY <1>t, <1>1 DEF CreateInvocation, Goto, Rows, RowInv, Rowless, Over, Final
<1>2. ASSUME NEW i \in Ops, Register(i) PROVE \A j \in Ops : row[j] \in Final => row'[j] = row[j]
  BY <1>t, <1>2 DEF Register, Goto, Final
<1>3. ASSUME NEW i \in Ops, RefuseWhenClosed(i)
      PROVE  \A j \in Ops : row[j] \in Final => row'[j] = row[j]
  BY <1>t, <1>3 DEF RefuseWhenClosed, Update, Winner, Goto, Final
<1>4. ASSUME NEW i \in Ops, AssertActive(i)
      PROVE  \A j \in Ops : row[j] \in Final => row'[j] = row[j]
  BY <1>t, <1>4 DEF AssertActive, GotoIfActive, Goto, Final
<1>5. ASSUME NEW i \in Ops, Start(i) PROVE \A j \in Ops : row[j] \in Final => row'[j] = row[j]
  BY <1>t, <1>5
  DEF Start, UpdateAndCheck, Update, Winner, GotoIfActive, Goto, Rows, RowInv, Rowless, Over,
      Final
<1>6. ASSUME NEW i \in Ops, Enqueue(i) PROVE \A j \in Ops : row[j] \in Final => row'[j] = row[j]
  BY <1>t, <1>6 DEF Enqueue, Goto, Final
<1>7. ASSUME NEW i \in Ops, PreparationThrows(i)
      PROVE  \A j \in Ops : row[j] \in Final => row'[j] = row[j]
  BY <1>t, <1>7 DEF PreparationThrows, Goto, Final
<1>8. ASSUME NEW i \in Ops, BeginWork(i) PROVE \A j \in Ops : row[j] \in Final => row'[j] = row[j]
  BY <1>t, <1>8 DEF BeginWork, LeaveLane, Goto, Final
<1>9. ASSUME NEW i \in Ops, Spawn(i) PROVE \A j \in Ops : row[j] \in Final => row'[j] = row[j]
  BY <1>t, <1>9 DEF Spawn, Goto, Final
<1>10. ASSUME NEW i \in Ops, SettleEntry(i)
       PROVE  \A j \in Ops : row[j] \in Final => row'[j] = row[j]
  BY <1>t, <1>10 DEF SettleEntry, LeaveLane, Goto, Final
<1>11. ASSUME NEW i \in Ops, NEW outcome \in {"ok", "failed", "cancelled"}, ProcessEnds(i, outcome)
       PROVE  \A j \in Ops : row[j] \in Final => row'[j] = row[j]
  BY <1>t, <1>11 DEF ProcessEnds, Goto, Final
<1>12. ASSUME NEW i \in Ops, Diagnose(i) PROVE \A j \in Ops : row[j] \in Final => row'[j] = row[j]
  BY <1>t, <1>12 DEF Diagnose, Goto, Cancelled, Final
<1>13. ASSUME NEW i \in Ops, PersistCancelled(i)
       PROVE  \A j \in Ops : row[j] \in Final => row'[j] = row[j]
  BY <1>t, <1>13 DEF PersistCancelled, Update, Winner, SetStep, Goto, Final
<1>14. ASSUME NEW i \in Ops, PersistFailed(i)
       PROVE  \A j \in Ops : row[j] \in Final => row'[j] = row[j]
  BY <1>t, <1>14
  DEF PersistFailed, UpdateAndCheck, Update, Winner, GotoIfActive, Goto, Rows, RowInv, Rowless,
      Over, Final
<1>15. ASSUME NEW i \in Ops, BlockTask(i) PROVE \A j \in Ops : row[j] \in Final => row'[j] = row[j]
  BY <1>t, <1>15 DEF BlockTask, SetStep, SetTask, Goto, Final
<1>16. ASSUME NEW i \in Ops, PersistWorkerOutcome(i)
       PROVE  \A j \in Ops : row[j] \in Final => row'[j] = row[j]
  BY <1>t, <1>16
  DEF PersistWorkerOutcome, UpdateAndCheck, Update, Winner, GotoIfActive, Goto, Cancelled, Rows,
      RowInv, Rowless, Over, Final
<1>17. ASSUME NEW i \in Ops, RecordOutput(i)
       PROVE  \A j \in Ops : row[j] \in Final => row'[j] = row[j]
  BY <1>t, <1>17 DEF RecordOutput, GotoIfActive, Goto, Final
<1>18. ASSUME NEW i \in Ops, Parse(i) PROVE \A j \in Ops : row[j] \in Final => row'[j] = row[j]
  BY <1>t, <1>18 DEF Parse, GotoIfActive, Goto, Final
<1>19. ASSUME NEW i \in Ops, ParseWorkerOutput(i)
       PROVE  \A j \in Ops : row[j] \in Final => row'[j] = row[j]
  BY <1>t, <1>19 DEF ParseWorkerOutput, GotoIfActive, Goto, Final
<1>20. ASSUME NEW i \in Ops, PersistRefusal(i)
       PROVE  \A j \in Ops : row[j] \in Final => row'[j] = row[j]
  BY <1>t, <1>20 DEF PersistRefusal, Update, Winner, Goto, Rows, RowInv, Rowless, Over, Final
<1>21. ASSUME NEW i \in Ops, DeclinePlan(i)
       PROVE  \A j \in Ops : row[j] \in Final => row'[j] = row[j]
  BY <1>t, <1>21 DEF DeclinePlan, SetStep, SetTask, Goto, Final
<1>22. ASSUME NEW i \in Ops, AcceptPlan(i) PROVE \A j \in Ops : row[j] \in Final => row'[j] = row[j]
  BY <1>t, <1>22 DEF AcceptPlan, SetStep, GotoIfActive, Goto, Final
<1>23. ASSUME NEW i \in Ops, Propose(i) PROVE \A j \in Ops : row[j] \in Final => row'[j] = row[j]
  BY <1>t, <1>23 DEF Propose, GotoIfActive, Goto, Final
<1>24. ASSUME NEW i \in Ops, MoveTaskOn(i) PROVE \A j \in Ops : row[j] \in Final => row'[j] = row[j]
  BY <1>t, <1>24 DEF MoveTaskOn, SetTask, Goto, Final
<1>25. ASSUME NEW i \in Ops, PersistSucceeded(i)
       PROVE  \A j \in Ops : row[j] \in Final => row'[j] = row[j]
  BY <1>t, <1>25 DEF PersistSucceeded, Update, Winner, Goto, Rows, RowInv, Rowless, Over, Final
<1>26. ASSUME NEW i \in Ops, Confirm(i) PROVE \A j \in Ops : row[j] \in Final => row'[j] = row[j]
  BY <1>t, <1>26 DEF Confirm, GotoIfActive, Goto, Final
<1>27. ASSUME NEW i \in Ops, Abandon(i) PROVE \A j \in Ops : row[j] \in Final => row'[j] = row[j]
  BY <1>t, <1>27 DEF Abandon, SetStep, Goto, Final
<1>28. ASSUME NEW i \in Ops, Release(i) PROVE \A j \in Ops : row[j] \in Final => row'[j] = row[j]
  BY <1>t, <1>28 DEF Release, Goto, Final
<1>29. ASSUME NEW i \in Ops, GeneratePlan(i)
       PROVE  \A j \in Ops : row[j] \in Final => row'[j] = row[j]
  BY <1>t, <1>29 DEF GeneratePlan, SetStep, Goto, Final
<1>30. ASSUME NEW i \in Ops, InvokeForWorker(i)
       PROVE  \A j \in Ops : row[j] \in Final => row'[j] = row[j]
  BY <1>t, <1>30 DEF InvokeForWorker, Goto, Final
<1>31. ASSUME NEW i \in Ops, CancelInvocation(i)
       PROVE  \A j \in Ops : row[j] \in Final => row'[j] = row[j]
  BY <1>t, <1>31 DEF CancelInvocation, Final
<1>32. ASSUME NEW i \in Ops, NEW o \in Origins, PersistCancellation(o, i)
       PROVE  \A j \in Ops : row[j] \in Final => row'[j] = row[j]
  BY <1>t, <1>32 DEF PersistCancellation, Update, Winner, Final
<1>33. ASSUME NEW i \in Ops, NEW o \in Origins, Abort(o, i)
       PROVE  \A j \in Ops : row[j] \in Final => row'[j] = row[j]
  BY <1>t, <1>33 DEF Abort, Goto, Final
<1>34. CASE CancelTask
  BY <1>t, <1>34 DEF CancelTask, Final
<1>35. CASE CancelTaskInvocations
  BY <1>t, <1>35 DEF CancelTaskInvocations, Final
<1>36. ASSUME NEW status \in Moves, MoveTask(status)
       PROVE  \A j \in Ops : row[j] \in Final => row'[j] = row[j]
  BY <1>t, <1>36 DEF MoveTask, Final
<1>37. CASE Shutdown
  BY <1>t, <1>37 DEF Shutdown, Final
<1>38. CASE UNCHANGED vars
  BY <1>t, <1>38 DEF vars, Final
<1> QED
  BY <1>1, <1>2, <1>3, <1>4, <1>5, <1>6, <1>7, <1>8, <1>9, <1>10, <1>11, <1>12, <1>13, <1>14,
       <1>15, <1>16, <1>17, <1>18, <1>19, <1>20, <1>21, <1>22, <1>23, <1>24, <1>25, <1>26,
       <1>27, <1>28, <1>29, <1>30, <1>31, <1>32, <1>33, <1>34, <1>35, <1>36, <1>37, <1>38
  DEF Next, Step, Request, Cancelling, RetryInvocation

\* The step starts no process, creates no approval and makes no step succeed for operation i.
StaysQuiet(i) ==
  /\ pc'[i] = "invoking" => pc[i] = "invoking"
  /\ i \in Plans => offers'[i] = offers[i]
  /\ i \in Plans /\ step'[i] = "succeeded" => step[i] = "succeeded"

\* An operation that is told starts no process, offers nothing and ends its step without success.
LEMMA ToldDoesNothing ==
  ASSUME TypeOK, [Next]_vars
  PROVE  \A j \in Ops : Told(j) => StaysQuiet(j)
<1>t. /\ pc \in [Ops -> PC] /\ answer \in [Ops -> {"none", "ok", "failed", "cancelled"}]
      /\ row \in [Ops -> Open \cup Final \cup {NULL}] /\ NULL \notin Open \cup Final
      /\ lifetime \in [Ops -> BOOLEAN] /\ signal \in [Ops -> BOOLEAN]
      /\ cancel \in [Origins -> [Ops -> {"idle", "persisting", "aborting"}]]
  BY PlanningAssumption DEF TypeOK, PlanningAssumption
<1>u. /\ offers \in [Plans -> 0..MaxActions] 
      /\ step \in [Plans -> {"none", "running", "succeeded", "failed"}]
  BY DEF TypeOK
<1>1. ASSUME NEW i \in Ops, CreateInvocation(i) PROVE \A j \in Ops : Told(j) => StaysQuiet(j)
  BY <1>t, <1>u, <1>1 DEF CreateInvocation, Goto, data, StaysQuiet, Told, Rowless, Unheard, Leaving
<1>2. ASSUME NEW i \in Ops, Register(i) PROVE \A j \in Ops : Told(j) => StaysQuiet(j)
  BY <1>t, <1>u, <1>2 DEF Register, Goto, data, StaysQuiet, Told, Rowless, Unheard, Leaving
<1>3. ASSUME NEW i \in Ops, RefuseWhenClosed(i) PROVE \A j \in Ops : Told(j) => StaysQuiet(j)
  BY <1>t, <1>u, <1>3
  DEF RefuseWhenClosed, Update, Winner, Goto, data, StaysQuiet, Told, Rowless, Unheard, Leaving
<1>4. ASSUME NEW i \in Ops, AssertActive(i) PROVE \A j \in Ops : Told(j) => StaysQuiet(j)
  BY <1>t, <1>u, <1>4
  DEF AssertActive, GotoIfActive, Goto, data, StaysQuiet, Told, Rowless, Unheard, Leaving
<1>5. ASSUME NEW i \in Ops, Start(i) PROVE \A j \in Ops : Told(j) => StaysQuiet(j)
  BY <1>t, <1>u, <1>5
  DEF Start, UpdateAndCheck, Update, Winner, GotoIfActive, Goto, data, StaysQuiet, Told,
      Rowless, Unheard, Leaving
<1>6. ASSUME NEW i \in Ops, Enqueue(i) PROVE \A j \in Ops : Told(j) => StaysQuiet(j)
  BY <1>t, <1>u, <1>6 DEF Enqueue, Goto, data, StaysQuiet, Told, Rowless, Unheard, Leaving
<1>7. ASSUME NEW i \in Ops, PreparationThrows(i) PROVE \A j \in Ops : Told(j) => StaysQuiet(j)
  BY <1>t, <1>u, <1>7 DEF PreparationThrows, Goto, data, StaysQuiet, Told, Rowless, Unheard, Leaving
<1>8. ASSUME NEW i \in Ops, BeginWork(i) PROVE \A j \in Ops : Told(j) => StaysQuiet(j)
  BY <1>t, <1>u, <1>8
  DEF BeginWork, LeaveLane, Goto, data, StaysQuiet, Told, Rowless, Unheard, Leaving
<1>9. ASSUME NEW i \in Ops, Spawn(i) PROVE \A j \in Ops : Told(j) => StaysQuiet(j)
  BY <1>t, <1>u, <1>9 DEF Spawn, Goto, data, StaysQuiet, Told, Rowless, Unheard, Leaving
<1>10. ASSUME NEW i \in Ops, SettleEntry(i) PROVE \A j \in Ops : Told(j) => StaysQuiet(j)
  BY <1>t, <1>u, <1>10
  DEF SettleEntry, LeaveLane, Goto, data, StaysQuiet, Told, Rowless, Unheard, Leaving
<1>11. ASSUME NEW i \in Ops, NEW outcome \in {"ok", "failed", "cancelled"}, ProcessEnds(i, outcome)
       PROVE  \A j \in Ops : Told(j) => StaysQuiet(j)
  BY <1>t, <1>u, <1>11 DEF ProcessEnds, Goto, data, StaysQuiet, Told, Rowless, Unheard, Leaving
<1>12. ASSUME NEW i \in Ops, Diagnose(i) PROVE \A j \in Ops : Told(j) => StaysQuiet(j)
  BY <1>t, <1>u, <1>12
  DEF Diagnose, Goto, Cancelled, data, StaysQuiet, Told, Rowless, Unheard, Leaving
<1>13. ASSUME NEW i \in Ops, PersistCancelled(i) PROVE \A j \in Ops : Told(j) => StaysQuiet(j)
  BY <1>t, <1>u, <1>13
  DEF PersistCancelled, Update, Winner, SetStep, Goto, data, StaysQuiet, Told, Rowless, Unheard,
      Leaving
<1>14. ASSUME NEW i \in Ops, PersistFailed(i) PROVE \A j \in Ops : Told(j) => StaysQuiet(j)
  BY <1>t, <1>u, <1>14
  DEF PersistFailed, UpdateAndCheck, Update, Winner, GotoIfActive, Goto, data, StaysQuiet, Told,
      Rowless, Unheard, Leaving
<1>15. ASSUME NEW i \in Ops, BlockTask(i) PROVE \A j \in Ops : Told(j) => StaysQuiet(j)
  BY <1>t, <1>u, <1>15
  DEF BlockTask, SetStep, SetTask, Goto, data, StaysQuiet, Told, Rowless, Unheard, Leaving
<1>16. ASSUME NEW i \in Ops, PersistWorkerOutcome(i) PROVE \A j \in Ops : Told(j) => StaysQuiet(j)
  BY <1>t, <1>u, <1>16
  DEF PersistWorkerOutcome, UpdateAndCheck, Update, Winner, GotoIfActive, Goto, Cancelled, data,
      StaysQuiet, Told, Rowless, Unheard, Leaving
<1>17. ASSUME NEW i \in Ops, RecordOutput(i) PROVE \A j \in Ops : Told(j) => StaysQuiet(j)
  BY <1>t, <1>u, <1>17
  DEF RecordOutput, GotoIfActive, Goto, data, StaysQuiet, Told, Rowless, Unheard, Leaving
<1>18. ASSUME NEW i \in Ops, Parse(i) PROVE \A j \in Ops : Told(j) => StaysQuiet(j)
  BY <1>t, <1>u, <1>18 DEF Parse, GotoIfActive, Goto, StaysQuiet, Told, Rowless, Unheard, Leaving
<1>19. ASSUME NEW i \in Ops, ParseWorkerOutput(i) PROVE \A j \in Ops : Told(j) => StaysQuiet(j)
  BY <1>t, <1>u, <1>19
  DEF ParseWorkerOutput, GotoIfActive, Goto, data, StaysQuiet, Told, Rowless, Unheard, Leaving
<1>20. ASSUME NEW i \in Ops, PersistRefusal(i) PROVE \A j \in Ops : Told(j) => StaysQuiet(j)
  BY <1>t, <1>u, <1>20
  DEF PersistRefusal, Update, Winner, Goto, data, StaysQuiet, Told, Rowless, Unheard, Leaving
<1>21. ASSUME NEW i \in Ops, DeclinePlan(i) PROVE \A j \in Ops : Told(j) => StaysQuiet(j)
  BY <1>t, <1>u, <1>21
  DEF DeclinePlan, SetStep, SetTask, Goto, data, StaysQuiet, Told, Rowless, Unheard, Leaving
<1>22. ASSUME NEW i \in Ops, AcceptPlan(i) PROVE \A j \in Ops : Told(j) => StaysQuiet(j)
  BY <1>t, <1>u, <1>22
  DEF AcceptPlan, SetStep, GotoIfActive, Goto, data, StaysQuiet, Told, Rowless, Unheard, Leaving
<1>23. ASSUME NEW i \in Ops, Propose(i) PROVE \A j \in Ops : Told(j) => StaysQuiet(j)
  BY <1>t, <1>u, <1>23
  DEF Propose, GotoIfActive, Goto, data, StaysQuiet, Told, Rowless, Unheard, Leaving
<1>24. ASSUME NEW i \in Ops, MoveTaskOn(i) PROVE \A j \in Ops : Told(j) => StaysQuiet(j)
  BY <1>t, <1>u, <1>24
  DEF MoveTaskOn, SetTask, Goto, data, StaysQuiet, Told, Rowless, Unheard, Leaving
<1>25. ASSUME NEW i \in Ops, PersistSucceeded(i) PROVE \A j \in Ops : Told(j) => StaysQuiet(j)
  BY <1>t, <1>u, <1>25
  DEF PersistSucceeded, Update, Winner, Goto, data, StaysQuiet, Told, Rowless, Unheard, Leaving
<1>26. ASSUME NEW i \in Ops, Confirm(i) PROVE \A j \in Ops : Told(j) => StaysQuiet(j)
  BY <1>t, <1>u, <1>26
  DEF Confirm, GotoIfActive, Goto, data, StaysQuiet, Told, Rowless, Unheard, Leaving
<1>27. ASSUME NEW i \in Ops, Abandon(i) PROVE \A j \in Ops : Told(j) => StaysQuiet(j)
  BY <1>t, <1>u, <1>27 DEF Abandon, SetStep, Goto, data, StaysQuiet, Told, Rowless, Unheard, Leaving
<1>28. ASSUME NEW i \in Ops, Release(i) PROVE \A j \in Ops : Told(j) => StaysQuiet(j)
  BY <1>t, <1>u, <1>28 DEF Release, Goto, data, StaysQuiet, Told, Rowless, Unheard, Leaving
<1>29. ASSUME NEW i \in Ops, GeneratePlan(i) PROVE \A j \in Ops : Told(j) => StaysQuiet(j)
  BY <1>t, <1>u, <1>29
  DEF GeneratePlan, SetStep, Goto, data, StaysQuiet, Told, Rowless, Unheard, Leaving
<1>30. ASSUME NEW i \in Ops, InvokeForWorker(i) PROVE \A j \in Ops : Told(j) => StaysQuiet(j)
  BY <1>t, <1>u, <1>30 DEF InvokeForWorker, Goto, data, StaysQuiet, Told, Rowless, Unheard, Leaving
<1>31. ASSUME NEW i \in Ops, CancelInvocation(i) PROVE \A j \in Ops : Told(j) => StaysQuiet(j)
  BY <1>t, <1>u, <1>31 DEF CancelInvocation, data, StaysQuiet, Told, Rowless, Unheard, Leaving
<1>32. ASSUME NEW i \in Ops, NEW o \in Origins, PersistCancellation(o, i)
       PROVE  \A j \in Ops : Told(j) => StaysQuiet(j)
  BY <1>t, <1>u, <1>32
  DEF PersistCancellation, Update, Winner, data, StaysQuiet, Told, Rowless, Unheard, Leaving
<1>33. ASSUME NEW i \in Ops, NEW o \in Origins, Abort(o, i)
       PROVE  \A j \in Ops : Told(j) => StaysQuiet(j)
  BY <1>t, <1>u, <1>33 DEF Abort, Goto, data, StaysQuiet, Told, Rowless, Unheard, Leaving
<1>34. CASE CancelTask
  BY <1>t, <1>u, <1>34 DEF CancelTask, data, StaysQuiet, Told, Rowless, Unheard, Leaving
<1>35. CASE CancelTaskInvocations
  BY <1>t, <1>u, <1>35 DEF CancelTaskInvocations, data, StaysQuiet, Told, Rowless, Unheard, Leaving
<1>36. ASSUME NEW status \in Moves, MoveTask(status) PROVE \A j \in Ops : Told(j) => StaysQuiet(j)
  BY <1>t, <1>u, <1>36 DEF MoveTask, data, StaysQuiet, Told, Rowless, Unheard, Leaving
<1>37. CASE Shutdown
  BY <1>t, <1>u, <1>37 DEF Shutdown, data, StaysQuiet, Told, Rowless, Unheard, Leaving
<1>38. CASE UNCHANGED vars
  BY <1>t, <1>u, <1>38 DEF vars, StaysQuiet, Told, Rowless, Unheard, Leaving
<1> QED
  BY <1>1, <1>2, <1>3, <1>4, <1>5, <1>6, <1>7, <1>8, <1>9, <1>10, <1>11, <1>12, <1>13, <1>14,
       <1>15, <1>16, <1>17, <1>18, <1>19, <1>20, <1>21, <1>22, <1>23, <1>24, <1>25, <1>26,
       <1>27, <1>28, <1>29, <1>30, <1>31, <1>32, <1>33, <1>34, <1>35, <1>36, <1>37, <1>38
  DEF Next, Step, Request, Cancelling, RetryInvocation

\* A final row is final: no late start, outcome or cancellation rewrites it (updateAgentInvocation
\* and the winner its callers read).
THEOREM FinalStaysFinal == Spec => FinalIsFinal
<1>1. IInv /\ [Next]_vars => \A i \in Ops : row[i] \in Final => row'[i] = row[i]
  BY FinalKept DEF IInv
<1> QED
  BY <1>1, Invariant, PTL DEF FinalIsFinal, Spec

\* Once its cancellation is through, an invocation starts no process, creates no approval and makes
\* no step succeed (throwIfInvocationCancelled before each of them).
THEOREM CancelledStaysQuiet == Spec => CancelledDoesNothing
<1>1. IInv /\ [Next]_vars =>
        \A i \in Ops : row[i] = "cancelled" /\ CancelSettled(i) =>
          /\ pc'[i] = "invoking" => pc[i] = "invoking"
          /\ i \in Plans => offers'[i] = offers[i]
          /\ i \in Plans /\ step'[i] = "succeeded" => step[i] = "succeeded"
  BY ToldDoesNothing DEF IInv, Heard, StaysQuiet
<1> QED
  BY <1>1, Invariant, PTL DEF CancelledDoesNothing, Spec

\* After shutdown is called no model process starts, but for operations whose cancellation by it
\* has yet to come through (shutdown, assertNotShuttingDown).
THEOREM NothingStartsBehindTheSeal == Spec => SealedStartsNothing
<1>1. IInv /\ [Next]_vars =>
        \A i \in Ops : closed /\ pc[i] # "invoking" /\ pc'[i] = "invoking" =>
          cancel["shutdown"][i] # "idle"
  BY ToldDoesNothing DEF IInv, Sealed, StaysQuiet
<1> QED
  BY <1>1, Invariant, PTL DEF SealedStartsNothing, Spec

=============================================================================
