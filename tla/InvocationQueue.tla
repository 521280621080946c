--------------------------- MODULE InvocationQueue ---------------------------
(***************************************************************************)
(* The lanes of AgentInvocationQueue.  A lane runs one entry at a time and *)
(* keeps the others waiting in arrival order; an entry is the invocation   *)
(* it stands for.  A lane that is pruned is one that is empty.             *)
(***************************************************************************)
EXTENDS Naturals, SequencesExt

CONSTANT NULL      \* no entry in flight

EmptyLane == [inflight |-> NULL, waiting |-> <<>>]

\* Slip: the next entry runs although one is in flight.
DrainedEagerly(lane) ==
  IF lane.waiting = <<>> THEN lane
  ELSE [inflight |-> Head(lane.waiting), waiting |-> Tail(lane.waiting)]

\* drain: the next entry runs when nothing is in flight.
Drained(lane) ==
  IF lane.inflight # NULL \/ lane.waiting = <<>> THEN lane
  ELSE [inflight |-> Head(lane.waiting), waiting |-> Tail(lane.waiting)]

\* enqueue
Enqueued(lane, i) == Drained([lane EXCEPT !.waiting = Append(@, i)])

\* Slip: settling does not drain.
SettledIdly(lane) == [lane EXCEPT !.inflight = NULL]

\* The work of the entry in flight has settled.
Settled(lane) == Drained([lane EXCEPT !.inflight = NULL])

\* cancel of an entry that has not started.
Withdrawn(lane, i) == [lane EXCEPT !.waiting = RemoveFirst(@, i)]

Waits(lane, i) == Contains(lane.waiting, i)

\* isBusy
Busy(lane, i) == lane.inflight = i \/ Waits(lane, i)
=============================================================================
