------------------------- MODULE WorkerRunnerProofs -------------------------
(***************************************************************************)
(* What WorkerRunner keeps true for every pipeline, every set of rules and *)
(* every bound.                                                            *)
(*                                                                         *)
(* IInv says where a run can be and what its lanes, its attempt and its    *)
(* rows then have to do with each other.  What follows from it needs these *)
(* more invariants, each about what a run knows, and one about its lanes:  *)
(*   - FailInv: of repairs that failed;                                    *)
(*   - CountInv and SettleInv: of attempts that are running;               *)
(*   - OpenInv: of proposals that await a decision;                        *)
(*   - TurnInv: where the lanes are when the user can act.                 *)
(* Two of the theorems hold under an assumption about the rules:           *)
(* OneRepairRule and NoSerialRepair, which say what happens without them.  *)
(***************************************************************************)
EXTENDS WorkerRunner, FiniteSetTheorems, WellFoundedInduction, TLAPS

-----------------------------------------------------------------------------
(* Numbers, sets and sequences *)

Less == {p \in Nat \X Nat : p[1] < p[2]}

\* The order of the naturals, as a relation.
LEMMA LessIsWellFounded == IsWellFoundedOn(Less, Nat)
BY NatLessThanWellFounded DEF OpToRel, Less

\* A set of naturals that is not empty has a least element.
LEMMA Least ==
  ASSUME NEW S, S \subseteq Nat, S # {}
  PROVE  \E n \in S : \A m \in S : n <= m
<1>1. PICK n \in S : \A m \in S : <<m, n>> \notin Less
  BY LessIsWellFounded, WFMin
<1>2. \A m \in S : <<m, n>> \notin Less => n <= m
  BY DEF Less
<1> QED BY <1>1, <1>2

\* The smallest of some naturals (the oldest running attempt of the code) is one of them.
LEMMA MinIsLeast ==
  ASSUME NEW S, S \subseteq Nat, S # {}
  PROVE  Min(S) \in S /\ \A m \in S : Min(S) <= m
BY Least DEF Min

\* The workers of a pipeline are finitely many.
LEMMA IntervalIsFinite == \A n \in Nat : IsFiniteSet(1..n)
<1> TAKE n \in Nat
<1>1. 1 \in Int /\ n \in Int
  OBVIOUS
<1> QED BY ONLY <1>1, FS_Interval

\* The workers of any set can be put in order, each of them once.
Ordered(s) == \A i, j \in DOMAIN s : i < j => s[i] < s[j]

CanBeOrdered(n) == \A ws \in SUBSET (1..n) : \E s \in SetToSeqs(ws) : Ordered(s)

\* One more worker is put last.
LEMMA OneMoreOrdered ==
  ASSUME NEW n \in Nat, CanBeOrdered(n)
  PROVE  CanBeOrdered(n + 1)
<1> SUFFICES ASSUME NEW ws \in SUBSET (1..(n + 1)), n + 1 \in ws
             PROVE  \E s \in SetToSeqs(ws) : Ordered(s)
  <2>1. \A ws \in SUBSET (1..(n + 1)) : n + 1 \notin ws => ws \in SUBSET (1..n)
    OBVIOUS
  <2> QED BY <2>1 DEF CanBeOrdered
<1> DEFINE vs == ws \ {n + 1}
           c == Cardinality(vs)
<1>1. /\ vs \subseteq 1..n /\ IsFiniteSet(vs) /\ c \in Nat
      /\ ws = vs \cup {n + 1} /\ Cardinality(ws) = c + 1
  <2>1. vs \subseteq 1..n /\ ws = vs \cup {n + 1}
    OBVIOUS
  <2>2. IsFiniteSet(vs)
    <3> HIDE DEF vs
    <3>1. IsFiniteSet(1..n)
      BY IntervalIsFinite
    <3> QED BY <2>1, <3>1, FS_Subset
  <2> QED BY <2>1, <2>2, FS_CardinalityType, FS_AddElement
<1>2. PICK s \in SetToSeqs(vs) : Ordered(s)
  BY <1>1 DEF CanBeOrdered
<1> DEFINE t == [i \in 1..(c + 1) |-> IF i = c + 1 THEN n + 1 ELSE s[i]]
<1>3. s \in [1..c -> vs] /\ \A i, j \in 1..c : i # j => s[i] # s[j]
  BY <1>2 DEF SetToSeqs
<1> HIDE DEF vs, c
<1>4. t \in [1..(c + 1) -> ws] /\ \A i, j \in 1..(c + 1) : i # j => t[i] # t[j]
  BY <1>1, <1>3
<1>5. Ordered(t)
  <2>1. \A i, j \in 1..c : i < j => s[i] < s[j]
    BY <1>2, <1>3 DEF Ordered
  <2>2. \A i \in 1..c : s[i] \in 1..n
    BY <1>1, <1>3
  <2>3. \A i, j \in 1..(c + 1) : i < j => t[i] < t[j]
    BY <1>1, <2>1, <2>2
  <2> QED BY <1>1, <2>3 DEF Ordered
<1>6. t \in SetToSeqs(ws)
  BY <1>1, <1>4 DEF SetToSeqs
<1> QED BY <1>5, <1>6

\* So any number of workers can be put in order.
LEMMA AllCanBeOrdered == \A n \in Nat : CanBeOrdered(n)
<1> DEFINE bad == {n \in Nat : ~CanBeOrdered(n)}
<1>1. SUFFICES ASSUME bad # {} PROVE FALSE
  OBVIOUS
<1>2. PICK n \in bad : \A m \in bad : n <= m
  <2> HIDE DEF bad
  <2>1. bad \subseteq Nat
    BY DEF bad
  <2> QED BY <1>1, <2>1, Least
<1>3. CanBeOrdered(0)
  <2>1. \A ws \in SUBSET (1..0) : ws = {}
    OBVIOUS
  <2>2. <<>> \in SetToSeqs({}) /\ Ordered(<<>>)
    BY FS_EmptySet DEF SetToSeqs, Ordered
  <2> QED BY <2>1, <2>2 DEF CanBeOrdered
<1>4. n # 0 /\ n - 1 \in Nat /\ n - 1 \notin bad
  BY <1>2, <1>3
<1>5. CanBeOrdered(n - 1) /\ (n - 1) + 1 = n
  BY <1>4
<1>6. CanBeOrdered(n)
  BY <1>4, <1>5, OneMoreOrdered
<1> QED BY <1>6

\* InOrder lists the workers of a set, as many as there are.
LEMMA InOrderLists ==
  ASSUME WorkerAssumption, NEW ws \in SUBSET Workers
  PROVE  /\ InOrder(ws) \in Seq(ws) /\ InOrder(ws) \in Seq(Workers)
         /\ IsFiniteSet(ws) /\ Len(InOrder(ws)) = Cardinality(ws)
<1>1. Len(Deps) \in Nat /\ Workers = 1..Len(Deps)
  BY DEF WorkerAssumption, Workers
<1>2. \E s \in SetToSeqs(ws) : Ordered(s)
  BY <1>1, AllCanBeOrdered DEF CanBeOrdered
<1>3. InOrder(ws) \in SetToSeqs(ws)
  BY <1>2 DEF InOrder, Ordered
<1>4. IsFiniteSet(ws) /\ Cardinality(ws) \in Nat
  <2>1. IsFiniteSet(1..Len(Deps))
    BY <1>1, IntervalIsFinite
  <2>2. IsFiniteSet(ws)
    BY <1>1, <2>1, FS_Subset
  <2> QED BY <2>2, FS_CardinalityType
<1>5. InOrder(ws) \in [1..Cardinality(ws) -> ws]
  BY <1>3 DEF SetToSeqs
<1> QED BY SMTT(40), <1>4, <1>5

-----------------------------------------------------------------------------
(* The invariant: what the variables are and where a run can be *)

Result == [status: {"none", "succeeded", "failed"}, row: Nat, acts: BOOLEAN, stopped: BOOLEAN]

ResultOK(res) == /\ res \in Result /\ (res.acts => res.status = "succeeded")
                 /\ res.status = "none" => res = Nothing

Attempt == [rule: Rules, status: {"running", "succeeded", "failed", "max_attempts_reached"}]

\* A lane has the row of its worker; a lane has a worker.
Rowed == {"created", "marked", "activating", "entered", "calling", "skipping", "invoking", "ended"}
Manned == {"claimed"} \cup Rowed

Lane == [pc: {"off", "ready", "alive"} \cup Manned, item: Nat, worker: Nat, index: Nat, row: Nat,
         seen: TaskStatus \cup {"none"}, result: Result]

Fields == {"kind", "caller", "base", "wave", "items", "next", "at", "results", "failed", "waiting",
           "pending", "interrupted", "thrown", "done", "latest", "handoff", "proposed", "attempt",
           "todo", "recovered", "result", "seen", "target"}

IsRun(r) ==
  /\ DOMAIN r = Fields
  /\ r.kind \in {"none", "plan", "quality"} /\ r.caller \in {"none", "result", "resume", "quality"}
  /\ {r.base, r.wave, r.next, r.at, r.attempt} \subseteq Nat
  /\ {r.failed, r.waiting, r.pending} \subseteq BOOLEAN
  /\ r.items \in Seq(Workers) /\ r.todo \in Seq(Workers) /\ ResultOK(r.result)
  /\ r.results \in Seq(Result) /\ \A i \in DOMAIN r.results : ResultOK(r.results[i])

Typed ==
  /\ task \in TaskStatus /\ consent \in {"approved", "executed"}
  /\ rows \in Seq(Row) /\ steps \in Nat /\ current \in {0} \cup DOMAIN rows
  /\ open \subseteq DOMAIN rows /\ attempts \in Seq(Attempt)
  /\ starts \in 0..MaxStarts /\ moves \in 0..MaxMoves /\ faults \in 0..MaxFaults

ProcessTyped ==
  IsRun(run) /\ lanes \in [Lanes -> Lane] /\ \A l \in Lanes : ResultOK(lanes[l].result)

\* A backflow is under way but for its worker; a plan is between two workers.
Replays == {"backflow", "refused", "replayed", "completing", "conflict"}
Between == {"waves", "lanes", "handling", "final", "publishing", "consuming"}

Places == pc \in {"off", "lane", "throwing"} \cup Replays \cup Between

\* What happens to r belongs to a wave of the plan.
OfWave(r) == r.kind = "plan" /\ (r.attempt = 0 \/ r.caller = "result")

\* The run is at one of the workers of its wave.
AtWave(r) ==
  /\ r.at < Len(r.items) /\ Len(r.results) = Len(r.items)
  /\ \A i \in 1..Len(r.items) : WaveOf[r.items[i]] = r.wave

InWave == pc \in {"lane", "lanes", "handling"} \cup Replays /\ OfWave(run)

Called(r) == \/ r.kind = "plan" /\ r.caller \in {"resume", "result"}
             \/ r.kind = "quality" /\ r.caller = "quality"

\* What run and pc say about each other.
RunInv ==
  /\ Places
  /\ pc \in {"off"} \cup Between => run.attempt = 0
  /\ pc \in Replays => run.attempt # 0
  /\ pc # "off" => Called(run)
  /\ (pc \in {"waves", "lanes", "handling"} \/ (pc = "lane" /\ run.attempt = 0)) => run.kind = "plan"
  /\ (run.attempt # 0 /\ pc \in {"lane", "refused", "replayed"}) => run.todo # <<>>
  /\ InWave => AtWave(run)
  /\ pc = "lanes" => Parallel(run.wave)
  /\ (pc = "lane" /\ run.attempt = 0) => ~Parallel(run.wave)
  /\ pc = "publishing" => /\ run.seen \notin {"paused", "cancelled", "done"}
                          /\ run.target \in TaskStatus \ {"cancelled"}

\* The attempt a run is in is running.
AttemptInv ==
  run.attempt # 0 =>
    /\ run.attempt \in DOMAIN attempts /\ attempts[run.attempt].status = "running"
    /\ run.kind = "plan" <=> attempts[run.attempt].rule.trigger = "step_failed"

\* What a lane at work knows.
LaneInv ==
  /\ pc \notin {"lane", "lanes"} => lanes = AllOff
  /\ pc = "lane" => \A l \in Lanes : l # 1 => lanes[l].pc = "off"
  /\ \A l \in Lanes : lanes[l].pc \in Manned =>
       /\ lanes[l].worker \in Workers
       /\ run.attempt = 0 => /\ lanes[l].item \in 1..Len(run.items)
                             /\ lanes[l].worker = run.items[lanes[l].item]
  /\ \A l \in Lanes : lanes[l].pc \in Rowed =>
       /\ lanes[l].row \in DOMAIN rows
       /\ rows[lanes[l].row].worker = lanes[l].worker
       /\ rows[lanes[l].row].attempt = run.attempt
       /\ lanes[l].pc = "ended" => lanes[l].result.row = lanes[l].row
       /\ lanes[l].pc = "activating" => lanes[l].seen \notin {"paused", "cancelled", "done"}

IInv == Typed /\ ProcessTyped /\ RunInv /\ AttemptInv /\ LaneInv /\ CancelledIsQuiet

-----------------------------------------------------------------------------
(* What the operators that move a run do *)

\* There is a lane, also for a serial wave, and lanes start off.
LEMMA LaneOne == ASSUME WorkerAssumption PROVE 1 \in Lanes /\ AllOff \in [Lanes -> Lane]
                                         /\ \A l \in Lanes : ResultOK(AllOff[l].result)
BY DEF WorkerAssumption, Lanes, AllOff, Off, Lane, Manned, Nothing, Result, ResultOK

\* The memory of a process without a run has its type.
LEMMA IdleIsRun == ASSUME WorkerAssumption PROVE IsRun(Idle)
BY DEF Idle, IsRun, Fields, Nothing, Result, ResultOK

\* s is r, but for where it is in its wave, how it ends and what its workers gave.
Same(r, s) ==
  /\ s.kind = r.kind /\ s.caller = r.caller /\ s.items = r.items /\ s.results = r.results
  /\ s.waiting = r.waiting

\* The next step of r is at the next result of its wave, or at the next wave.
Onward(r, stop) ==
  \/ pc' = "waves" /\ lanes' = AllOff
  \/ /\ run'.wave = r.wave /\ run'.at = r.at + 1 /\ run'.at < Len(r.items)
     /\ \/ Parallel(r.wave) /\ pc' = "handling" /\ lanes' = AllOff
        \/ ~Parallel(r.wave) /\ ~stop /\ pc' = "lane" /\ lanes' = [AllOff EXCEPT ![1].pc = "ready"]

\* After a result the run is at the next one of its wave, or between waves.
LEMMA ContinueGoesOn ==
  ASSUME NEW r, IsRun(r), r.at < Len(r.items), NEW stop \in BOOLEAN, Continue(r, stop)
  PROVE  /\ IsRun(run') /\ Same(r, run') /\ Onward(r, stop)
         /\ run'.attempt = r.attempt /\ run'.failed = r.failed /\ run'.pending = r.pending
<1> DEFINE on == [r EXCEPT !.at = @ + 1]
           next == [on EXCEPT !.wave = @ + 1]
<1>1. IsRun(on) /\ Same(r, on) /\ on.at = r.at + 1 /\ on.wave = r.wave
      /\ on.attempt = r.attempt /\ on.failed = r.failed /\ on.pending = r.pending
  BY DEF IsRun, Same, Fields
<1> HIDE DEF on
<1>2. IsRun(next) /\ Same(r, next)
      /\ next.attempt = r.attempt /\ next.failed = r.failed /\ next.pending = r.pending
  BY <1>1 DEF IsRun, Same, Fields
<1> HIDE DEF next
<1>3. r.at + 1 # Len(r.items) => r.at + 1 < Len(r.items)
  BY DEF IsRun
<1> QED BY <1>1, <1>2, <1>3 DEF Continue, Onward, on, next

\* What a backflow that ends leaves: the outcome is noted and the caller goes on.
Returned(r, outcome) ==
  /\ IsRun(run') /\ Same(r, run') /\ run'.attempt = 0
  /\ run'.failed = (r.failed \/ outcome = "failed")
  /\ run'.pending = (r.pending \/ outcome = "waiting")
  /\ \/ r.caller = "quality" /\ pc' = "final" /\ lanes' = AllOff
     \/ r.caller # "quality" /\ pc' = "waves" /\ lanes' = AllOff
     \/ r.caller = "result" /\ Onward(r, outcome = "failed")

\* A backflow that ends hands its outcome to whoever called it.
LEMMA ReturnGoesOn ==
  ASSUME NEW r, IsRun(r), r.caller \in {"resume", "result", "quality"},
         r.caller = "result" => r.at < Len(r.items), NEW outcome, Return(r, outcome)
  PROVE  Returned(r, outcome)
<1> DEFINE back == [r EXCEPT !.failed = @ \/ outcome = "failed", !.pending = @ \/ outcome = "waiting",
                             !.attempt = 0, !.todo = <<>>, !.recovered = {}]
<1>1. /\ IsRun(back) /\ Same(r, back) /\ back.attempt = 0 /\ back.at = r.at /\ back.wave = r.wave
      /\ back.failed = (r.failed \/ outcome = "failed")
      /\ back.pending = (r.pending \/ outcome = "waiting")
  BY DEF IsRun, Same, Fields
<1>2. CASE r.caller = "result"
  <2>1. Continue(back, outcome = "failed")
    BY <1>2 DEF Return
  <2> HIDE DEF back
  <2>2. back.at < Len(back.items)
    BY <1>1, <1>2 DEF Same
  <2>3. /\ IsRun(run') /\ Same(back, run') /\ Onward(back, outcome = "failed")
        /\ run'.attempt = back.attempt /\ run'.failed = back.failed /\ run'.pending = back.pending
    BY <1>1, <2>1, <2>2, ContinueGoesOn
  <2> QED BY <1>1, <1>2, <2>3 DEF Returned, Same, Onward
<1>3. CASE r.caller = "resume"
  <2>1. pc' = "waves" /\ run' = back /\ lanes' = AllOff
    BY <1>3 DEF Return
  <2> HIDE DEF back
  <2> QED BY <1>1, <1>3, <2>1 DEF Returned
<1>4. CASE r.caller = "quality"
  <2>1. pc' = "final" /\ run' = back /\ lanes' = AllOff
    BY <1>4 DEF Return, Finish
  <2> HIDE DEF back
  <2> QED BY <1>1, <1>4, <2>1 DEF Returned
<1> QED BY <1>2, <1>3, <1>4

\* What it is to enter the attempt k.
Entered(r, k) ==
  /\ pc' = "backflow" /\ lanes' = AllOff
  /\ IsRun(run') /\ Same(r, run') /\ run'.attempt = k /\ run'.at = r.at /\ run'.wave = r.wave
  /\ run'.failed = r.failed /\ run'.pending = r.pending

\* The path to repeat and what comes after it are lists of workers.
LEMMA ReplayLists ==
  ASSUME WorkerAssumption, NEW rule
  PROVE  Replay(rule) \in Seq(Workers) /\ Downstream(rule) \in Seq(Workers)
BY InOrderLists DEF Replay, Downstream

\* Entering an attempt, new or continued, puts the run before its first worker.
LEMMA EnteringEnters ==
  ASSUME WorkerAssumption, NEW r, IsRun(r), NEW rule, NEW k \in Nat, NEW found,
         pc' = "backflow", lanes' = AllOff, run' = EnterAttempt(r, rule, k, found)
  PROVE  Entered(r, k)
<1> DEFINE todo == Replay(rule) \o (IF rule.trigger = "quality_failed" THEN Downstream(rule) ELSE <<>>)
<1>1. todo \in Seq(Workers)
  BY ReplayLists
<1> HIDE DEF todo
<1> QED BY <1>1 DEF EnterAttempt, Entered, IsRun, Same, Fields, todo

\* The running attempt of a rule, or none.
RunningOf(rule) == {k \in RunningAttempts(rule.trigger) : attempts[k].rule = rule}

\* What a backflow comes to that may not be tried again, is tried, or is continued.
BackflowDone(r, rule) ==
  \/ /\ RunningOf(rule) = {} /\ Returned(r, "failed")
     /\ attempts' = Append(attempts, [rule |-> rule, status |-> "max_attempts_reached"])
  \/ /\ RunningOf(rule) = {} /\ ~(CountAttempts(rule) >= rule.max) /\ Entered(r, Len(attempts) + 1)
     /\ attempts' = Append(attempts, [rule |-> rule, status |-> "running"])
  \/ /\ attempts' = attempts
     /\ \E k \in RunningOf(rule) : Entered(r, k)

\* A backflow continues its running attempt, begins one, or is over its limit.
LEMMA BackflowGoesOn ==
  ASSUME WorkerAssumption, attempts \in Seq(Attempt), NEW r, IsRun(r), NEW rule,
         r.caller \in {"resume", "result", "quality"},
         r.caller = "result" => r.at < Len(r.items), Backflow(r, rule)
  PROVE  BackflowDone(r, rule)
<1>1. CASE RunningOf(rule) = {} /\ CountAttempts(rule) >= rule.max
  <2>1. /\ attempts' = Append(attempts, [rule |-> rule, status |-> "max_attempts_reached"])
        /\ Return(r, "failed")
    BY <1>1 DEF Backflow, RunningOf
  <2>2. Returned(r, "failed")
    BY <2>1, ReturnGoesOn
  <2> QED BY <1>1, <2>1, <2>2 DEF BackflowDone
<1>2. CASE RunningOf(rule) = {} /\ ~(CountAttempts(rule) >= rule.max)
  <2>1. /\ attempts' = Append(attempts, [rule |-> rule, status |-> "running"])
        /\ run' = EnterAttempt(r, rule, Len(attempts) + 1, CompletedHandoffs(Len(attempts) + 1))
        /\ pc' = "backflow" /\ lanes' = AllOff
    BY <1>2 DEF Backflow, RunningOf
  <2>2. Entered(r, Len(attempts) + 1)
    BY <2>1, EnteringEnters
  <2> QED BY <1>2, <2>1, <2>2 DEF BackflowDone
<1>3. CASE RunningOf(rule) # {}
  <2> DEFINE k == Min(RunningOf(rule))
  <2>1. /\ attempts' = attempts /\ run' = EnterAttempt(r, rule, k, CompletedHandoffs(k))
        /\ pc' = "backflow" /\ lanes' = AllOff
    BY <1>3 DEF Backflow, RunningOf
  <2>2. RunningOf(rule) \subseteq Nat
    BY DEF RunningOf, RunningAttempts
  <2>3. k \in RunningOf(rule)
    BY <1>3, <2>2, MinIsLeast
  <2>4. Entered(r, k)
    <3> HIDE DEF k
    <3> QED BY <2>1, <2>2, <2>3, EnteringEnters
  <2> QED BY <2>1, <2>3, <2>4 DEF BackflowDone
<1> QED BY <1>1, <1>2, <1>3

\* The run goes on after a backflow: r is what it knows, as far as it matters here.
Resumable(r) == IsRun(r) /\ Called(r) /\ (r.caller = "result" => AtWave(r))

ReadyLanes == [AllOff EXCEPT ![1].pc = "ready"]

\* Lanes that are off, or of which the first is about to take a worker, know nothing yet.
LEMMA LanesAtRest ==
  ASSUME WorkerAssumption, lanes' \in {AllOff, ReadyLanes, [AllOff EXCEPT ![1].pc = "alive"]}
  PROVE  /\ lanes' \in [Lanes -> Lane] /\ \A l \in Lanes : ResultOK(lanes'[l].result)
         /\ \A l \in Lanes : lanes'[l].pc \notin Manned \cup Rowed
         /\ \A l \in Lanes : l # 1 => lanes'[l].pc = "off"
         /\ lanes' # AllOff => lanes'[1].pc \in {"ready", "alive"}
<1> DEFINE at(p) == [pc |-> p, item |-> 0, worker |-> 0, index |-> 0, row |-> 0, seen |-> "none",
                     result |-> Nothing]
<1>1. 1 \in Lanes /\ ResultOK(Nothing) /\ Nothing \in Result
  BY LaneOne DEF Nothing, Result, ResultOK
<1>2. PICK p \in {"off", "ready", "alive"} :
        lanes' = [l \in Lanes |-> IF l = 1 THEN at(p) ELSE at("off")]
  <2>1. CASE lanes' = AllOff
    BY <2>1 DEF AllOff, Off
  <2>2. CASE lanes' = ReadyLanes
    BY SMTT(40), <2>2 DEF AllOff, Off, ReadyLanes
  <2>3. CASE lanes' = [AllOff EXCEPT ![1].pc = "alive"]
    BY SMTT(40), <2>3 DEF AllOff, Off
  <2> QED BY <2>1, <2>2, <2>3
<1>3. at(p) \in Lane /\ at("off") \in Lane /\ p \notin Manned \cup Rowed
      /\ "off" \notin Manned \cup Rowed
  BY <1>1, <1>2 DEF Lane, Manned, Rowed
<1>4. lanes' # AllOff => p # "off"
  BY <1>2 DEF AllOff, Off
<1> QED BY <1>1, <1>2, <1>3, <1>4

\* What of the invariant is about the run itself.
Process == ProcessTyped /\ RunInv /\ AttemptInv /\ LaneInv

\* The end of a backflow keeps what is about the run itself.
LEMMA ReturnKeeps ==
  ASSUME WorkerAssumption, NEW r, Resumable(r), NEW outcome, Returned(r, outcome)
  PROVE  Process'
<1>1. /\ IsRun(run') /\ run'.attempt = 0 /\ run'.kind = r.kind /\ run'.caller = r.caller
      /\ pc' \in {"waves", "final", "handling", "lane"} /\ lanes' \in {AllOff, ReadyLanes}
      /\ pc' # "lane" => lanes' = AllOff
      /\ pc' \in {"waves", "handling", "lane"} => r.caller # "quality"
  BY DEF Returned, Same, Onward, ReadyLanes
<1>2. pc' \in {"handling", "lane"} => /\ AtWave(run')
                                      /\ pc' = "lane" => ~Parallel(run'.wave)
  BY DEF Returned, Onward, Same, Resumable, AtWave
<1>3. ProcessTyped'
  BY <1>1, LanesAtRest DEF ProcessTyped
<1>4. RunInv'
  <2>1. Called(run') /\ (pc' # "final" => run'.kind = "plan")
    BY <1>1 DEF Called, Resumable
  <2> QED BY <1>1, <1>2, <2>1 DEF RunInv, Places, Replays, Between, InWave, OfWave
<1>5. AttemptInv'
  BY <1>1 DEF AttemptInv
<1>6. LaneInv'
  BY <1>1, LanesAtRest DEF LaneInv
<1> QED BY <1>3, <1>4, <1>5, <1>6 DEF Process

\* So does the beginning of one, if the attempt it enters is running.
LEMMA EnterKeeps ==
  ASSUME WorkerAssumption, NEW r, Resumable(r), NEW k \in Nat \ {0}, Entered(r, k),
         k \in DOMAIN attempts', attempts'[k].status = "running",
         r.kind = "plan" <=> attempts'[k].rule.trigger = "step_failed"
  PROVE  Process'
<1>1. /\ IsRun(run') /\ run'.attempt = k /\ run'.kind = r.kind /\ run'.caller = r.caller
      /\ pc' = "backflow" /\ lanes' = AllOff
  BY DEF Entered, Same
<1>2. run'.caller = "result" => AtWave(run')
  BY DEF Entered, Same, Resumable, AtWave
<1>3. ProcessTyped'
  BY <1>1, LanesAtRest DEF ProcessTyped
<1>4. RunInv'
  BY <1>1, <1>2 DEF RunInv, Places, Replays, Between, InWave, OfWave, Called, Resumable
<1>5. AttemptInv'
  BY <1>1 DEF AttemptInv
<1>6. LaneInv'
  BY <1>1, LanesAtRest DEF LaneInv
<1> QED BY <1>3, <1>4, <1>5, <1>6 DEF Process

\* So does the choice between them.
LEMMA BackflowKeeps ==
  ASSUME WorkerAssumption, attempts \in Seq(Attempt), NEW r, Resumable(r), NEW rule \in Rules,
         r.kind = "plan" <=> rule.trigger = "step_failed", Backflow(r, rule)
  PROVE  Process' /\ attempts' \in Seq(Attempt)
<1>1. BackflowDone(r, rule)
  <2>1. r.caller \in {"resume", "result", "quality"} /\ (r.caller = "result" => r.at < Len(r.items))
    BY DEF Resumable, Called, AtWave
  <2> QED BY <2>1, BackflowGoesOn DEF Resumable
<1>2. CASE /\ Returned(r, "failed")
           /\ attempts' = Append(attempts, [rule |-> rule, status |-> "max_attempts_reached"])
  BY <1>2, ReturnKeeps DEF Attempt
<1>3. CASE /\ Entered(r, Len(attempts) + 1)
           /\ attempts' = Append(attempts, [rule |-> rule, status |-> "running"])
  <2>1. attempts' \in Seq(Attempt)
    BY <1>3 DEF Attempt
  <2>2. /\ Len(attempts) + 1 \in Nat \ {0} /\ Len(attempts) + 1 \in DOMAIN attempts'
        /\ attempts'[Len(attempts) + 1] = [rule |-> rule, status |-> "running"]
    BY <1>3
  <2> QED BY <1>3, <2>1, <2>2, EnterKeeps
<1>4. CASE attempts' = attempts /\ \E k \in RunningOf(rule) : Entered(r, k)
  <2>1. PICK k \in RunningOf(rule) : Entered(r, k)
    BY <1>4
  <2>2. k \in Nat \ {0} /\ k \in DOMAIN attempts' /\ attempts'[k].status = "running"
        /\ attempts'[k].rule = rule
    BY <1>4 DEF RunningOf, RunningAttempts
  <2> QED BY <1>4, <2>1, <2>2, EnterKeeps
<1> QED BY <1>1, <1>2, <1>3, <1>4 DEF BackflowDone

-----------------------------------------------------------------------------
(* Every step keeps the invariant *)

\* A run between two steps that no lane has a part in.
LEMMA RestKeeps ==
  ASSUME WorkerAssumption, IsRun(run'), lanes' = AllOff, run'.attempt = 0,
         pc' \in {"off", "waves", "final", "publishing", "consuming", "throwing"},
         pc' # "off" => Called(run'), pc' = "waves" => run'.kind = "plan",
         pc' = "publishing" => /\ run'.seen \notin {"paused", "cancelled", "done"}
                               /\ run'.target \in TaskStatus \ {"cancelled"}
  PROVE  Process'
<1>1. ProcessTyped'
  BY LanesAtRest DEF ProcessTyped
<1>2. RunInv'
  BY DEF RunInv, Places, Replays, Between, InWave
<1>3. AttemptInv' /\ LaneInv'
  BY LanesAtRest DEF AttemptInv, LaneInv
<1> QED BY <1>1, <1>2, <1>3 DEF Process

\* An error, from anywhere, keeps it.
LEMMA ThrowKeeps ==
  ASSUME WorkerAssumption, Process, pc # "off", Throw, UNCHANGED <<run, attempts>>
  PROVE  Process'
<1>1. pc' = "throwing" /\ lanes' = AllOff /\ run' = run /\ attempts' = attempts
  BY DEF Throw
<1>2. ProcessTyped'
  BY <1>1, LanesAtRest DEF ProcessTyped, Process
<1>3. RunInv'
  BY <1>1 DEF RunInv, Places, Replays, Between, InWave, Process, Called
<1>4. AttemptInv' /\ LaneInv'
  BY <1>1, LanesAtRest DEF AttemptInv, LaneInv, Process
<1> QED BY <1>2, <1>3, <1>4 DEF Process

\* A run in a backflow, or at a result, can go on to whoever called it.
LEMMA ReplayIsResumable ==
  ASSUME Process, pc \in Replays \cup {"handling"}
  PROVE  Resumable(run)
BY DEF Process, ProcessTyped, RunInv, Resumable, Called, InWave, OfWave, Between, Replays

\* The end of a backflow whose run can go on.
LEMMA RunReturns ==
  ASSUME WorkerAssumption, NEW r, Resumable(r), NEW outcome, Return(r, outcome)
  PROVE  Returned(r, outcome) /\ Process'
<1>1. Returned(r, outcome)
  BY ReturnGoesOn DEF Resumable, Called, AtWave
<1> QED BY <1>1, ReturnKeeps

\* The attempt of the run gets another status.
LEMMA StatusIsSet ==
  ASSUME attempts \in Seq(Attempt), NEW to \in {"succeeded", "failed"},
         attempts' = [attempts EXCEPT ![run.attempt].status = to]
  PROVE  /\ attempts' \in Seq(Attempt) /\ DOMAIN attempts' = DOMAIN attempts
         /\ \A k \in DOMAIN attempts : attempts'[k].rule = attempts[k].rule
         /\ \A k \in DOMAIN attempts :
              attempts'[k].status = IF k = run.attempt THEN to ELSE attempts[k].status
<1> DEFINE set(a) == [a EXCEPT !.status = to]
           k0 == run.attempt
<1>1. \A a \in Attempt : set(a) \in Attempt /\ set(a).rule = a.rule /\ set(a).status = to
  BY DEF Attempt
<1>2. attempts' = [attempts EXCEPT ![k0] = set(attempts[k0])]
  OBVIOUS
<1> HIDE DEF set, k0
<1>3. DOMAIN attempts = 1..Len(attempts) /\ Len(attempts) \in Nat
      /\ \A k \in DOMAIN attempts : attempts[k] \in Attempt
  OBVIOUS
<1>4. attempts' = [k \in 1..Len(attempts) |-> IF k = k0 THEN set(attempts[k0]) ELSE attempts[k]]
  BY <1>2, <1>3
<1>5. \A k \in 1..Len(attempts) : attempts'[k] \in Attempt
  BY <1>1, <1>3, <1>4
<1>6. attempts' \in [1..Len(attempts) -> Attempt]
  BY <1>4, <1>5
<1>7. attempts' \in Seq(Attempt) /\ DOMAIN attempts' = DOMAIN attempts
  BY <1>3, <1>6
<1> QED BY <1>1, <1>3, <1>4, <1>7 DEF k0

\* An attempt that is recorded as failed leaves the attempts well typed.
LEMMA FailingIsTyped ==
  ASSUME attempts \in Seq(Attempt), FailAttempt
  PROVE  attempts' \in Seq(Attempt)
BY StatusIsSet DEF FailAttempt

\* What a step of a backflow leaves alone.
Aside == <<task, consent, rows, steps, current, open, bounds>>

\* A step of a backflow writes no row, so it keeps the rest of the invariant.
LEMMA AsideKeeps ==
  ASSUME IInv, UNCHANGED Aside, Process', attempts' \in Seq(Attempt)
  PROVE  IInv'
BY DEF IInv, Process, Aside, Typed, CancelledIsQuiet, bounds

\* A backflow that waits for proposals keeps the invariant; its attempt stays running.
LEMMA SuspendKeeps ==
  ASSUME WorkerAssumption, IInv, pc \in Replays, Suspend
  PROVE  Process' /\ attempts' \in Seq(Attempt)
<1>1. Resumable(run) /\ attempts \in Seq(Attempt)
  BY ReplayIsResumable DEF IInv, Process, Typed
<1>2. CASE FailAttempt /\ Return(run, "failed")
  BY <1>1, <1>2, FailingIsTyped, RunReturns
<1>3. CASE UNCHANGED attempts /\ Return(run, "waiting")
  BY <1>1, <1>3, RunReturns
<1> QED BY <1>2, <1>3 DEF Suspend


\* The backflow goes on to its next worker with what the run knows now.
LEMMA GoingOnKeeps ==
  ASSUME WorkerAssumption, Process, pc \in Replays, Entered(run, run.attempt), attempts' = attempts
  PROVE  Process'
<1>1. /\ run.attempt \in DOMAIN attempts /\ attempts[run.attempt].status = "running"
      /\ run.kind = "plan" <=> attempts[run.attempt].rule.trigger = "step_failed"
      /\ run.attempt \in Nat \ {0}
  BY DEF Process, ProcessTyped, RunInv, AttemptInv, IsRun
<1> QED BY <1>1, ReplayIsResumable, EnterKeeps

\* It stays in its attempt, at another place, as it is.
LEMMA StayingKeeps ==
  ASSUME WorkerAssumption, Process, pc \in Replays, UNCHANGED <<run, attempts>>,
         \/ pc' \in Replays /\ lanes' = AllOff
         \/ pc' = "lane" /\ lanes' = [AllOff EXCEPT ![1].pc = "alive"],
         pc' \in {"lane", "refused", "replayed"} => run.todo # <<>>
  PROVE  Process'
<1>1. run.attempt # 0
  BY DEF Process, RunInv
<1>2. ProcessTyped'
  BY LanesAtRest DEF Process, ProcessTyped
<1>3. RunInv'
  BY <1>1 DEF Process, RunInv, Places, Replays, Between, InWave, Called, OfWave, AtWave
<1>4. AttemptInv' /\ LaneInv'
  BY LanesAtRest DEF Process, AttemptInv, LaneInv, Replays
<1> QED BY <1>2, <1>3, <1>4 DEF Process

\* The choice of the next worker to repeat keeps the invariant.
LEMMA NextReplayKeeps ==
  ASSUME WorkerAssumption, IInv, NextReplay
  PROVE  IInv'
<1> SUFFICES Process' /\ attempts' \in Seq(Attempt)
  BY AsideKeeps DEF NextReplay, Aside
<1>1. Process /\ attempts \in Seq(Attempt) /\ pc \in Replays /\ IsRun(run) /\ lanes = AllOff
  BY DEF IInv, Process, ProcessTyped, Typed, NextReplay, Replays, LaneInv
<1>2. CASE Suspend
  BY <1>1, <1>2, SuspendKeeps
<1>3. CASE /\ run.todo # <<>> /\ UNCHANGED attempts
           /\ run' = [run EXCEPT !.todo = Tail(@)] /\ UNCHANGED <<pc, lanes>>
  <2>1. Tail(run.todo) \in Seq(Workers)
    BY <1>1, <1>3 DEF IsRun
  <2>2. Entered(run, run.attempt)
    BY <1>1, <1>3, <2>1 DEF Entered, Same, IsRun, Fields, NextReplay
  <2> QED BY <1>1, <1>3, <2>2, GoingOnKeeps
<1>4. CASE /\ run.todo # <<>> /\ UNCHANGED attempts
           /\ pc' = "lane" /\ lanes' = [AllOff EXCEPT ![1].pc = "alive"] /\ UNCHANGED run
  BY <1>1, <1>4, StayingKeeps
<1>5. CASE pc' = "completing" /\ UNCHANGED <<attempts, run, lanes>>
  BY <1>1, <1>5, StayingKeeps DEF Replays
<1> QED BY <1>2, <1>3, <1>4, <1>5 DEF NextReplay

\* A repeated worker that may not start ends or suspends the backflow.
LEMMA ReplayRefusedKeeps ==
  ASSUME WorkerAssumption, IInv, ReplayRefused
  PROVE  IInv'
<1> SUFFICES Process' /\ attempts' \in Seq(Attempt)
  BY AsideKeeps DEF ReplayRefused, Aside
<1>1. Process /\ attempts \in Seq(Attempt) /\ pc \in Replays
  BY DEF IInv, Process, Typed, ReplayRefused, Replays
<1>2. CASE Suspend
  BY <1>1, <1>2, SuspendKeeps
<1>3. CASE FailAttempt /\ Return(run, "failed")
  BY <1>1, <1>3, FailingIsTyped, ReplayIsResumable, RunReturns
<1> QED BY <1>2, <1>3 DEF ReplayRefused

\* What appendBackflowResult makes of the run.
Appended(r) == /\ IsRun(r) /\ Same(run, r) /\ r.attempt = run.attempt /\ r.at = run.at
               /\ r.wave = run.wave /\ r.failed = run.failed /\ r.pending = run.pending

\* A run that took in the result of a repeated worker can go on.
LEMMA AppendedIsResumable ==
  ASSUME Resumable(run), NEW r, Appended(r)
  PROVE  Resumable(r)
BY DEF Appended, Resumable, Same, Called, AtWave

\* The result of a repeated worker is taken in; a failure fails the attempt.
LEMMA ReplayResultAppends ==
  ASSUME IInv, ReplayResult
  PROVE  \E r : /\ Appended(r)
                /\ \/ pc' = "backflow" /\ run' = r /\ UNCHANGED <<attempts, lanes>>
                   \/ FailAttempt /\ Return(r, "failed")
<1> DEFINE w == Head(run.todo)
           good == run.result.status = "succeeded"
           r == [run EXCEPT !.todo = Tail(@), !.latest[w] = run.result.status,
                            !.done = IF good THEN @ \cup {w} ELSE @ \ {w},
                            !.handoff[w] = IF good THEN run.result.row ELSE @,
                            !.interrupted = @ \/ run.result.stopped,
                            !.result = Nothing]
<1>1. IsRun(run) /\ run.todo # <<>>
  BY DEF IInv, ProcessTyped, RunInv, Replays, ReplayResult
<1>2. Tail(run.todo) \in Seq(Workers) /\ ResultOK(Nothing)
  BY <1>1 DEF IsRun, ResultOK, Nothing, Result
<1>3. Appended(r)
  BY <1>1, <1>2 DEF Appended, IsRun, Same, Fields
<1> HIDE DEF r
<1> QED BY <1>3 DEF ReplayResult, r

\* Handling the result of a repeated worker keeps the invariant.
LEMMA ReplayResultKeeps ==
  ASSUME WorkerAssumption, IInv, ReplayResult
  PROVE  IInv'
<1> SUFFICES Process' /\ attempts' \in Seq(Attempt)
  BY AsideKeeps DEF ReplayResult, Aside
<1>1. Process /\ attempts \in Seq(Attempt) /\ pc \in Replays /\ lanes = AllOff
  BY DEF IInv, Process, Typed, ReplayResult, Replays, LaneInv
<1>2. PICK r : /\ Appended(r)
               /\ \/ pc' = "backflow" /\ run' = r /\ UNCHANGED <<attempts, lanes>>
                  \/ FailAttempt /\ Return(r, "failed")
  BY ReplayResultAppends
<1>3. CASE pc' = "backflow" /\ run' = r /\ UNCHANGED <<attempts, lanes>>
  <2>1. Entered(run, run.attempt)
    BY <1>1, <1>2, <1>3 DEF Entered, Appended
  <2> QED BY <1>1, <1>3, <2>1, GoingOnKeeps
<1>4. CASE FailAttempt /\ Return(r, "failed")
  <2>1. Resumable(r)
    BY <1>1, <1>2, ReplayIsResumable, AppendedIsResumable
  <2> QED BY <1>1, <1>4, <2>1, FailingIsTyped, RunReturns
<1> QED BY <1>2, <1>3, <1>4

\* The compare-and-swap that completes an attempt keeps the invariant.
LEMMA CompleteAttemptKeeps ==
  ASSUME WorkerAssumption, IInv, CompleteAttempt
  PROVE  IInv'
<1> SUFFICES Process' /\ attempts' \in Seq(Attempt)
  BY AsideKeeps DEF CompleteAttempt, Aside
<1>1. Process /\ attempts \in Seq(Attempt) /\ pc \in Replays /\ lanes = AllOff
  BY DEF IInv, Process, Typed, CompleteAttempt, Replays, LaneInv
<1>2. CASE /\ attempts[run.attempt].status = "running" /\ Return(run, "succeeded")
           /\ attempts' = [attempts EXCEPT ![run.attempt].status = "succeeded"]
  BY <1>1, <1>2, StatusIsSet, ReplayIsResumable, RunReturns
<1>3. CASE pc' = "conflict" /\ UNCHANGED <<attempts, run, lanes>>
  BY <1>1, <1>3, StayingKeeps DEF Replays
<1> QED BY <1>2, <1>3 DEF CompleteAttempt

\* So does its refusal, when a pause or a cancellation came first.
LEMMA CompletionConflictKeeps ==
  ASSUME WorkerAssumption, IInv, CompletionConflict
  PROVE  IInv'
<1> SUFFICES Process' /\ attempts' \in Seq(Attempt)
  BY AsideKeeps DEF CompletionConflict, Aside
<1>1. Process /\ attempts \in Seq(Attempt) /\ pc \in Replays /\ pc # "off"
  BY DEF IInv, Process, Typed, CompletionConflict, Replays
<1>2. CASE Suspend
  BY <1>1, <1>2, SuspendKeeps
<1>3. CASE Throw /\ UNCHANGED <<attempts, run>>
  BY <1>1, <1>3, ThrowKeeps
<1> QED BY <1>2, <1>3 DEF CompletionConflict

-----------------------------------------------------------------------------
(* Runs begin, go from wave to wave and end *)

\* A run that begins knows of no failure and waits for nothing.
LEMMA IdleStarts ==
  ASSUME WorkerAssumption, NEW kind \in {"plan", "quality"}, NEW caller \in {"resume", "quality"},
         kind = "plan" <=> caller = "resume", steps \in Nat,
         NEW r, NEW f, NEW d, NEW g,
         \/ r = [Idle EXCEPT !.kind = kind, !.caller = caller, !.base = steps]
         \/ r = [Idle EXCEPT !.kind = kind, !.base = steps, !.handoff = f, !.caller = caller,
                             !.done = d, !.latest = g]
  PROVE  /\ IsRun(r) /\ Resumable(r) /\ r.kind = kind /\ r.caller = caller
         /\ r.attempt = 0 /\ r.failed = FALSE /\ r.pending = FALSE /\ r.waiting = FALSE
<1>1. /\ IsRun(Idle) /\ Idle.attempt = 0
      /\ Idle.failed = FALSE /\ Idle.pending = FALSE /\ Idle.waiting = FALSE
  BY IdleIsRun DEF Idle
<1>2. CASE r = [Idle EXCEPT !.kind = kind, !.caller = caller, !.base = steps]
  <2>1. IsRun(r) /\ r.kind = kind /\ r.caller = caller
        /\ r.attempt = 0 /\ r.failed = FALSE /\ r.pending = FALSE /\ r.waiting = FALSE
    BY <1>1, <1>2 DEF IsRun, Fields
  <2> QED BY <2>1 DEF Resumable, Called
<1>3. CASE r = [Idle EXCEPT !.kind = kind, !.base = steps, !.handoff = f, !.caller = caller,
                            !.done = d, !.latest = g]
  <2>1. IsRun(r) /\ r.kind = kind /\ r.caller = caller
        /\ r.attempt = 0 /\ r.failed = FALSE /\ r.pending = FALSE /\ r.waiting = FALSE
    BY <1>1, <1>3 DEF IsRun, Fields
  <2> QED BY <2>1 DEF Resumable, Called
<1> QED BY <1>2, <1>3

\* Making a task active never takes a cancellation back.
LEMMA ActiveIsTyped ==
  ASSUME NEW status \in {"running", "blocked", "waiting_for_approval"}, SetActive(status),
         task \in TaskStatus
  PROVE  task' \in TaskStatus /\ (task' = "cancelled" => task = "cancelled")
BY DEF SetActive, TaskStatus

\* The rule of the attempt that a new run continues.
LEMMA ContinuedRule ==
  ASSUME attempts \in Seq(Attempt), NEW trigger, RunningAttempts(trigger) # {}
  PROVE  /\ Min(RunningAttempts(trigger)) \in RunningAttempts(trigger)
         /\ attempts[Min(RunningAttempts(trigger))].rule \in Rules
         /\ attempts[Min(RunningAttempts(trigger))].rule.trigger = trigger
<1>1. RunningAttempts(trigger) \subseteq Nat
  BY DEF RunningAttempts
<1>2. Min(RunningAttempts(trigger)) \in RunningAttempts(trigger)
  BY <1>1, MinIsLeast
<1>3. \A k \in RunningAttempts(trigger) : attempts[k] \in Attempt /\ attempts[k].rule.trigger = trigger
  BY DEF RunningAttempts
<1>4. \A a \in Attempt : a.rule \in Rules
  BY DEF Attempt
<1> QED BY <1>2, <1>3, <1>4

\* How a plan's run begins.
FreshPlan(r) == /\ IsRun(r) /\ Resumable(r) /\ r.kind = "plan" /\ r.caller = "resume"
                /\ r.attempt = 0 /\ r.failed = FALSE /\ r.pending = FALSE /\ r.waiting = FALSE

\* A plan's run is refused, continues the oldest running repair, or begins with its waves.
LEMMA StartPlanStarts ==
  ASSUME WorkerAssumption, steps \in Nat, StartPlan
  PROVE  \/ UNCHANGED <<attempts, process, starts>>
            /\ \E status \in {"blocked", "waiting_for_approval"} : SetActive(status)
         \/ /\ FailedRepairs = {} /\ open = {} /\ SetActive("running")
            /\ starts < MaxStarts /\ starts' = starts + 1
            /\ \E r : /\ FreshPlan(r)
                      /\ \/ /\ RunningAttempts("step_failed") # {}
                            /\ Backflow(r, attempts[Min(RunningAttempts("step_failed"))].rule)
                         \/ /\ RunningAttempts("step_failed") = {}
                            /\ pc' = "waves" /\ run' = r /\ UNCHANGED <<attempts, lanes>>
<1>1. CASE FailedRepairs = {} /\ open = {}
  <2> DEFINE found == CompletedHandoffs(0)
             r == [Idle EXCEPT
                  !.kind = "plan", !.base = steps, !.handoff = found, !.caller = "resume",
                  !.done = {w \in Workers : found[w] # 0},
                  !.latest = [w \in Workers |-> IF found[w] # 0 THEN "succeeded" ELSE "none"]]
  <2>1. FreshPlan(r)
    <3> DEFINE d == {w \in Workers : found[w] # 0}
               g == [w \in Workers |-> IF found[w] # 0 THEN "succeeded" ELSE "none"]
    <3>1. r = [Idle EXCEPT !.kind = "plan", !.base = steps, !.handoff = found, !.caller = "resume",
                           !.done = d, !.latest = g]
      OBVIOUS
    <3> HIDE DEF found, d, g, r
    <3> QED BY <3>1, IdleStarts DEF FreshPlan
  <2> HIDE DEF r
  <2>2. /\ FailedRepairs = {} /\ open = {} /\ SetActive("running")
        /\ starts < MaxStarts /\ starts' = starts + 1
        /\ \/ /\ RunningAttempts("step_failed") # {}
              /\ Backflow(r, attempts[Min(RunningAttempts("step_failed"))].rule)
           \/ /\ RunningAttempts("step_failed") = {}
              /\ pc' = "waves" /\ run' = r /\ UNCHANGED <<attempts, lanes>>
    BY <1>1 DEF StartPlan, r
  <2> QED BY <2>1, <2>2
<1> QED BY <1>1 DEF StartPlan

\* The start of a plan's run keeps the invariant.
LEMMA StartPlanKeeps ==
  ASSUME WorkerAssumption, IInv, StartPlan
  PROVE  IInv'
<1>1. /\ UNCHANGED <<consent, rows, steps, open, moves, faults>> /\ current' = 0
      /\ lanes = AllOff /\ pc = "off"
  BY DEF StartPlan, IInv, LaneInv
<1>2. SUFFICES /\ task' \in TaskStatus /\ (task' = "cancelled" => task = "cancelled")
               /\ starts' \in 0..MaxStarts /\ attempts' \in Seq(Attempt) /\ Process'
  BY <1>1 DEF IInv, Typed, Process, CancelledIsQuiet
<1>3. /\ attempts \in Seq(Attempt) /\ task \in TaskStatus /\ steps \in Nat
      /\ starts \in 0..MaxStarts /\ MaxStarts \in Nat /\ Process
  BY DEF IInv, Typed, Process, WorkerAssumption
<1>4. CASE UNCHANGED <<attempts, process, starts>>
           /\ \E status \in {"blocked", "waiting_for_approval"} : SetActive(status)
  <2>1. Process'
    BY <1>1, <1>3, <1>4 DEF Process, ProcessTyped, RunInv, Places, InWave, AttemptInv, LaneInv, process
  <2> QED BY <1>3, <1>4, <2>1, ActiveIsTyped
<1>5. ASSUME SetActive("running"), starts < MaxStarts, starts' = starts + 1, NEW r, FreshPlan(r),
             \/ /\ RunningAttempts("step_failed") # {}
                /\ Backflow(r, attempts[Min(RunningAttempts("step_failed"))].rule)
             \/ pc' = "waves" /\ run' = r /\ UNCHANGED <<attempts, lanes>>
      PROVE  /\ task' \in TaskStatus /\ (task' = "cancelled" => task = "cancelled")
             /\ starts' \in 0..MaxStarts /\ attempts' \in Seq(Attempt) /\ Process'
  <2>1. starts' \in 0..MaxStarts /\ task' \in TaskStatus /\ (task' = "cancelled" => task = "cancelled")
    BY <1>3, <1>5, ActiveIsTyped
  <2>2. CASE /\ RunningAttempts("step_failed") # {}
             /\ Backflow(r, attempts[Min(RunningAttempts("step_failed"))].rule)
    BY <1>3, <1>5, <2>1, <2>2, ContinuedRule, BackflowKeeps DEF FreshPlan
  <2>3. CASE pc' = "waves" /\ run' = r /\ UNCHANGED <<attempts, lanes>>
    BY <1>1, <1>3, <1>5, <2>1, <2>3, RestKeeps DEF FreshPlan, Called
  <2> QED BY <1>5, <2>2, <2>3
<1> QED BY <1>3, <1>4, <1>5, StartPlanStarts

\* The backflow of a failed gate starts from nothing.
FreshQuality(r) == /\ IsRun(r) /\ Resumable(r) /\ r.kind = "quality" /\ r.caller = "quality"
                   /\ r.attempt = 0 /\ r.failed = FALSE /\ r.pending = FALSE

\* The backflow of a failed gate begins from a run that knows nothing.
LEMMA BackflowStarts ==
  ASSUME WorkerAssumption, steps \in Nat, NEW rule, StartBackflow(rule)
  PROVE  \E r : FreshQuality(r) /\ Backflow(r, rule)
<1> DEFINE r == [Idle EXCEPT !.kind = "quality", !.caller = "quality", !.base = steps]
<1>1. FreshQuality(r)
  BY IdleStarts DEF FreshQuality
<1> HIDE DEF r
<1> QED BY <1>1 DEF StartBackflow, r

\* It keeps the invariant.
LEMMA StartBackflowKeeps ==
  ASSUME WorkerAssumption, IInv, NEW rule \in Rules, rule.trigger = "quality_failed",
         StartBackflow(rule), UNCHANGED <<consent, rows, steps, current, open, moves, faults>>
  PROVE  IInv'
<1>1. /\ attempts \in Seq(Attempt) /\ task \in TaskStatus /\ steps \in Nat
      /\ starts \in 0..MaxStarts /\ MaxStarts \in Nat /\ Process
  BY DEF IInv, Typed, Process, WorkerAssumption
<1>2. PICK r : FreshQuality(r) /\ Backflow(r, rule)
  BY <1>1, BackflowStarts
<1>3. Process' /\ attempts' \in Seq(Attempt)
  BY <1>1, <1>2, BackflowKeeps DEF FreshQuality
<1>4. starts' \in 0..MaxStarts /\ task' \in TaskStatus /\ (task' = "cancelled" => task = "cancelled")
  BY <1>1, ActiveIsTyped DEF StartBackflow
<1> QED BY <1>3, <1>4 DEF IInv, Typed, Process, CancelledIsQuiet

\* A failed gate that starts a backflow keeps the invariant.
LEMMA QualityFailsKeeps ==
  ASSUME WorkerAssumption, IInv, QualityFails
  PROVE  IInv'
BY StartBackflowKeeps DEF QualityFails, QualityRules

\* So does the continuation of a suspended one.
LEMMA ResumeQualityKeeps ==
  ASSUME WorkerAssumption, IInv, ResumeQuality
  PROVE  IInv'
<1>1. attempts \in Seq(Attempt) /\ task \in TaskStatus
  BY DEF IInv, Typed
<1>2. CASE /\ RunningAttempts("quality_failed") # {}
           /\ StartBackflow(attempts[Min(RunningAttempts("quality_failed"))].rule)
  BY <1>1, <1>2, ContinuedRule, StartBackflowKeeps DEF ResumeQuality
<1>3. CASE SetActive("blocked") /\ UNCHANGED <<attempts, process, starts>>
  <2>1. Process'
    BY <1>3 DEF IInv, Process, ProcessTyped, RunInv, Places, InWave, AttemptInv, LaneInv, process,
                ResumeQuality
  <2> QED BY <1>1, <1>3, <2>1, ActiveIsTyped DEF IInv, Typed, Process, CancelledIsQuiet, ResumeQuality
<1> QED BY <1>2, <1>3 DEF ResumeQuality

\* After a wave the run ends, or enters the first wave with workers left to do.
LEMMA NextWaveGoesOn ==
  ASSUME WorkerAssumption, Process, NextWave
  PROVE  \/ pc' = "final" /\ run' = run /\ lanes' = AllOff
         \/ /\ pc' = "waves" /\ lanes' = lanes
            /\ IsRun(run') /\ Same(run, run') /\ run'.attempt = run.attempt
            /\ run'.failed = run.failed /\ run'.pending = run.pending
            /\ ~(run.pending \/ run.failed \/ run.waiting)
         \/ /\ ~(run.pending \/ run.failed \/ run.waiting) /\ Active
            /\ pc' = IF Parallel(run.wave) THEN "lanes" ELSE "lane"
            /\ lanes' \in [Lanes -> {Off, [Off EXCEPT !.pc = "ready"]}]
            /\ ~Parallel(run.wave) => lanes' = ReadyLanes
            /\ IsRun(run') /\ run'.kind = run.kind /\ run'.caller = run.caller
            /\ run'.attempt = run.attempt /\ run'.failed = run.failed /\ run'.pending = run.pending
            /\ run'.waiting = run.waiting /\ run'.wave = run.wave /\ run'.at = 0
            /\ AtWave(run') /\ run'.next = 0
            /\ Len(run'.items) = Cardinality(Wave(run.wave) \ run.done)
            /\ run'.results = [i \in 1..Len(run'.items) |-> Nothing]
<1> DEFINE ws == Wave(run.wave) \ run.done
           items == InOrder(ws)
           none == [i \in DOMAIN items |-> Nothing]
<1>1. IsRun(run)
  BY DEF Process, ProcessTyped
<1>2. /\ items \in Seq(ws) /\ items \in Seq(Workers) /\ Len(items) = Cardinality(ws)
  <2>1. ws \in SUBSET Workers
    BY DEF Wave
  <2> HIDE DEF ws
  <2> QED BY <2>1, InOrderLists
<1>3. \A i \in 1..Len(items) : items[i] \in ws /\ WaveOf[items[i]] = run.wave
  <2> HIDE DEF items
  <2>1. \A i \in 1..Len(items) : items[i] \in ws
    BY <1>2
  <2> QED BY <2>1 DEF Wave
<1>4. DOMAIN items = 1..Len(items) /\ Len(items) \in Nat /\ (items # <<>> => Len(items) > 0)
  <2> HIDE DEF items, ws
  <2> QED BY <1>2
<1>5. /\ none \in Seq(Result) /\ DOMAIN none = 1..Len(items) /\ Len(none) = Len(items)
      /\ \A i \in DOMAIN none : none[i] = Nothing /\ ResultOK(none[i])
  <2>1. Nothing \in Result /\ ResultOK(Nothing)
    BY DEF Nothing, Result, ResultOK
  <2> HIDE DEF items
  <2> QED BY <1>4, <2>1
<1>6. CASE run.pending \/ run.failed \/ run.waiting \/ ~Active \/ Wave(run.wave) = {}
  BY <1>6 DEF NextWave, Finish
<1>7. CASE ~(run.pending \/ run.failed \/ run.waiting \/ ~Active \/ Wave(run.wave) = {}) /\ items = <<>>
  <2>1. pc' = "waves" /\ lanes' = lanes /\ run' = [run EXCEPT !.wave = @ + 1]
    BY <1>7 DEF NextWave
  <2> QED BY <1>1, <1>7, <2>1 DEF IsRun, Same, Fields
<1>8. CASE ~(run.pending \/ run.failed \/ run.waiting \/ ~Active \/ Wave(run.wave) = {}) /\ items # <<>>
  <2>1. /\ run' = [run EXCEPT !.items = items, !.next = 0, !.at = 0, !.results = none]
        /\ pc' = IF Parallel(run.wave) THEN "lanes" ELSE "lane"
        /\ lanes' = [l \in Lanes |->
             IF l = 1 \/ (Parallel(run.wave) /\ l <= Len(items))
             THEN [Off EXCEPT !.pc = "ready"] ELSE Off]
    BY <1>8 DEF NextWave
  <2>2. /\ lanes' \in [Lanes -> {Off, [Off EXCEPT !.pc = "ready"]}]
        /\ ~Parallel(run.wave) => lanes' = ReadyLanes
    <3> HIDE DEF items
    <3> QED BY <2>1, LaneOne DEF ReadyLanes, AllOff
  <2> HIDE DEF items, none
  <2>3. /\ IsRun(run') /\ run'.kind = run.kind /\ run'.caller = run.caller
        /\ run'.attempt = run.attempt /\ run'.failed = run.failed /\ run'.pending = run.pending
        /\ run'.waiting = run.waiting /\ run'.wave = run.wave /\ run'.at = 0
        /\ run'.items = items /\ run'.results = none /\ run'.next = 0
    <3>1. /\ DOMAIN run' = Fields /\ run'.kind = run.kind /\ run'.caller = run.caller
          /\ run'.attempt = run.attempt /\ run'.failed = run.failed /\ run'.pending = run.pending
          /\ run'.waiting = run.waiting /\ run'.wave = run.wave /\ run'.at = 0
          /\ run'.items = items /\ run'.results = none /\ run'.next = 0 /\ run'.base = run.base
          /\ run'.todo = run.todo /\ run'.result = run.result
      BY <1>1, <2>1 DEF IsRun, Fields
    <3>2. /\ {run'.base, run'.wave, run'.next, run'.at, run'.attempt} \subseteq Nat
          /\ run'.kind \in {"none", "plan", "quality"}
          /\ run'.caller \in {"none", "result", "resume", "quality"}
          /\ {run'.failed, run'.waiting, run'.pending} \subseteq BOOLEAN
          /\ run'.todo \in Seq(Workers) /\ ResultOK(run'.result)
      BY <1>1, <3>1 DEF IsRun
    <3>3. /\ run'.items \in Seq(Workers) /\ run'.results \in Seq(Result)
          /\ \A i \in DOMAIN run'.results : ResultOK(run'.results[i])
      BY <1>2, <1>5, <3>1
    <3>4. IsRun(run')
      BY <3>1, <3>2, <3>3 DEF IsRun
    <3> QED BY <3>1, <3>4
  <2>4. AtWave(run')
    BY <1>3, <1>4, <1>5, <1>8, <2>3 DEF AtWave
  <2>5. none = [i \in 1..Len(items) |-> Nothing]
    BY <1>4 DEF none
  <2> QED BY <1>2, <1>8, <2>1, <2>2, <2>3, <2>4, <2>5
<1> QED BY <1>6, <1>7, <1>8

\* Going to the next wave keeps the invariant.
LEMMA NextWaveKeeps ==
  ASSUME WorkerAssumption, IInv, NextWave
  PROVE  IInv'
<1>1. Process /\ pc = "waves" /\ run.attempt = 0 /\ run.kind = "plan" /\ Called(run) /\ lanes = AllOff
      /\ IsRun(run)
  BY DEF IInv, Process, RunInv, LaneInv, NextWave, Between, ProcessTyped
<1>2. SUFFICES Process'
  BY DEF IInv, Typed, Process, CancelledIsQuiet, NextWave, stored, bounds
<1>3. CASE pc' = "final" /\ run' = run /\ lanes' = AllOff
  BY <1>1, <1>3, RestKeeps
<1>4. CASE /\ pc' = "waves" /\ lanes' = lanes
           /\ IsRun(run') /\ Same(run, run') /\ run'.attempt = run.attempt
  BY <1>1, <1>4, RestKeeps DEF Same, Called
<1>5. CASE /\ pc' = IF Parallel(run.wave) THEN "lanes" ELSE "lane"
           /\ lanes' \in [Lanes -> {Off, [Off EXCEPT !.pc = "ready"]}]
           /\ ~Parallel(run.wave) => lanes' = ReadyLanes
           /\ IsRun(run') /\ run'.kind = run.kind /\ run'.caller = run.caller
           /\ run'.attempt = run.attempt /\ run'.wave = run.wave /\ AtWave(run')
  <2>1. \A l \in Lanes : /\ lanes'[l] \in Lane /\ ResultOK(lanes'[l].result)
                         /\ lanes'[l].pc \in {"off", "ready"} \ (Manned \cup Rowed)
    <3>1. \A v \in {Off, [Off EXCEPT !.pc = "ready"]} :
            v \in Lane /\ ResultOK(v.result) /\ v.pc \in {"off", "ready"} \ (Manned \cup Rowed)
      <4>1. Nothing \in Result /\ ResultOK(Nothing)
        BY DEF Nothing, Result, ResultOK
      <4>2. /\ Off \in Lane /\ Off.result = Nothing /\ Off.pc = "off"
            /\ [Off EXCEPT !.pc = "ready"] \in Lane
            /\ [Off EXCEPT !.pc = "ready"].result = Nothing
            /\ [Off EXCEPT !.pc = "ready"].pc = "ready"
        BY <4>1 DEF Off, Lane
      <4> QED BY <4>1, <4>2 DEF Manned, Rowed
    <3> QED BY <1>5, <3>1
  <2>2. ProcessTyped'
    BY <1>5, <2>1 DEF ProcessTyped
  <2>3. RunInv'
    BY <1>1, <1>5 DEF RunInv, Places, Replays, Between, InWave, OfWave, Called
  <2>4. AttemptInv'
    BY <1>1, <1>5 DEF AttemptInv
  <2>5. LaneInv'
    <3>1. pc' = "lane" => lanes' = ReadyLanes
      BY <1>5
    <3>2. pc' \in {"lane", "lanes"}
      BY <1>5
    <3>3. \A l \in Lanes : l # 1 => ReadyLanes[l].pc = "off"
      BY DEF ReadyLanes, AllOff, Off
    <3> QED BY <2>1, <3>1, <3>2, <3>3 DEF LaneInv
  <2> QED BY <2>2, <2>3, <2>4, <2>5 DEF Process
<1> QED BY <1>1, <1>3, <1>4, <1>5, NextWaveGoesOn

\* The end of a parallel wave's lanes keeps the invariant.
LEMMA LanesDrainedKeeps ==
  ASSUME WorkerAssumption, IInv, LanesDrained
  PROVE  IInv'
<1>1. /\ pc = "lanes" /\ lanes = AllOff /\ run' = run /\ lanes' = lanes /\ attempts' = attempts
      /\ pc' \in {"throwing", "handling"} /\ Process
  BY DEF IInv, Process, LanesDrained, Sharing, stored
<1>2. SUFFICES Process'
  BY DEF IInv, Typed, Process, CancelledIsQuiet, LanesDrained, stored, bounds
<1>3. RunInv'
  BY <1>1 DEF Process, RunInv, Places, Replays, Between, InWave, OfWave, Called, AtWave
<1> QED BY <1>1, <1>3, LanesAtRest DEF Process, ProcessTyped, AttemptInv, LaneInv

\* What Handle has recorded of the next result.
Recorded(r) ==
  /\ IsRun(r) /\ r.kind = run.kind /\ r.items = run.items /\ r.results = run.results
  /\ r.attempt = run.attempt /\ r.at = run.at /\ r.wave = run.wave /\ r.pending = run.pending

Result0 == run.results[run.at + 1]
Worker0 == run.items[run.at + 1]

\* A result is passed over, taken in, a failure of the plan, or a reason to repair.
LEMMA HandleGoesOn ==
  ASSUME IInv, Handle
  PROVE  \/ /\ Result0 = Nothing /\ Continue(run, FALSE) /\ UNCHANGED attempts
         \/ /\ Result0.status \in {"succeeded", "failed"}
            /\ \E r : /\ Recorded(r) /\ r.waiting = (run.waiting \/ Result0.acts)
                      /\ \/ /\ Result0.status = "succeeded" /\ r.failed = run.failed
                            /\ r.caller = run.caller
                            /\ Continue(r, Result0.acts) /\ UNCHANGED attempts
                         \/ /\ Result0.status = "failed" /\ r.failed = TRUE /\ r.caller = run.caller
                            /\ Continue(r, TRUE) /\ UNCHANGED attempts
                         \/ /\ Result0.status = "failed" /\ r.failed = run.failed
                            /\ r.caller = "result" /\ Active
                            /\ \E rule \in StepRules(Worker0) : Backflow(r, rule)
<1> DEFINE res == run.results[run.at + 1]
           w == run.items[run.at + 1]
           known == [run EXCEPT !.latest[w] = res.status, !.interrupted = @ \/ res.stopped,
                                !.waiting = @ \/ res.acts,
                                !.handoff[w] = IF res.status = "succeeded" THEN res.row ELSE @]
           lost == [known EXCEPT !.failed = TRUE]
           back == [known EXCEPT !.caller = "result"]
<1>1. IsRun(run) /\ ResultOK(res)
  <2>1. IsRun(run) /\ AtWave(run)
    BY DEF IInv, ProcessTyped, RunInv, InWave, OfWave, Handle, Between
  <2>2. run.at + 1 \in DOMAIN run.results
    BY <2>1 DEF IsRun, AtWave
  <2> QED BY <2>1, <2>2 DEF IsRun
<1>2. /\ res.status \in {"none", "succeeded", "failed"} /\ res.acts \in BOOLEAN
      /\ res.status = "none" => res = Nothing
  BY <1>1 DEF Result, ResultOK
<1> HIDE DEF res, w
<1>3. Recorded(known) /\ known.waiting = (run.waiting \/ res.acts)
      /\ known.failed = run.failed /\ known.caller = run.caller
  BY <1>1, <1>2 DEF Recorded, IsRun, Fields
<1> HIDE DEF known
<1>4. Recorded(lost) /\ lost.waiting = (run.waiting \/ res.acts)
      /\ lost.failed = TRUE /\ lost.caller = run.caller
  BY <1>3 DEF Recorded, IsRun, Fields
<1>5. Recorded(back) /\ back.waiting = (run.waiting \/ res.acts)
      /\ back.failed = run.failed /\ back.caller = "result"
  BY <1>3 DEF Recorded, IsRun, Fields
<1> HIDE DEF lost, back
<1>6. \/ res = Nothing /\ Continue(run, FALSE) /\ UNCHANGED attempts
      \/ res.status = "succeeded" /\ Continue(known, res.acts) /\ UNCHANGED attempts
      \/ res.status = "failed" /\ Continue(lost, TRUE) /\ UNCHANGED attempts
      \/ /\ res.status = "failed" /\ Active
         /\ \E rule \in StepRules(w) : Backflow(back, rule)
  BY <1>2 DEF Handle, res, w, known, lost, back
<1> QED BY <1>3, <1>4, <1>5, <1>6 DEF Result0, Worker0, res, w

\* Going on to the next result keeps what is about the run itself.
LEMMA OnwardKeeps ==
  ASSUME WorkerAssumption, NEW r, Resumable(r), r.kind = "plan", AtWave(r), NEW stop,
         IsRun(run'), Same(r, run'), run'.attempt = 0, Onward(r, stop)
  PROVE  Process'
<1>1. /\ Called(run') /\ run'.kind = "plan"
      /\ pc' \in {"waves", "handling", "lane"} /\ lanes' \in {AllOff, ReadyLanes}
      /\ pc' # "lane" => lanes' = AllOff
  BY DEF Same, Onward, ReadyLanes, Resumable, Called
<1>2. pc' \in {"handling", "lane"} => /\ AtWave(run')
                                      /\ pc' = "lane" => ~Parallel(run'.wave)
  BY DEF Onward, Same, AtWave
<1>3. ProcessTyped'
  BY <1>1, LanesAtRest DEF ProcessTyped
<1>4. RunInv'
  BY <1>1, <1>2 DEF RunInv, Places, Replays, Between, InWave, OfWave
<1>5. AttemptInv'
  BY DEF AttemptInv
<1>6. LaneInv'
  BY <1>1, LanesAtRest DEF LaneInv
<1> QED BY <1>3, <1>4, <1>5, <1>6 DEF Process

\* A run that has taken in a result can begin a backflow for it.
LEMMA RecordedIsResumable ==
  ASSUME Process, pc = "handling", NEW r, Recorded(r), r.caller \in {run.caller, "result"}
  PROVE  Resumable(r) /\ AtWave(r) /\ r.kind = "plan" /\ r.attempt = 0
<1>1. run.kind = "plan" /\ Called(run) /\ AtWave(run) /\ run.attempt = 0
  BY DEF Process, RunInv, InWave, OfWave, Between
<1> QED BY <1>1 DEF Recorded, Resumable, Called, AtWave

\* Handling a result of a wave keeps the invariant.
LEMMA HandleKeeps ==
  ASSUME WorkerAssumption, IInv, Handle
  PROVE  IInv'
<1> SUFFICES Process' /\ attempts' \in Seq(Attempt)
  BY AsideKeeps DEF Handle, Aside
<1>1. Process /\ attempts \in Seq(Attempt) /\ pc = "handling" /\ Recorded(run)
  BY DEF IInv, Process, ProcessTyped, Typed, Handle, Recorded
<1>2. ASSUME NEW r, Recorded(r), r.caller = run.caller, NEW stop \in BOOLEAN, Continue(r, stop),
             UNCHANGED attempts
      PROVE  Process' /\ attempts' \in Seq(Attempt)
  <2>1. Resumable(r) /\ AtWave(r) /\ r.kind = "plan" /\ r.attempt = 0
    BY <1>1, <1>2, RecordedIsResumable
  <2>2. /\ IsRun(run') /\ Same(r, run') /\ Onward(r, stop) /\ run'.attempt = r.attempt
    BY <1>2, <2>1, ContinueGoesOn DEF Recorded, AtWave
  <2> QED BY <1>1, <1>2, <2>1, <2>2, OnwardKeeps
<1>3. ASSUME NEW r, Recorded(r), r.caller = "result", NEW rule \in StepRules(Worker0),
             Backflow(r, rule)
      PROVE  Process' /\ attempts' \in Seq(Attempt)
  <2>1. Resumable(r) /\ r.kind = "plan"
    BY <1>1, <1>3, RecordedIsResumable
  <2>2. rule \in Rules /\ rule.trigger = "step_failed"
    BY DEF StepRules
  <2> QED BY <1>1, <1>3, <2>1, <2>2, BackflowKeeps
<1>4. Result0.acts \in BOOLEAN \/ Result0 = Nothing
  <2>1. run.at + 1 \in DOMAIN run.results
    BY <1>1 DEF Process, ProcessTyped, RunInv, InWave, OfWave, AtWave, IsRun, Between
  <2> QED BY <1>1, <2>1 DEF Result0, ResultOK, Process, ProcessTyped, IsRun, Result
<1>5. CASE Result0 = Nothing /\ Continue(run, FALSE) /\ UNCHANGED attempts
  BY <1>1, <1>2, <1>5
<1>6. ASSUME NEW r, Recorded(r), Result0.status \in {"succeeded", "failed"},
             \/ r.caller = run.caller /\ Continue(r, Result0.acts) /\ UNCHANGED attempts
             \/ r.caller = run.caller /\ Continue(r, TRUE) /\ UNCHANGED attempts
             \/ r.caller = "result" /\ \E rule \in StepRules(Worker0) : Backflow(r, rule)
      PROVE  Process' /\ attempts' \in Seq(Attempt)
  <2>1. Result0.acts \in BOOLEAN
    BY <1>4, <1>6 DEF Nothing
  <2> QED BY <1>2, <1>3, <1>6, <2>1
<1> QED BY <1>5, <1>6, HandleGoesOn

-----------------------------------------------------------------------------
(* Lanes *)

\* The rows that lanes work at stay those of their workers and attempts.
RowsStand ==
  /\ DOMAIN rows \subseteq DOMAIN rows'
  /\ \A n \in DOMAIN rows : rows'[n].worker = rows[n].worker /\ rows'[n].attempt = rows[n].attempt

\* The run is where it was.
Stands ==
  /\ IsRun(run') /\ run'.kind = run.kind /\ run'.caller = run.caller /\ run'.items = run.items
  /\ run'.at = run.at /\ run'.wave = run.wave /\ run'.attempt = run.attempt /\ run'.todo = run.todo
  /\ Len(run'.results) = Len(run.results)
  /\ run'.failed = run.failed /\ run'.pending = run.pending /\ run'.waiting = run.waiting

\* What one lane changes of itself leaves the other lanes and the run consistent.
LEMMA LaneKeeps ==
  ASSUME WorkerAssumption, Process, NEW l \in Lanes, lanes[l].pc # "off", pc' = pc, Stands,
         attempts' = attempts, RowsStand,
         NEW v \in Lane, ResultOK(v.result), lanes' = [lanes EXCEPT ![l] = v],
         v.pc \in Manned =>
           /\ v.worker \in Workers
           /\ run.attempt = 0 => v.item \in 1..Len(run.items) /\ v.worker = run.items[v.item],
         v.pc \in Rowed =>
           /\ v.row \in DOMAIN rows'
           /\ rows'[v.row].worker = v.worker /\ rows'[v.row].attempt = run.attempt
           /\ v.pc = "ended" => v.result.row = v.row
           /\ v.pc = "activating" => v.seen \notin {"paused", "cancelled", "done"}
  PROVE  Process'
<1>1. pc \in {"lane", "lanes"} /\ (pc = "lane" => l = 1)
  BY DEF Process, LaneInv, AllOff, Off
<1>2. lanes \in [Lanes -> Lane] /\ \A m \in Lanes : lanes'[m] = IF m = l THEN v ELSE lanes[m]
  BY DEF Process, ProcessTyped
<1>3. ProcessTyped'
  BY <1>2 DEF Process, ProcessTyped, Stands
<1>4. RunInv'
  BY <1>1 DEF Process, RunInv, Places, Replays, Between, InWave, OfWave, Called, AtWave, Stands
<1>5. AttemptInv'
  BY DEF Process, AttemptInv, Stands
<1>6. LaneInv'
  <2>1. \A m \in Lanes : lanes'[m].pc \in Manned =>
          /\ lanes'[m].worker \in Workers
          /\ run'.attempt = 0 => /\ lanes'[m].item \in 1..Len(run'.items)
                                /\ lanes'[m].worker = run'.items[lanes'[m].item]
    BY <1>2 DEF Process, LaneInv, Stands
  <2>2. \A m \in Lanes : lanes'[m].pc \in Rowed =>
          /\ lanes'[m].row \in DOMAIN rows'
          /\ rows'[lanes'[m].row].worker = lanes'[m].worker
          /\ rows'[lanes'[m].row].attempt = run'.attempt
          /\ lanes'[m].pc = "ended" => lanes'[m].result.row = lanes'[m].row
          /\ lanes'[m].pc = "activating" => lanes'[m].seen \notin {"paused", "cancelled", "done"}
    BY <1>2 DEF Process, LaneInv, RowsStand, Stands
  <2>3. pc' = "lane" => \A m \in Lanes : m # 1 => lanes'[m].pc = "off"
    BY <1>1, <1>2 DEF Process, LaneInv
  <2> QED BY <1>1, <2>1, <2>2, <2>3 DEF LaneInv
<1> QED BY <1>3, <1>4, <1>5, <1>6 DEF Process

\* A lane that is off, or about to look for a worker, has none.
LEMMA LaneRests ==
  /\ Off \in Lane /\ ResultOK(Off.result) /\ Off.pc = "off" /\ Off.pc \notin Manned \cup Rowed
  /\ [Off EXCEPT !.pc = "ready"] \in Lane /\ ResultOK([Off EXCEPT !.pc = "ready"].result)
  /\ [Off EXCEPT !.pc = "ready"].pc \notin Manned \cup Rowed
  /\ Rowed \subseteq Manned
BY DEF Off, Lane, Manned, Rowed, Nothing, Result, ResultOK

\* A worker that did not start: its lane is free, the replay is told, or the wave ends.
LEMMA RefusedKeeps ==
  ASSUME WorkerAssumption, Process, NEW l \in Lanes, lanes[l].pc # "off", RowsStand,
         attempts' = attempts, NEW r, run' = WaveAfterRefusal(r), Refused(l),
         r = run \/ (Sharing /\ \E n \in Nat : r = [run EXCEPT !.next = n])
  PROVE  Process'
<1>1. pc \in {"lane", "lanes"} /\ IsRun(run)
  BY DEF Process, ProcessTyped, LaneInv, AllOff, Off
<1>2. CASE Sharing
  <2>1. run' = r /\ pc' = pc /\ lanes' = [lanes EXCEPT ![l] = [Off EXCEPT !.pc = "ready"]]
    <3>1. ~Replaying
      BY <1>2 DEF Process, RunInv, Between, Sharing, Replaying
    <3> QED BY <1>2, <3>1 DEF WaveAfterRefusal, Refused
  <2>2. Stands
    <3>1. CASE r = run
      BY <1>1, <2>1, <3>1 DEF Stands
    <3>2. ASSUME NEW n \in Nat, r = [run EXCEPT !.next = n] PROVE Stands
      BY <1>1, <2>1, <3>2 DEF Stands, IsRun, Fields
    <3> QED BY <3>1, <3>2
  <2>3. /\ [Off EXCEPT !.pc = "ready"] \in Lane /\ ResultOK([Off EXCEPT !.pc = "ready"].result)
        /\ [Off EXCEPT !.pc = "ready"].pc \notin Manned \cup Rowed
    BY LaneRests
  <2> QED BY <2>1, <2>2, <2>3, LaneKeeps
<1>3. CASE ~Sharing /\ Replaying
  <2>1. run' = run /\ pc' = "refused" /\ lanes' = AllOff /\ pc = "lane" /\ run.attempt # 0
    BY <1>1, <1>3 DEF WaveAfterRefusal, Refused, Sharing, Replaying
  <2>2. ProcessTyped'
    BY <1>1, <2>1, LanesAtRest DEF ProcessTyped
  <2>3. RunInv'
    BY <2>1 DEF Process, RunInv, Places, Replays, Between, InWave, OfWave, Called, AtWave
  <2>4. AttemptInv' /\ LaneInv'
    BY <2>1, LanesAtRest DEF Process, AttemptInv, LaneInv
  <2> QED BY <2>2, <2>3, <2>4 DEF Process
<1>4. CASE ~Sharing /\ ~Replaying
  <2>1. run' = [run EXCEPT !.wave = @ + 1] /\ pc' = "waves" /\ lanes' = AllOff
        /\ pc = "lane" /\ run.attempt = 0
    BY <1>1, <1>4 DEF WaveAfterRefusal, Refused, Sharing, Replaying
  <2>2. IsRun(run') /\ run'.kind = run.kind /\ run'.caller = run.caller /\ run'.attempt = 0
    BY <1>1, <2>1 DEF IsRun, Fields
  <2>3. run.kind = "plan" /\ Called(run)
    BY <2>1 DEF Process, RunInv
  <2> QED BY <2>1, <2>2, <2>3, RestKeeps DEF Called
<1> QED BY <1>2, <1>3, <1>4

\* A lane that sees the task active keeps the invariant.
LEMMA LaneAliveKeeps ==
  ASSUME WorkerAssumption, IInv, NEW l \in Lanes, LaneAlive(l)
  PROVE  IInv'
<1>1. Process /\ lanes[l] \in Lane /\ ResultOK(lanes[l].result) /\ lanes[l].pc = "ready"
      /\ UNCHANGED stored /\ UNCHANGED bounds /\ RowsStand
  BY DEF IInv, Process, ProcessTyped, LaneAlive, RowsStand, stored
<1>2. SUFFICES Process'
  BY <1>1 DEF IInv, Typed, Process, CancelledIsQuiet, stored, bounds
<1>3. ASSUME NEW p \in {"off", "alive"}, lanes' = [lanes EXCEPT ![l].pc = p], UNCHANGED <<pc, run>>
      PROVE  Process'
  <2> DEFINE v == [lanes[l] EXCEPT !.pc = p]
  <2>1. v \in Lane /\ ResultOK(v.result) /\ v.pc \notin Manned \cup Rowed
    BY <1>1 DEF Lane, Manned, Rowed
  <2>2. lanes' = [lanes EXCEPT ![l] = v]
    BY <1>3
  <2>3. Stands
    BY <1>1, <1>3 DEF Stands, Process, ProcessTyped
  <2> HIDE DEF v
  <2> QED BY <1>1, <1>3, <2>1, <2>2, <2>3, LaneRests, LaneKeeps DEF stored
<1>4. CASE Refused(l) /\ run' = WaveAfterRefusal(run)
  BY <1>1, <1>4, RefusedKeeps DEF stored
<1> QED BY <1>3, <1>4 DEF LaneAlive

\* A worker's place in the plan's order of execution is a natural.
LEMMA IndexIsNat ==
  ASSUME WorkerAssumption, NEW w
  PROVE  ExecutionIndex(w) \in Nat
<1> DEFINE ws == {v \in Workers : WaveOf[v] < WaveOf[w] \/ (WaveOf[v] = WaveOf[w] /\ v < w)}
<1>1. ws \in SUBSET Workers
  OBVIOUS
<1> HIDE DEF ws
<1>2. Cardinality(ws) \in Nat
  BY <1>1, InOrderLists, FS_CardinalityType
<1> QED BY <1>2 DEF ExecutionIndex, ws

\* The worker a lane takes, and what the run is once it is taken.
Taken(l, item, w, r) ==
  /\ w \in Workers /\ item \in Nat /\ IsRun(r)
  /\ run.attempt = 0 => item \in 1..Len(run.items) /\ w = run.items[item]
  /\ r = run \/ (Sharing /\ r = [run EXCEPT !.next = item])

\* A lane that claims finds nothing left, is refused, or has its worker.
LEMMA LaneClaimsTakes ==
  ASSUME IInv, NEW l \in Lanes, LaneClaims(l)
  PROVE  \/ Sharing /\ Exhausted /\ lanes' = [lanes EXCEPT ![l] = Off] /\ UNCHANGED <<pc, run>>
         \/ \E item, w, r :
              /\ Taken(l, item, w, r)
              /\ \/ ~Active /\ Refused(l) /\ run' = WaveAfterRefusal(r)
                 \/ /\ Active /\ run' = r /\ pc' = pc
                    /\ lanes' = [lanes EXCEPT ![l] =
                         [Off EXCEPT !.pc = "claimed", !.item = item, !.worker = w,
                            !.index = IF Replaying THEN steps ELSE run.base + ExecutionIndex(w)]]
<1> DEFINE item == IF Sharing THEN run.next + 1 ELSE run.at + 1
           w == IF Replaying THEN Head(run.todo) ELSE run.items[item]
           claimed == IF Sharing THEN [run EXCEPT !.next = item] ELSE run
<1>1. CASE Sharing /\ Exhausted
  BY <1>1 DEF LaneClaims
<1>2. CASE ~(Sharing /\ Exhausted)
  <2>1. IsRun(run) /\ pc \in {"lane", "lanes"}
    BY DEF IInv, ProcessTyped, LaneInv, AllOff, Off, LaneClaims
  <2>2. item \in Nat
    BY <2>1 DEF IsRun
  <2>3. ~Replaying => item \in 1..Len(run.items)
    <3>1. ~Replaying => AtWave(run)
      BY <2>1 DEF Replaying, IInv, RunInv, InWave, OfWave
    <3>2. Len(run.items) \in Nat
      BY <2>1 DEF IsRun
    <3> QED BY <1>2, <2>1, <2>2, <3>1, <3>2 DEF AtWave, Exhausted, IsRun
  <2>4. Replaying => run.todo # <<>>
    BY <2>1 DEF Replaying, IInv, RunInv, Between
  <2>5. w \in Workers
    BY <2>1, <2>3, <2>4 DEF IsRun
  <2>6. IsRun(claimed)
    <3> HIDE DEF item
    <3> QED BY <2>1, <2>2 DEF IsRun, Fields
  <2>7. Taken(l, item, w, claimed)
    BY <2>2, <2>3, <2>5, <2>6 DEF Taken, Replaying
  <2> HIDE DEF item, w, claimed
  <2>8. \/ ~Active /\ Refused(l) /\ run' = WaveAfterRefusal(claimed)
        \/ /\ Active /\ run' = claimed /\ pc' = pc
           /\ lanes' = [lanes EXCEPT ![l] =
                [Off EXCEPT !.pc = "claimed", !.item = item, !.worker = w,
                   !.index = IF Replaying THEN steps ELSE run.base + ExecutionIndex(w)]]
    BY <1>2 DEF LaneClaims, item, w, claimed
  <2> QED BY <2>7, <2>8
<1> QED BY <1>1, <1>2

\* Claiming a worker keeps the invariant.
LEMMA LaneClaimsKeeps ==
  ASSUME WorkerAssumption, IInv, NEW l \in Lanes, LaneClaims(l)
  PROVE  IInv'
<1>1. /\ Process /\ lanes[l].pc = "alive" /\ UNCHANGED <<stored, bounds>>
      /\ IsRun(run) /\ steps \in Nat /\ RowsStand
  BY DEF IInv, Process, ProcessTyped, LaneClaims, Typed, RowsStand, stored
<1>2. SUFFICES Process'
  BY <1>1 DEF IInv, Typed, Process, CancelledIsQuiet, stored, bounds
<1>3. CASE Sharing /\ Exhausted /\ lanes' = [lanes EXCEPT ![l] = Off] /\ UNCHANGED <<pc, run>>
  <2>1. Stands
    BY <1>1, <1>3 DEF Stands
  <2> QED BY <1>1, <1>3, <2>1, LaneRests, LaneKeeps DEF stored
<1>4. ASSUME NEW item, NEW w, NEW r, Taken(l, item, w, r), ~Active, Refused(l),
             run' = WaveAfterRefusal(r)
      PROVE  Process'
  BY <1>1, <1>4, RefusedKeeps DEF Taken, stored
<1>5. ASSUME NEW item, NEW w, NEW r, Taken(l, item, w, r), Active, run' = r, pc' = pc,
             lanes' = [lanes EXCEPT ![l] =
               [Off EXCEPT !.pc = "claimed", !.item = item, !.worker = w,
                  !.index = IF Replaying THEN steps ELSE run.base + ExecutionIndex(w)]]
      PROVE  Process'
  <2> DEFINE index == IF Replaying THEN steps ELSE run.base + ExecutionIndex(w)
             v == [Off EXCEPT !.pc = "claimed", !.item = item, !.worker = w, !.index = index]
  <2>1. index \in Nat
    <3>1. ExecutionIndex(w) \in Nat
      BY IndexIsNat
    <3>2. run.base \in Nat
      BY <1>1 DEF IsRun
    <3> QED BY <1>1, <3>1, <3>2
  <2>2. lanes' = [lanes EXCEPT ![l] = v]
    BY <1>5
  <2> HIDE DEF index
  <2>3. v \in Lane /\ ResultOK(v.result) /\ v.item = item /\ v.worker = w /\ v.pc = "claimed"
    <3>1. w \in Nat
      BY <1>5 DEF Taken, Workers, WorkerAssumption
    <3> QED BY <1>5, <2>1, <3>1 DEF Lane, Manned, Off, Nothing, Result, ResultOK, Taken
  <2> HIDE DEF v
  <2>4. Stands
    <3>1. CASE run' = run
      BY <1>1, <3>1 DEF Stands
    <3>2. CASE run' = [run EXCEPT !.next = item]
      BY <1>1, <1>5, <3>2 DEF Stands, IsRun, Fields, Taken
    <3> QED BY <1>5, <3>1, <3>2 DEF Taken
  <2>5. /\ v.worker \in Workers /\ v.pc \notin Rowed
        /\ run.attempt = 0 => v.item \in 1..Len(run.items) /\ v.worker = run.items[v.item]
    BY <1>5, <2>3 DEF Taken, Rowed
  <2> QED BY <1>1, <1>5, <2>2, <2>3, <2>4, <2>5, LaneKeeps DEF stored
<1> QED BY <1>3, <1>4, <1>5, LaneClaimsTakes

\* The step of a worker is created for the attempt its run is in.
LEMMA LaneEntersAdds ==
  ASSUME IInv, NEW l \in Lanes, LaneEnters(l)
  PROVE  \E row \in Row :
           /\ row.worker = lanes[l].worker /\ row.attempt = run.attempt /\ ~row.logged
           /\ row.status = "running"
           /\ rows' = Append(rows, row) /\ rows' \in Seq(Row) /\ Len(rows') = Len(rows) + 1
           /\ rows'[Len(rows')] = row /\ DOMAIN rows' = DOMAIN rows \cup {Len(rows')}
           /\ \A m \in DOMAIN rows : rows'[m] = rows[m]
<1> DEFINE row == [worker |-> lanes[l].worker, attempt |-> run.attempt, index |-> lanes[l].index,
                   status |-> "running", logged |-> FALSE]
<1>1. rows \in Seq(Row) /\ lanes[l] \in Lane /\ lanes[l].worker \in Workers /\ run.attempt \in Nat
  BY DEF IInv, Typed, ProcessTyped, IsRun, LaneInv, LaneEnters, Manned
<1>2. row \in Row
  BY <1>1 DEF Row, Lane
<1>3. rows' = Append(rows, row)
  BY DEF LaneEnters
<1>4. row.worker = lanes[l].worker /\ row.attempt = run.attempt /\ ~row.logged
      /\ row.status = "running"
  OBVIOUS
<1> HIDE DEF row
<1> QED BY <1>1, <1>2, <1>3, <1>4

\* Creating the step keeps the invariant.
LEMMA LaneEntersKeeps ==
  ASSUME WorkerAssumption, IInv, NEW l \in Lanes, LaneEnters(l)
  PROVE  IInv'
<1> DEFINE n == Len(rows) + 1
           v == [lanes[l] EXCEPT !.pc = "created", !.row = n]
<1>1. /\ Process /\ lanes \in [Lanes -> Lane] /\ ResultOK(lanes[l].result) /\ rows \in Seq(Row)
      /\ lanes[l].pc = "claimed" /\ steps \in Nat /\ steps' = steps + 1
      /\ open \subseteq DOMAIN rows /\ current \in {0} \cup DOMAIN rows
      /\ lanes' = [lanes EXCEPT ![l].pc = "created", ![l].row = n]
      /\ UNCHANGED <<task, consent, current, open, attempts, pc, run, bounds>>
  BY DEF IInv, Process, ProcessTyped, Typed, LaneEnters
<1>2. PICK row \in Row :
           /\ row.worker = lanes[l].worker /\ row.attempt = run.attempt
           /\ rows' \in Seq(Row) /\ Len(rows') = n
           /\ rows'[n] = row /\ DOMAIN rows' = DOMAIN rows \cup {n}
           /\ \A m \in DOMAIN rows : rows'[m] = rows[m]
  BY LaneEntersAdds
<1>3. n \in Nat
  BY <1>1
<1> HIDE DEF n
<1>4. v \in Lane /\ ResultOK(v.result) /\ v.pc = "created" /\ v.row = n
      /\ v.worker = lanes[l].worker /\ v.item = lanes[l].item
  BY <1>1, <1>3 DEF Lane, Manned, Rowed
<1>5. lanes' = [lanes EXCEPT ![l] = v]
  BY <1>1
<1> HIDE DEF v
<1>6. RowsStand /\ Stands
  BY <1>1, <1>2 DEF RowsStand, Stands, Process, ProcessTyped
<1>7. /\ v.worker \in Workers
      /\ run.attempt = 0 => v.item \in 1..Len(run.items) /\ v.worker = run.items[v.item]
  BY <1>1, <1>4 DEF Process, LaneInv, Manned
<1>8. /\ v.row \in DOMAIN rows' /\ rows'[v.row].worker = v.worker
      /\ rows'[v.row].attempt = run.attempt /\ v.pc \notin {"ended", "activating"}
  BY <1>2, <1>4
<1>9. Process'
  BY <1>1, <1>4, <1>5, <1>6, <1>7, <1>8, LaneKeeps
<1> QED BY <1>1, <1>2, <1>9 DEF IInv, Typed, Process, CancelledIsQuiet, bounds

\* The steps of a lane from the row of its worker to the call of its model.
LaneGoesOn(l) ==
  LaneMarks(l) \/ LaneSees(l) \/ LaneActivates(l) \/ LaneLooks(l) \/ LaneInvokes(l)

\* Up to the call of its model a lane keeps its worker and its row, and so does the run.
LEMMA LaneGoes ==
  ASSUME IInv, NEW l \in Lanes, LaneGoesOn(l)
  PROVE  /\ UNCHANGED <<consent, rows, steps, open, attempts, pc, run, bounds>>
         /\ lanes[l].pc \in Rowed \ {"ended"}
         /\ \E v \in Lane : /\ lanes' = [lanes EXCEPT ![l] = v] /\ v.pc \in Rowed \ {"ended"}
                            /\ v.item = lanes[l].item /\ v.worker = lanes[l].worker
                            /\ v.row = lanes[l].row /\ v.result = lanes[l].result
                            /\ v.pc = "activating" => v.seen \notin {"paused", "cancelled", "done"}
<1> DEFINE v(p, s) == [lanes[l] EXCEPT !.pc = p, !.seen = s]
<1>1. lanes \in [Lanes -> Lane] /\ task \in TaskStatus
  BY DEF IInv, ProcessTyped, Typed
<1>2. ASSUME NEW p \in Rowed \ {"ended"}, NEW s \in TaskStatus \cup {"none"}
      PROVE  /\ v(p, s) \in Lane /\ v(p, s).pc = p
             /\ v(p, s).item = lanes[l].item /\ v(p, s).worker = lanes[l].worker
             /\ v(p, s).row = lanes[l].row /\ v(p, s).result = lanes[l].result
             /\ v(p, s).seen = s
  BY <1>1, <1>2 DEF Lane, Manned
<1> HIDE DEF v
<1>3. ASSUME NEW p \in Rowed \ {"ended"}, NEW s \in TaskStatus \cup {"none"},
             lanes' = [lanes EXCEPT ![l] = v(p, s)],
             p = "activating" => s \notin {"paused", "cancelled", "done"}
      PROVE  \E u \in Lane : /\ lanes' = [lanes EXCEPT ![l] = u] /\ u.pc \in Rowed \ {"ended"}
                             /\ u.item = lanes[l].item /\ u.worker = lanes[l].worker
                             /\ u.row = lanes[l].row /\ u.result = lanes[l].result
                             /\ u.pc = "activating" => u.seen \notin {"paused", "cancelled", "done"}
  <2> DEFINE w == v(p, s)
  <2>1. /\ w \in Lane /\ lanes' = [lanes EXCEPT ![l] = w] /\ w.pc \in Rowed \ {"ended"}
        /\ w.item = lanes[l].item /\ w.worker = lanes[l].worker
        /\ w.row = lanes[l].row /\ w.result = lanes[l].result
        /\ w.pc = "activating" => w.seen \notin {"paused", "cancelled", "done"}
    BY <1>2, <1>3
  <2> HIDE DEF w
  <2> QED BY <2>1
<1>4. ASSUME NEW p \in Rowed \ {"ended", "activating"}, Goes(l, p)
      PROVE  \E u \in Lane : /\ lanes' = [lanes EXCEPT ![l] = u] /\ u.pc \in Rowed \ {"ended"}
                             /\ u.item = lanes[l].item /\ u.worker = lanes[l].worker
                             /\ u.row = lanes[l].row /\ u.result = lanes[l].result
                             /\ u.pc = "activating" => u.seen \notin {"paused", "cancelled", "done"}
  <2>1. lanes[l].seen \in TaskStatus \cup {"none"}
    BY <1>1 DEF Lane
  <2>2. lanes' = [lanes EXCEPT ![l] = v(p, lanes[l].seen)]
    BY <1>1, <1>4 DEF Goes, Lane, v
  <2> QED BY <1>3, <1>4, <2>1, <2>2
<1>5. CASE LaneMarks(l)
  BY <1>4, <1>5 DEF LaneMarks, Rowed
<1>6. CASE LaneSees(l)
  <2>1. CASE lanes' = [lanes EXCEPT ![l].pc = "activating", ![l].seen = task]
    <3>1. lanes' = [lanes EXCEPT ![l] = v("activating", task)]
      BY <1>1, <2>1 DEF v
    <3>2. CASE Active
      BY <1>1, <1>3, <1>6, <3>1, <3>2 DEF LaneSees, Rowed, stored, Active
    <3>3. CASE ~Active
      BY <1>4, <1>6, <3>3 DEF LaneSees, Rowed, stored
    <3> QED BY <3>2, <3>3
  <2> QED BY <1>4, <1>6, <2>1 DEF LaneSees, Rowed, stored
<1>7. CASE LaneActivates(l)
  BY <1>4, <1>7 DEF LaneActivates, Rowed
<1>8. CASE LaneLooks(l)
  BY <1>4, <1>8 DEF LaneLooks, Rowed, stored
<1>9. CASE LaneInvokes(l)
  BY <1>4, <1>9 DEF LaneInvokes, Rowed, stored
<1> QED BY <1>5, <1>6, <1>7, <1>8, <1>9 DEF LaneGoesOn

\* Each of these steps keeps the invariant.
LEMMA LaneGoesKeeps ==
  ASSUME WorkerAssumption, IInv, NEW l \in Lanes, LaneGoesOn(l)
  PROVE  IInv'
<1>1. /\ Process /\ ResultOK(lanes[l].result) /\ lanes[l].pc \in Rowed /\ lanes[l].pc # "off"
      /\ UNCHANGED <<consent, rows, steps, open, attempts, pc, run, bounds>>
  BY LaneGoes DEF IInv, Process, ProcessTyped, Rowed
<1>2. PICK v \in Lane : /\ lanes' = [lanes EXCEPT ![l] = v] /\ v.pc \in Rowed \ {"ended"}
                        /\ v.item = lanes[l].item /\ v.worker = lanes[l].worker
                        /\ v.row = lanes[l].row /\ v.result = lanes[l].result
                        /\ v.pc = "activating" => v.seen \notin {"paused", "cancelled", "done"}
  BY LaneGoes
<1>3. Stands /\ RowsStand
  BY <1>1 DEF Stands, RowsStand, Process, ProcessTyped
<1>4. /\ v.row \in DOMAIN rows' /\ rows'[v.row].worker = v.worker
      /\ rows'[v.row].attempt = run.attempt /\ v.pc # "ended"
  BY <1>1, <1>2 DEF Process, LaneInv
<1>5. /\ v.worker \in Workers
      /\ run.attempt = 0 => v.item \in 1..Len(run.items) /\ v.worker = run.items[v.item]
  BY <1>1, <1>2, LaneRests DEF Process, LaneInv
<1>6. Process'
  BY <1>1, <1>2, <1>3, <1>4, <1>5, LaneKeeps
<1>7. current' \in {0} \cup DOMAIN rows
  BY <1>1 DEF LaneGoesOn, LaneMarks, LaneSees, LaneActivates, LaneLooks, LaneInvokes, stored,
              IInv, Typed, Process, LaneInv
<1>8. task' \in TaskStatus /\ (task' = "cancelled" => task = "cancelled")
  BY DEF LaneGoesOn, LaneMarks, LaneSees, LaneActivates, LaneLooks, LaneInvokes, stored,
         IInv, Typed, TaskStatus
<1> QED BY <1>1, <1>6, <1>7, <1>8 DEF IInv, Typed, Process, CancelledIsQuiet, bounds

\* A row gets another status, and perhaps its log.
LEMMA RowIsSet ==
  ASSUME rows \in Seq(Row), NEW n \in DOMAIN rows, NEW new \in Row,
         new.worker = rows[n].worker, new.attempt = rows[n].attempt,
         rows' = [rows EXCEPT ![n] = new]
  PROVE  rows' \in Seq(Row) /\ DOMAIN rows' = DOMAIN rows /\ RowsStand /\ Len(rows') = Len(rows)
BY DEF RowsStand

\* A lane that finds its task stopped before the call keeps the invariant.
LEMMA LaneSkipsKeeps ==
  ASSUME WorkerAssumption, IInv, NEW l \in Lanes, LaneSkips(l)
  PROVE  IInv'
<1> DEFINE n == lanes[l].row
           new == [rows[n] EXCEPT !.status = "skipped"]
<1>1. /\ Process /\ lanes[l].pc = "skipping" /\ rows \in Seq(Row) /\ n \in DOMAIN rows
      /\ UNCHANGED <<task, consent, steps, current, open, attempts, bounds>>
      /\ Refused(l) /\ run' = WaveAfterRefusal(run)
  BY DEF IInv, Process, Typed, LaneInv, LaneSkips, Rowed
<1>2. new \in Row /\ new.worker = rows[n].worker /\ new.attempt = rows[n].attempt
  <2>1. rows[n] \in Row
    BY <1>1
  <2> HIDE DEF n
  <2> QED BY <2>1 DEF Row
<1>3. rows' = [rows EXCEPT ![n] = new]
  BY <1>1 DEF LaneSkips
<1> HIDE DEF n, new
<1>4. rows' \in Seq(Row) /\ DOMAIN rows' = DOMAIN rows /\ RowsStand
  BY <1>1, <1>2, <1>3, RowIsSet
<1>5. Process'
  BY <1>1, <1>4, RefusedKeeps
<1> QED BY <1>1, <1>4, <1>5 DEF IInv, Typed, Process, CancelledIsQuiet, bounds

\* The answer or failure of a model call keeps the invariant.
LEMMA WorkerEndsKeeps ==
  ASSUME WorkerAssumption, IInv, NEW l \in Lanes, WorkerEnds(l)
  PROVE  IInv'
<1> DEFINE n == lanes[l].row
<1>1. /\ Process /\ lanes \in [Lanes -> Lane] /\ lanes[l].pc = "invoking" /\ rows \in Seq(Row)
      /\ n \in DOMAIN rows /\ lanes[l] \in Lane
      /\ UNCHANGED <<task, consent, steps, current, open, attempts, pc, run, bounds>>
  BY DEF IInv, Process, ProcessTyped, Typed, LaneInv, WorkerEnds, Rowed
<1>2. PICK acts \in BOOLEAN, stopped \in BOOLEAN, status \in {"succeeded", "failed"} :
        /\ acts => status = "succeeded"
        /\ rows' = [rows EXCEPT ![n].logged = TRUE,
                               ![n].status = IF status = "failed" THEN "failed" ELSE @]
        /\ lanes' = [lanes EXCEPT ![l].pc = "ended", ![l].result =
             [status |-> status, row |-> n, acts |-> acts, stopped |-> stopped]]
  BY DEF WorkerEnds
<1> DEFINE new == [rows[n] EXCEPT !.logged = TRUE,
                                  !.status = IF status = "failed" THEN "failed" ELSE @]
           res == [status |-> status, row |-> n, acts |-> acts, stopped |-> stopped]
           v == [lanes[l] EXCEPT !.pc = "ended", !.result = res]
<1>3. new \in Row /\ new.worker = rows[n].worker /\ new.attempt = rows[n].attempt
  <2>1. rows[n] \in Row
    BY <1>1
  <2> HIDE DEF n
  <2> QED BY <1>2, <2>1 DEF Row
<1>4. rows' = [rows EXCEPT ![n] = new]
  BY <1>1, <1>2
<1>5. res.row = n /\ ResultOK(res) /\ res \in Result
  BY <1>1, <1>2 DEF ResultOK, Result
<1>6. lanes' = [lanes EXCEPT ![l] = v]
  BY <1>1, <1>2
<1> HIDE DEF res, new
<1>7. v \in Lane /\ v.result = res /\ v.pc = "ended" /\ v.row = n
      /\ v.worker = lanes[l].worker /\ v.item = lanes[l].item
  BY <1>1, <1>5 DEF Lane, Manned, Rowed
<1> HIDE DEF v
<1>8. rows' \in Seq(Row) /\ DOMAIN rows' = DOMAIN rows /\ RowsStand
  <2> HIDE DEF n
  <2> QED BY <1>1, <1>3, <1>4, RowIsSet
<1>9. Stands
  BY <1>1 DEF Stands, Process, ProcessTyped
<1>10. /\ v.row \in DOMAIN rows' /\ rows'[v.row].worker = v.worker
       /\ rows'[v.row].attempt = run.attempt /\ v.result.row = v.row /\ v.worker \in Workers
       /\ run.attempt = 0 => v.item \in 1..Len(run.items) /\ v.worker = run.items[v.item]
  BY <1>1, <1>5, <1>7, <1>8 DEF Process, LaneInv, RowsStand, Manned, Rowed
<1>11. Process'
  <2> HIDE DEF n
  <2> QED BY <1>1, <1>5, <1>6, <1>7, <1>8, <1>9, <1>10, LaneKeeps
<1> QED BY <1>1, <1>8, <1>11 DEF IInv, Typed, Process, CancelledIsQuiet, bounds

\* What becomes of the row and the proposals of a worker that ended.
LEMMA PublicationSets ==
  ASSUME Typed, CancelledIsQuiet, UNCHANGED task, NEW res, ResultOK(res), res.row \in DOMAIN rows,
         Publication(res)
  PROVE  /\ rows' \in Seq(Row) /\ DOMAIN rows' = DOMAIN rows /\ RowsStand /\ Len(rows') = Len(rows)
         /\ steps' \in Nat /\ current' \in {0} \cup DOMAIN rows' /\ open' \subseteq DOMAIN rows'
         /\ CancelledIsQuiet'
         /\ open' # open => res.acts /\ open' = open \cup {res.row}
<1> DEFINE n == res.row
           new == [rows[n] EXCEPT !.status = "succeeded"]
<1>1. rows \in Seq(Row) /\ n \in DOMAIN rows /\ steps \in Nat /\ current \in {0} \cup DOMAIN rows
      /\ open \subseteq DOMAIN rows /\ res.acts \in BOOLEAN
  BY DEF Typed, ResultOK, Result
<1>2. CASE rows' = [rows EXCEPT ![n].status = "succeeded"] /\ task \notin {"cancelled", "done"}
           /\ IF res.acts THEN open' = open \cup {n} /\ steps' = steps + 1 /\ current' = 0
              ELSE UNCHANGED <<open, steps, current>>
  <2>1. new \in Row /\ new.worker = rows[n].worker /\ new.attempt = rows[n].attempt
    <3>1. rows[n] \in Row
      BY <1>1
    <3> HIDE DEF n
    <3> QED BY <3>1 DEF Row
  <2>2. rows' = [rows EXCEPT ![n] = new]
    BY <1>2
  <2> HIDE DEF new, n
  <2>3. rows' \in Seq(Row) /\ DOMAIN rows' = DOMAIN rows /\ RowsStand /\ Len(rows') = Len(rows)
    BY <1>1, <2>1, <2>2, RowIsSet
  <2> QED BY <1>1, <1>2, <2>3 DEF n, CancelledIsQuiet
<1>3. CASE UNCHANGED <<rows, open, steps, current>>
  BY <1>1, <1>3 DEF RowsStand, CancelledIsQuiet
<1> QED BY <1>2, <1>3 DEF Publication

\* Publishing what a worker made, or withholding it, keeps the invariant.
LEMMA LanePublishesKeeps ==
  ASSUME WorkerAssumption, IInv, NEW l \in Lanes, LanePublishes(l)
  PROVE  IInv'
<1> DEFINE res == lanes[l].result
           told == [run EXCEPT !.proposed = IF open' # open THEN @ \cup {res.row} ELSE @]
           done == [told EXCEPT !.results[lanes[l].item] = res]
           told2 == [told EXCEPT !.result = res]
<1>1. /\ Process /\ lanes \in [Lanes -> Lane] /\ lanes[l].pc = "ended" /\ lanes[l] \in Lane
      /\ ResultOK(res) /\ res.row \in DOMAIN rows /\ IsRun(run)
      /\ UNCHANGED <<task, consent, attempts, bounds>> /\ Publication(res)
      /\ pc \in {"lane", "lanes"} /\ (pc = "lane" => l = 1)
  BY DEF IInv, Process, ProcessTyped, Typed, LaneInv, LanePublishes, AllOff, Off, Rowed
<1>2. /\ rows' \in Seq(Row) /\ DOMAIN rows' = DOMAIN rows /\ RowsStand
      /\ steps' \in Nat /\ current' \in {0} \cup DOMAIN rows' /\ open' \subseteq DOMAIN rows'
      /\ CancelledIsQuiet'
  BY <1>1, PublicationSets DEF IInv
<1>3. SUFFICES Process'
  BY <1>1, <1>2 DEF IInv, Typed, Process, bounds
<1> HIDE DEF res
<1>4. /\ IsRun(told) /\ told.kind = run.kind /\ told.caller = run.caller /\ told.items = run.items
      /\ told.at = run.at /\ told.wave = run.wave /\ told.attempt = run.attempt
      /\ told.todo = run.todo /\ told.results = run.results
      /\ told.failed = run.failed /\ told.pending = run.pending /\ told.waiting = run.waiting
  BY <1>1 DEF IsRun, Fields
<1> HIDE DEF told
<1>5. run' = done => Stands
  <2> DEFINE i == lanes[l].item
             rs == [told.results EXCEPT ![i] = res]
  <2>1. /\ rs \in Seq(Result) /\ Len(rs) = Len(told.results)
        /\ \A j \in DOMAIN rs : ResultOK(rs[j])
    <3>1. told.results \in Seq(Result) /\ \A j \in DOMAIN told.results : ResultOK(told.results[j])
      BY <1>4 DEF IsRun
    <3>2. res \in Result /\ ResultOK(res)
      BY <1>1 DEF ResultOK
    <3>3. DOMAIN told.results = 1..Len(told.results) /\ Len(told.results) \in Nat
      BY <3>1
    <3> HIDE DEF i
    <3>4. /\ rs = [j \in 1..Len(told.results) |-> rs[j]]
          /\ \A j \in 1..Len(told.results) : rs[j] \in {res, told.results[j]}
      BY <3>3
    <3> HIDE DEF rs
    <3>5. ASSUME NEW j \in 1..Len(told.results)
          PROVE  rs[j] \in Result /\ ResultOK(rs[j])
      <4>1. told.results[j] \in Result /\ ResultOK(told.results[j])
        BY <3>1, <3>3
      <4> QED BY <3>2, <3>4, <4>1
    <3>6. rs \in [1..Len(told.results) -> Result]
      BY <3>4, <3>5
    <3>7. rs \in Seq(Result) /\ Len(rs) = Len(told.results) /\ DOMAIN rs = 1..Len(told.results)
      BY <3>3, <3>6
    <3> QED BY <3>5, <3>7
  <2>2. done = [told EXCEPT !.results = rs]
    OBVIOUS
  <2> HIDE DEF rs, done
  <2>3. /\ IsRun(done) /\ done.kind = told.kind /\ done.caller = told.caller
        /\ done.items = told.items /\ done.at = told.at /\ done.wave = told.wave
        /\ done.attempt = told.attempt /\ done.todo = told.todo /\ done.results = rs
        /\ done.failed = told.failed /\ done.pending = told.pending /\ done.waiting = told.waiting
    BY <1>4, <2>1, <2>2 DEF IsRun, Fields
  <2> QED BY <1>4, <2>1, <2>3 DEF Stands
<1>6. CASE Sharing
  <2>1. run' = done /\ pc' = pc /\ lanes' = [lanes EXCEPT ![l] = [Off EXCEPT !.pc = "ready"]]
    <3>1. ~Replaying
      BY <1>1, <1>6 DEF Process, RunInv, Between, Sharing, Replaying
    <3> QED BY <1>6, <3>1 DEF LanePublishes, told, res
  <2>2. /\ [Off EXCEPT !.pc = "ready"] \in Lane /\ ResultOK([Off EXCEPT !.pc = "ready"].result)
        /\ [Off EXCEPT !.pc = "ready"].pc \notin Manned \cup Rowed
    BY LaneRests
  <2> HIDE DEF done
  <2> QED BY <1>1, <1>2, <1>5, <2>1, <2>2, LaneKeeps
<1>7. CASE ~Sharing /\ Replaying
  <2>1. run' = told2 /\ pc' = "replayed" /\ lanes' = AllOff /\ pc = "lane" /\ run.attempt # 0
    BY <1>1, <1>7 DEF LanePublishes, told, res, Sharing, Replaying
  <2>2. Stands
    <3>1. ResultOK(res)
      BY <1>1
    <3>2. DOMAIN told = Fields
      BY <1>4 DEF IsRun
    <3>3. /\ DOMAIN told2 = Fields /\ told2.kind = told.kind /\ told2.caller = told.caller
          /\ told2.items = told.items /\ told2.at = told.at /\ told2.wave = told.wave
          /\ told2.attempt = told.attempt /\ told2.todo = told.todo /\ told2.results = told.results
          /\ told2.failed = told.failed /\ told2.pending = told.pending
          /\ told2.waiting = told.waiting /\ told2.result = res /\ told2.base = told.base
          /\ told2.next = told.next
      BY <3>2 DEF Fields
    <3> HIDE DEF told2
    <3>4. IsRun(told2)
      BY <1>4, <3>1, <3>3 DEF IsRun
    <3> QED BY <1>4, <2>1, <3>3, <3>4 DEF Stands
  <2>3. ProcessTyped'
    BY <2>1, <2>2, LanesAtRest DEF ProcessTyped, Stands
  <2>4. RunInv'
    BY <1>1, <2>1, <2>2 DEF Process, RunInv, Places, Replays, Between, InWave, OfWave, Called, AtWave, Stands
  <2>5. AttemptInv' /\ LaneInv'
    BY <1>1, <2>1, <2>2, LanesAtRest DEF Process, AttemptInv, LaneInv, Stands
  <2> QED BY <2>3, <2>4, <2>5 DEF Process
<1>8. CASE ~Sharing /\ ~Replaying
  <2>1. run' = done /\ pc' = "handling" /\ lanes' = AllOff /\ pc = "lane" /\ run.attempt = 0
    BY <1>1, <1>8 DEF LanePublishes, told, res, Sharing, Replaying
  <2>2. Stands
    BY <1>5, <2>1
  <2> HIDE DEF done
  <2>3. ProcessTyped'
    BY <2>1, <2>2, LanesAtRest DEF ProcessTyped, Stands
  <2>4. RunInv'
    BY <1>1, <2>1, <2>2 DEF Process, RunInv, Places, Replays, Between, InWave, OfWave, Called, AtWave, Stands
  <2>5. AttemptInv' /\ LaneInv'
    BY <1>1, <2>1, <2>2, LanesAtRest DEF Process, AttemptInv, LaneInv, Stands
  <2> QED BY <2>3, <2>4, <2>5 DEF Process
<1> QED BY <1>6, <1>7, <1>8

\* A lane that throws leaves a consistent run, with lanes beside it or without.
LEMMA LaneThrowsKeeps ==
  ASSUME WorkerAssumption, IInv, NEW l \in Lanes, lanes[l].pc # "off", LaneThrows(l)
  PROVE  Process' /\ UNCHANGED stored
<1>1. Process /\ UNCHANGED stored /\ IsRun(run) /\ pc # "off"
  BY DEF IInv, Process, ProcessTyped, LaneThrows, LaneInv, AllOff, Off
<1>2. CASE lanes' = [lanes EXCEPT ![l] = Off] /\ run' = [run EXCEPT !.thrown = TRUE] /\ pc' = pc
  <2>1. Stands /\ RowsStand
    BY <1>1, <1>2 DEF Stands, RowsStand, IsRun, Fields, stored
  <2> QED BY <1>1, <1>2, <2>1, LaneRests, LaneKeeps DEF stored
<1>3. CASE Throw /\ UNCHANGED run
  BY <1>1, <1>3, ThrowKeeps DEF stored
<1> QED BY <1>1, <1>2, <1>3 DEF LaneThrows

\* A conflict over the task's status keeps the invariant.
LEMMA LaneConflictsKeeps ==
  ASSUME WorkerAssumption, IInv, NEW l \in Lanes, LaneConflicts(l)
  PROVE  IInv'
<1>1. Process' /\ UNCHANGED stored /\ UNCHANGED bounds
  BY LaneThrowsKeeps DEF LaneConflicts
<1> QED BY <1>1 DEF IInv, Typed, Process, CancelledIsQuiet, stored, bounds

\* A storage call that fails keeps the invariant.
LEMMA LaneFailsKeeps ==
  ASSUME WorkerAssumption, IInv, NEW l \in Lanes, LaneFails(l)
  PROVE  IInv'
<1>1. lanes[l].pc # "off" /\ LaneThrows(l) /\ UNCHANGED <<starts, moves>>
  BY DEF LaneFails
<1>2. Process' /\ UNCHANGED stored
  BY <1>1, LaneThrowsKeeps
<1>3. faults' \in 0..MaxFaults
  BY DEF IInv, Typed, LaneFails, WorkerAssumption
<1> QED BY <1>1, <1>2, <1>3 DEF IInv, Typed, Process, CancelledIsQuiet, stored

-----------------------------------------------------------------------------
(* The end of a run, the host and the user *)

\* What a run wants to leave its task as is never a final status.
LEMMA FinalIsStatus ==
  FinalStatus \in {"paused", "blocked", "waiting_for_approval", "ready_for_review"}
BY DEF FinalStatus

\* Reading the task at the end of a run keeps the invariant.
LEMMA FinalReadKeeps ==
  ASSUME WorkerAssumption, IInv, FinalRead
  PROVE  IInv'
<1>1. /\ Process /\ IsRun(run) /\ run.attempt = 0 /\ Called(run) /\ lanes = AllOff
      /\ UNCHANGED <<stored, lanes, bounds>>
  BY DEF IInv, Process, ProcessTyped, RunInv, LaneInv, FinalRead, Between
<1>2. SUFFICES Process'
  BY <1>1 DEF IInv, Typed, Process, CancelledIsQuiet, stored, bounds
<1>3. CASE Active /\ run' = [run EXCEPT !.seen = task, !.target = FinalStatus] /\ pc' = "publishing"
  <2>1. IsRun(run') /\ run'.attempt = 0 /\ Called(run') /\ run'.seen = task /\ run'.target = FinalStatus
    BY <1>1, <1>3 DEF IsRun, Fields, Called
  <2>2. run'.target \in TaskStatus \ {"cancelled"}
    BY <2>1, FinalIsStatus DEF TaskStatus
  <2> QED BY <1>1, <1>3, <2>1, <2>2, RestKeeps DEF Active
<1>4. CASE run' = [run EXCEPT !.seen = task] /\ pc' = "consuming"
  <2>1. IsRun(run') /\ run'.attempt = 0 /\ Called(run')
    BY <1>1, <1>4 DEF IsRun, Fields, Called
  <2> QED BY <1>1, <1>4, <2>1, RestKeeps
<1>5. CASE pc' = "throwing" /\ UNCHANGED run
  BY <1>1, <1>5, RestKeeps
<1> QED BY <1>3, <1>4, <1>5 DEF FinalRead

\* Writing the task's status at the end of a run keeps the invariant.
LEMMA FinalWriteKeeps ==
  ASSUME WorkerAssumption, IInv, FinalWrite
  PROVE  IInv'
<1>1. /\ Process /\ IsRun(run) /\ run.attempt = 0 /\ Called(run) /\ lanes = AllOff
      /\ run.target \in TaskStatus \ {"cancelled"}
      /\ UNCHANGED <<consent, rows, steps, current, open, attempts, lanes, bounds>>
  BY DEF IInv, Process, ProcessTyped, RunInv, LaneInv, FinalWrite, Between
<1>2. SUFFICES Process'
  BY <1>1 DEF IInv, Typed, Process, CancelledIsQuiet, FinalWrite, bounds
<1>3. ASSUME NEW seen, run' = [run EXCEPT !.seen = seen], pc' = "consuming"
      PROVE  Process'
  <2>1. IsRun(run') /\ run'.attempt = 0 /\ Called(run')
    BY <1>1, <1>3 DEF IsRun, Fields, Called
  <2> QED BY <1>1, <1>3, <2>1, RestKeeps
<1>4. CASE pc' = "throwing" /\ UNCHANGED run
  BY <1>1, <1>4, RestKeeps
<1> QED BY <1>3, <1>4 DEF FinalWrite

\* The process has nothing to do with the plan.
LEMMA GoneKeeps ==
  ASSUME WorkerAssumption, pc' = "off", run' = Idle, lanes' = AllOff
  PROVE  Process'
BY IdleIsRun, RestKeeps DEF Idle

\* Using up the plan's approval keeps the invariant.
LEMMA ConsumeKeeps ==
  ASSUME WorkerAssumption, IInv, Consume
  PROVE  IInv'
<1>1. Process'
  BY GoneKeeps DEF IInv, LaneInv, Consume
<1> QED BY <1>1 DEF IInv, Typed, Process, CancelledIsQuiet, Consume, bounds

\* Reporting an error of the run keeps the invariant.
LEMMA ReportFailureKeeps ==
  ASSUME WorkerAssumption, IInv, ReportFailure
  PROVE  IInv'
<1>1. Process'
  BY GoneKeeps DEF IInv, LaneInv, ReportFailure
<1> QED BY <1>1 DEF IInv, Typed, Process, CancelledIsQuiet, ReportFailure, bounds, TaskStatus

\* The process may die anywhere: the invariant holds of what is left.
LEMMA CrashKeeps ==
  ASSUME WorkerAssumption, IInv, Crash
  PROVE  IInv'
<1>1. Process'
  BY GoneKeeps DEF Crash
<1> QED BY <1>1 DEF IInv, Typed, Process, CancelledIsQuiet, Crash, stored, WorkerAssumption

\* What others do leaves the run where it is.
LEMMA OthersKeep ==
  ASSUME Process, UNCHANGED process, UNCHANGED <<rows, attempts>>
  PROVE  Process'
BY DEF Process, ProcessTyped, RunInv, Places, InWave, AttemptInv, LaneInv, process

\* What the user does meanwhile keeps the invariant.
LEMMA UserKeeps ==
  ASSUME WorkerAssumption, IInv, Pause \/ Resume \/ Cancel \/ \E n \in open : Settle(n)
  PROVE  IInv'
<1>1. Process /\ WorkerAssumption
  BY DEF IInv, Process
<1>2. CASE Pause
  BY <1>1, <1>2, OthersKeep
     DEF Pause, Move, IInv, Typed, Process, CancelledIsQuiet, TaskStatus, WorkerAssumption
<1>3. CASE Resume
  BY <1>1, <1>3, OthersKeep DEF Resume, IInv, Typed, Process, CancelledIsQuiet, TaskStatus, bounds
<1>4. CASE Cancel
  BY <1>1, <1>4, OthersKeep
     DEF Cancel, Move, IInv, Typed, Process, CancelledIsQuiet, TaskStatus, WorkerAssumption
<1>5. ASSUME NEW n \in open, Settle(n) PROVE IInv'
  BY <1>1, <1>5, OthersKeep DEF Settle, IInv, Typed, Process, CancelledIsQuiet, TaskStatus, bounds
<1> QED BY <1>2, <1>3, <1>4, <1>5

\* A plan begins with the invariant.
LEMMA InitHolds ==
  ASSUME WorkerAssumption, Init
  PROVE  IInv
<1>1. ProcessTyped
  <2>1. 1 \in Lanes /\ AllOff \in [Lanes -> Lane] /\ \A l \in Lanes : ResultOK(AllOff[l].result)
    BY LaneOne
  <2> QED BY <2>1, IdleIsRun DEF Init, ProcessTyped
<1>2. RunInv /\ AttemptInv
  BY DEF Init, RunInv, Places, InWave, AttemptInv, Replays, Between, Idle
<1>3. LaneInv
  BY DEF Init, LaneInv, AllOff, Off, Manned, Rowed
<1>4. Typed /\ CancelledIsQuiet
  BY DEF Init, Typed, CancelledIsQuiet, TaskStatus, WorkerAssumption
<1> QED BY <1>1, <1>2, <1>3, <1>4 DEF IInv

\* Every step keeps the invariant.
LEMMA StepKeeps ==
  ASSUME WorkerAssumption, IInv, [Next]_vars
  PROVE  IInv'
<1>1. CASE UNCHANGED vars
  BY <1>1 DEF vars, stored, process, bounds, IInv, Typed, ProcessTyped, RunInv, Places, InWave,
              AttemptInv, LaneInv, CancelledIsQuiet
<1>2. CASE Begin
  BY <1>2, StartPlanKeeps, QualityFailsKeeps, ResumeQualityKeeps DEF Begin
<1>3. CASE NextWave \/ LanesDrained \/ Handle \/ BackflowStep
  BY <1>3, NextWaveKeeps, LanesDrainedKeeps, HandleKeeps, NextReplayKeeps, ReplayRefusedKeeps,
     ReplayResultKeeps, CompleteAttemptKeeps, CompletionConflictKeeps DEF BackflowStep
<1>4. CASE FinalRead \/ FinalWrite \/ Consume \/ ReportFailure
  BY <1>4, FinalReadKeeps, FinalWriteKeeps, ConsumeKeeps, ReportFailureKeeps
<1>5. ASSUME NEW l \in Lanes, LaneStep(l) \/ WorkerEnds(l) \/ LaneFails(l)
      PROVE  IInv'
  BY <1>5, LaneAliveKeeps, LaneClaimsKeeps, LaneEntersKeeps, LaneGoesKeeps, LaneConflictsKeeps,
     LaneSkipsKeeps, LanePublishesKeeps, WorkerEndsKeeps, LaneFailsKeeps DEF LaneStep, LaneGoesOn
<1>6. CASE Crash \/ Pause \/ Resume \/ Cancel \/ \E n \in open : Settle(n)
  BY <1>6, CrashKeeps, UserKeeps
<1> QED BY <1>1, <1>2, <1>3, <1>4, <1>5, <1>6 DEF Next, RunStep

\* The invariant always holds.
LEMMA Inductive == Spec => []IInv
<1>1. Init => IInv
  BY WorkerAssumption, InitHolds
<1>2. IInv /\ [Next]_vars => IInv'
  BY WorkerAssumption, StepKeeps
<1> QED BY <1>1, <1>2, PTL DEF Spec

-----------------------------------------------------------------------------
(* What the user stopped stays stopped *)

\* No lane takes a worker or goes on with one.
NoneTaken == \A l \in Lanes : lanes'[l].pc \in Manned \cup {"alive"} => lanes'[l].pc = lanes[l].pc

\* Lanes that are off or about to look for a worker have not been let in.
LEMMA AtRestTakesNothing ==
  ASSUME WorkerAssumption, lanes' \in {AllOff, ReadyLanes}
  PROVE  NoneTaken
<1>1. \A l \in Lanes : lanes'[l].pc \in {"off", "ready"}
  BY DEF AllOff, Off, ReadyLanes
<1> QED BY <1>1 DEF NoneTaken, Manned, Rowed

\* The end of a backflow lets no lane in.
LEMMA ReturnedTakesNothing ==
  ASSUME WorkerAssumption, NEW r, NEW outcome, Returned(r, outcome)
  PROVE  NoneTaken
BY AtRestTakesNothing DEF Returned, Onward, ReadyLanes

\* Nor does the beginning of one.
LEMMA BackflowTakesNothing ==
  ASSUME WorkerAssumption, attempts \in Seq(Attempt), NEW r, Resumable(r), NEW rule, Backflow(r, rule)
  PROVE  NoneTaken
<1>1. r.caller \in {"resume", "result", "quality"} /\ (r.caller = "result" => r.at < Len(r.items))
  BY DEF Resumable, Called, AtWave
<1>2. BackflowDone(r, rule)
  BY <1>1, BackflowGoesOn DEF Resumable
<1> QED BY <1>2, ReturnedTakesNothing, AtRestTakesNothing DEF BackflowDone, Entered

\* No step of a backflow between its workers lets one in for a stopped task.
LEMMA ReplayTakesNothing ==
  ASSUME WorkerAssumption, IInv, ~Active, BackflowStep
  PROVE  NoneTaken /\ UNCHANGED <<task, rows>>
<1>1. Process /\ attempts \in Seq(Attempt) /\ pc \in Replays /\ lanes = AllOff /\ Resumable(run)
  BY ReplayIsResumable DEF IInv, Process, Typed, LaneInv, BackflowStep, NextReplay, ReplayRefused,
     ReplayResult, CompleteAttempt, CompletionConflict, Replays
<1>2. UNCHANGED <<task, rows>>
  BY DEF BackflowStep, NextReplay, ReplayRefused, ReplayResult, CompleteAttempt, CompletionConflict
<1> SUFFICES NoneTaken
  BY <1>2
<1>3. ASSUME NEW r, Resumable(r), NEW outcome, Return(r, outcome) PROVE NoneTaken
  BY <1>3, RunReturns, ReturnedTakesNothing
<1>4. Suspend => NoneTaken
  BY <1>1, <1>3 DEF Suspend
<1>5. UNCHANGED lanes => NoneTaken
  BY DEF NoneTaken
<1>6. CASE NextReplay
  BY <1>4, <1>6 DEF NextReplay, Suspended
<1>7. CASE ReplayRefused
  BY <1>1, <1>3, <1>4, <1>7 DEF ReplayRefused
<1>8. CASE ReplayResult
  <2>1. PICK r : /\ Appended(r)
                 /\ UNCHANGED lanes \/ Return(r, "failed")
    BY <1>8, ReplayResultAppends
  <2>2. Resumable(r)
    BY <1>1, <2>1, AppendedIsResumable
  <2> QED BY <1>3, <1>5, <2>1, <2>2
<1>9. CASE CompleteAttempt
  <2>1. CASE Return(run, "succeeded")
    BY <1>1, <1>3, <2>1
  <2>2. CASE UNCHANGED lanes
    BY <1>5, <2>2
  <2> QED BY <1>9, <2>1, <2>2 DEF CompleteAttempt
<1>10. CASE CompletionConflict
  BY <1>4, <1>10, AtRestTakesNothing DEF CompletionConflict, Throw
<1> QED BY <1>6, <1>7, <1>8, <1>9, <1>10 DEF BackflowStep

\* Nor does the handling of a result.
LEMMA HandleTakesNothing ==
  ASSUME WorkerAssumption, IInv, Handle
  PROVE  NoneTaken /\ UNCHANGED <<task, rows>>
<1>1. Process /\ attempts \in Seq(Attempt) /\ pc = "handling" /\ Recorded(run) /\ lanes = AllOff
  BY DEF IInv, Process, ProcessTyped, Typed, Handle, Recorded, LaneInv
<1>2. ASSUME NEW r, NEW stop, Continue(r, stop) PROVE NoneTaken
  BY <1>2, AtRestTakesNothing DEF Continue, ReadyLanes
<1>3. ASSUME NEW r, Recorded(r), r.caller = "result", NEW rule, Backflow(r, rule) PROVE NoneTaken
  BY <1>1, <1>3, RecordedIsResumable, BackflowTakesNothing
<1> QED BY <1>2, <1>3, HandleGoesOn DEF Handle

\* A lane that is refused is not let in, nor is another.
LEMMA RefusedTakesNothing ==
  ASSUME WorkerAssumption, IInv, NEW l \in Lanes, lanes[l].pc # "off", Refused(l)
  PROVE  NoneTaken
<1>1. lanes \in [Lanes -> Lane]
  BY DEF IInv, ProcessTyped
<1>2. CASE Sharing
  <2>1. ~Replaying
    BY <1>2 DEF IInv, RunInv, Between, Sharing, Replaying
  <2> QED BY <1>1, <1>2, <2>1 DEF Refused, NoneTaken, Off, Manned, Rowed
<1>3. CASE ~Sharing
  BY <1>3, AtRestTakesNothing DEF Refused
<1> QED BY <1>2, <1>3

\* No step of a run but those of its lanes lets one in, or moves a stopped task.
LEMMA RestTakesNothing ==
  ASSUME WorkerAssumption, IInv, ~Active,
         \/ NextWave \/ LanesDrained \/ Handle \/ BackflowStep
         \/ FinalRead \/ FinalWrite \/ Consume \/ ReportFailure \/ Crash
  PROVE  NoneTaken /\ UNCHANGED <<task, rows>>
<1>1. UNCHANGED lanes => NoneTaken
  BY DEF NoneTaken
<1>2. CASE NextWave
  <2>1. Process
    BY DEF IInv, Process
  <2>2. NoneTaken
    <3>1. CASE lanes' \in [Lanes -> {Off, [Off EXCEPT !.pc = "ready"]}]
      <4>1. \A l \in Lanes : lanes'[l].pc \in {"off", "ready"}
        BY <3>1 DEF Off
      <4> QED BY <4>1 DEF NoneTaken, Manned, Rowed
    <3> QED BY <1>1, <1>2, <2>1, <3>1, NextWaveGoesOn, AtRestTakesNothing
  <2> QED BY <1>2, <2>2 DEF NextWave, stored
<1>3. CASE LanesDrained
  BY <1>1, <1>3 DEF LanesDrained, stored
<1>4. CASE Handle \/ BackflowStep
  BY <1>4, HandleTakesNothing, ReplayTakesNothing
<1>5. CASE FinalRead \/ FinalWrite \/ Consume \/ ReportFailure
  BY <1>1, <1>5 DEF FinalRead, FinalWrite, Consume, ReportFailure, stored, IInv, RunInv, Active
<1>6. CASE Crash
  BY <1>6, AtRestTakesNothing DEF Crash, stored
<1> QED BY <1>2, <1>3, <1>4, <1>5, <1>6

\* A lane that throws lets no other in.
LEMMA ThrowTakesNothing ==
  ASSUME WorkerAssumption, IInv, NEW l \in Lanes, LaneThrows(l)
  PROVE  NoneTaken /\ UNCHANGED stored
<1>1. CASE Throw
  BY <1>1, AtRestTakesNothing DEF Throw, LaneThrows
<1>2. CASE lanes' = [lanes EXCEPT ![l] = Off]
  <2>1. lanes \in [Lanes -> Lane]
    BY DEF IInv, ProcessTyped
  <2> QED BY <1>2, <2>1 DEF NoneTaken, Off, Manned, Rowed, LaneThrows
<1> QED BY <1>1, <1>2 DEF LaneThrows

\* Of a stopped task a lane only goes on with the worker it has been let in for.
LEMMA LaneStops ==
  ASSUME WorkerAssumption, IInv, ~Active, NEW l \in Lanes,
         \/ LaneAlive(l) \/ LaneClaims(l) \/ LaneSkips(l) \/ LanePublishes(l)
         \/ LaneConflicts(l) \/ LaneFails(l)
  PROVE  NoneTaken /\ task' = task /\ Len(rows') = Len(rows)
<1>1. lanes \in [Lanes -> Lane] /\ rows \in Seq(Row)
  BY DEF IInv, ProcessTyped, Typed
<1>2. CASE LaneAlive(l)
  <2>1. CASE Refused(l)
    BY <1>2, <2>1, RefusedTakesNothing DEF LaneAlive, stored
  <2>2. CASE lanes' = [lanes EXCEPT ![l].pc = "off"]
    <3>1. NoneTaken
      BY <1>1, <2>2 DEF NoneTaken, Manned, Rowed
    <3> QED BY <1>2, <3>1 DEF LaneAlive, stored
  <2> QED BY <1>2, <2>1, <2>2 DEF LaneAlive
<1>3. CASE LaneClaims(l)
  <2>1. lanes[l].pc # "off" /\ UNCHANGED stored
    BY <1>3 DEF LaneClaims
  <2>2. CASE lanes' = [lanes EXCEPT ![l] = Off]
    <3>1. NoneTaken
      BY <1>1, <2>2 DEF NoneTaken, Off, Manned, Rowed
    <3> QED BY <2>1, <3>1 DEF stored
  <2>3. CASE Refused(l)
    BY <2>1, <2>3, RefusedTakesNothing DEF stored
  <2> QED BY <1>3, <2>2, <2>3, LaneClaimsTakes
<1>4. CASE LaneSkips(l)
  <2>1. Len(rows') = Len(rows)
    BY <1>1, <1>4 DEF LaneSkips
  <2> QED BY <1>4, <2>1, RefusedTakesNothing DEF LaneSkips
<1>5. CASE LanePublishes(l)
  <2>1. Len(rows') = Len(rows)
    <3>1. lanes[l].result.row \in DOMAIN rows /\ ResultOK(lanes[l].result)
      BY <1>5 DEF IInv, LaneInv, LanePublishes, ProcessTyped, Rowed
    <3> QED BY <1>5, <3>1, PublicationSets DEF IInv, LanePublishes
  <2>2. NoneTaken
    <3>1. CASE lanes' = AllOff
      BY <3>1, AtRestTakesNothing
    <3>2. CASE lanes' = [lanes EXCEPT ![l] = [Off EXCEPT !.pc = "ready"]]
      BY <1>1, <3>2 DEF NoneTaken, Off, Manned, Rowed
    <3> QED BY <1>5, <3>1, <3>2 DEF LanePublishes
  <2> QED BY <1>5, <2>1, <2>2 DEF LanePublishes
<1>6. CASE LaneConflicts(l) \/ LaneFails(l)
  BY <1>6, ThrowTakesNothing DEF LaneConflicts, LaneFails, stored
<1> QED BY <1>2, <1>3, <1>4, <1>5, <1>6

\* The end of a model call adds no row and moves its own lane only.
LEMMA WorkerOnlyEnds ==
  ASSUME IInv, NEW l \in Lanes, WorkerEnds(l)
  PROVE  /\ task' = task /\ Len(rows') = Len(rows)
         /\ \A m \in Lanes : lanes'[m].pc = IF m = l THEN "ended" ELSE lanes[m].pc
<1> DEFINE n == lanes[l].row
<1>1. lanes \in [Lanes -> Lane] /\ lanes[l] \in Lane /\ rows \in Seq(Row)
  BY DEF IInv, ProcessTyped, Typed
<1>2. PICK acts \in BOOLEAN, stopped \in BOOLEAN, status \in {"succeeded", "failed"} :
        /\ rows' = [rows EXCEPT ![n].logged = TRUE,
                               ![n].status = IF status = "failed" THEN "failed" ELSE @]
        /\ lanes' = [lanes EXCEPT ![l].pc = "ended", ![l].result =
             [status |-> status, row |-> n, acts |-> acts, stopped |-> stopped]]
        /\ task' = task
  BY DEF WorkerEnds
<1> HIDE DEF n
<1>3. Len(rows') = Len(rows)
  BY <1>1, <1>2
<1>4. ASSUME NEW v \in Lane, NEW res PROVE [v EXCEPT !.pc = "ended", !.result = res].pc = "ended"
  BY DEF Lane
<1>5. \A m \in Lanes : lanes'[m].pc = IF m = l THEN "ended" ELSE lanes[m].pc
  BY <1>1, <1>2, <1>4
<1> QED BY <1>2, <1>3, <1>5

\* A lane leaves a stopped task as it is, and none is let in.
LEMMA LaneLeavesStopped ==
  ASSUME WorkerAssumption, IInv, ~Active, NEW l \in Lanes, LaneStep(l) \/ WorkerEnds(l) \/ LaneFails(l)
  PROVE  task' = task /\ \A m \in Lanes : ~LetIn(m)
<1>1. lanes \in [Lanes -> Lane]
  BY DEF IInv, ProcessTyped
<1>2. NoneTaken => \A m \in Lanes : ~LetIn(m)
  BY DEF NoneTaken, LetIn, Manned, Rowed
<1>3. CASE \/ LaneAlive(l) \/ LaneClaims(l) \/ LaneSkips(l) \/ LanePublishes(l)
           \/ LaneConflicts(l) \/ LaneFails(l)
  BY <1>2, <1>3, LaneStops
<1>4. CASE LaneEnters(l)
  <2>1. task' = task /\ lanes' = [lanes EXCEPT ![l].pc = "created", ![l].row = Len(rows) + 1]
    BY <1>4 DEF LaneEnters
  <2>2. ASSUME NEW v \in Lane, NEW n PROVE [v EXCEPT !.pc = "created", !.row = n].pc = "created"
    BY DEF Lane
  <2>3. \A m \in Lanes : lanes'[m].pc = IF m = l THEN "created" ELSE lanes[m].pc
    BY <1>1, <2>1, <2>2
  <2>4. \A m \in Lanes : ~LetIn(m)
    BY <2>3 DEF LetIn
  <2> QED BY <2>1, <2>4
<1>5. CASE LaneGoesOn(l)
  <2>1. ASSUME NEW p \in {"marked", "entered", "skipping", "invoking"}, Goes(l, p)
        PROVE  \A m \in Lanes : ~LetIn(m)
    <3>1. \A m \in Lanes : lanes'[m].pc = IF m = l THEN p ELSE lanes[m].pc
      BY <1>1, <2>1 DEF Goes, Lane
    <3> QED BY <3>1 DEF LetIn
  <2>2. \A m \in Lanes : ~LetIn(m)
    BY <1>5, <2>1 DEF LaneGoesOn, LaneMarks, LaneSees, LaneActivates, LaneLooks, LaneInvokes
  <2>3. task' = task
    BY <1>5 DEF LaneGoesOn, LaneMarks, LaneSees, LaneActivates, LaneLooks, LaneInvokes, stored,
                IInv, LaneInv, Rowed, Active
  <2> QED BY <2>2, <2>3
<1>6. CASE WorkerEnds(l)
  BY <1>6, WorkerOnlyEnds DEF LetIn
<1> QED BY <1>3, <1>4, <1>5, <1>6 DEF LaneStep, LaneGoesOn

\* So does every step of a run.
LEMMA RunLeavesStopped ==
  ASSUME WorkerAssumption, IInv, ~Active, process' # process, [Next]_vars
  PROVE  task' = task /\ \A l \in Lanes : ~LetIn(l)
<1>1. NoneTaken => \A l \in Lanes : ~LetIn(l)
  BY DEF NoneTaken, LetIn, Manned, Rowed
<1>2. ~Begin
  BY DEF Begin, StartPlan, QualityFails, ResumeQuality, Active
<1>3. CASE \/ NextWave \/ LanesDrained \/ Handle \/ BackflowStep
           \/ FinalRead \/ FinalWrite \/ Consume \/ ReportFailure \/ Crash
  BY <1>1, <1>3, RestTakesNothing
<1>4. CASE \E l \in Lanes : LaneStep(l) \/ WorkerEnds(l) \/ LaneFails(l)
  BY <1>4, LaneLeavesStopped
<1>5. CASE Pause \/ Resume \/ Cancel \/ (\E n \in open : Settle(n)) \/ UNCHANGED vars
  BY <1>5 DEF Pause, Resume, Cancel, Settle, process, vars
<1> QED BY <1>2, <1>3, <1>4, <1>5 DEF Next, RunStep

(* A task that was paused or cancelled is left so by every step of a run, *)
(* at every await of a lane, and no further lane is let in to start a     *)
(* worker or to call a model (isTaskRunActive, runWorkerStepBody and      *)
(* setActiveWorkerTaskStatus).  A lane that has looked goes on: see       *)
(* StopsInOneTurn.  A cancelled task has no open proposals.               *)
THEOREM StopsAlwaysHold == Spec => StopsHold
<1>1. IInv /\ [Next]_vars =>
        [(~Active /\ process' # process) => task' = task /\ \A l \in Lanes : ~LetIn(l)]_vars
  BY WorkerAssumption, RunLeavesStopped
<1>2. IInv => CancelledIsQuiet
  BY DEF IInv
<1> QED BY <1>1, <1>2, Inductive, PTL DEF Spec, StopsHold, PauseHolds

-----------------------------------------------------------------------------
(* With the synchronous gateway it stops at once *)

\* The lane is not between a look at the task and what it does next.
Resting == {"off", "ready", "invoking", "ended"}

\* A stop finds every lane at rest: the user acts only while the run waits for its models.
TurnInv == OneTurn /\ ~Active => \A l \in Lanes : lanes[l].pc \in Resting

\* No step is added, and no model called, and the lanes still rest.
StaysAtRest ==
  /\ ~Starts
  /\ \A l \in Lanes : /\ lanes'[l].pc \in Resting
                      /\ lanes'[l].pc = "invoking" => lanes[l].pc = "invoking"

\* A stopped task whose lanes rest starts nothing, and they still rest.
LEMMA StoppedRests ==
  ASSUME WorkerAssumption, IInv, OneTurn, ~Active, TurnInv, [Next]_vars
  PROVE  StaysAtRest
<1>1. lanes' \in [Lanes -> Lane] /\ rows \in Seq(Row)
  BY StepKeeps DEF IInv, ProcessTyped, Typed
<1>2. \A l \in Lanes : lanes[l].pc \in Resting
  BY DEF TurnInv
<1>3. NoneTaken /\ Len(rows') = Len(rows) => StaysAtRest
  <2> HAVE NoneTaken /\ Len(rows') = Len(rows)
  <2>1. \A l \in Lanes : lanes'[l].pc \in {"off", "ready", "alive"} \cup Manned
    BY <1>1 DEF Lane
  <2>2. ~Starts
    BY <1>1 DEF Starts
  <2> QED BY <1>2, <2>1, <2>2 DEF NoneTaken, Resting, Manned, Rowed, StaysAtRest
<1>4. UNCHANGED lanes => NoneTaken
  BY DEF NoneTaken
<1>5. ~Begin
  BY DEF Begin, StartPlan, QualityFails, ResumeQuality, Active
<1>6. CASE \/ NextWave \/ LanesDrained \/ Handle \/ BackflowStep
           \/ FinalRead \/ FinalWrite \/ Consume \/ ReportFailure \/ Crash
  BY <1>3, <1>6, RestTakesNothing
<1>7. ASSUME NEW l \in Lanes, LaneStep(l) \/ WorkerEnds(l) \/ LaneFails(l) PROVE StaysAtRest
  <2>1. CASE WorkerEnds(l)
    BY <1>1, <1>2, <2>1, WorkerOnlyEnds DEF StaysAtRest, Starts, Resting
  <2>2. ~LaneEnters(l) /\ ~LaneGoesOn(l)
    BY <1>2 DEF LaneEnters, LaneGoesOn, LaneMarks, LaneSees, LaneActivates, LaneLooks, LaneInvokes,
                Resting
  <2> QED BY <1>3, <1>7, <2>1, <2>2, LaneStops DEF LaneStep, LaneGoesOn
<1>8. CASE Pause \/ Resume \/ Cancel \/ (\E n \in open : Settle(n)) \/ UNCHANGED vars
  BY <1>3, <1>4, <1>8 DEF Pause, Resume, Cancel, Settle, process, vars, stored
<1> QED BY <1>5, <1>6, <1>7, <1>8 DEF Next, RunStep

\* Whoever stops the task, the lanes rest when it is stopped.
LEMMA StopFindsRest ==
  ASSUME WorkerAssumption, IInv, OneTurn, Active, ~Active', [Next]_vars
  PROVE  \A l \in Lanes : lanes'[l].pc \in Resting
<1>1. lanes = AllOff => \A l \in Lanes : lanes[l].pc \in Resting
  BY DEF AllOff, Off, Resting
<1>2. CASE Pause \/ Cancel
  <2>1. Waiting /\ UNCHANGED lanes
    BY <1>2 DEF Pause, Cancel, Move, Yields, process
  <2> QED BY <1>1, <2>1 DEF Waiting, Resting, IInv, LaneInv
<1>3. CASE FinalWrite
  BY <1>1, <1>3 DEF FinalWrite, IInv, LaneInv
<1>4. ~Begin
  BY DEF Begin, StartPlan, QualityFails, ResumeQuality, StartBackflow, SetActive, Active
<1>5. ~(NextWave \/ LanesDrained \/ Handle \/ BackflowStep \/ FinalRead \/ Consume \/ Crash)
  BY DEF NextWave, LanesDrained, Handle, BackflowStep, NextReplay, ReplayRefused, ReplayResult,
         CompleteAttempt, CompletionConflict, FinalRead, Consume, Crash, stored, Active
<1>6. ~(ReportFailure \/ Resume \/ \E n \in open : Settle(n)) /\ ~UNCHANGED vars
  BY DEF ReportFailure, Resume, Settle, vars, stored, Active
<1>7. ~\E l \in Lanes : LaneStep(l) \/ WorkerEnds(l) \/ LaneFails(l)
  BY DEF LaneStep, LaneAlive, LaneClaims, LaneEnters, LaneMarks, LaneSees, LaneActivates,
         LaneConflicts, LaneLooks, LaneInvokes, LaneSkips, LanePublishes, WorkerEnds, LaneFails,
         LaneThrows, stored, Active
<1> QED BY <1>2, <1>3, <1>4, <1>5, <1>6, <1>7 DEF Next, RunStep

\* With the synchronous gateway the lanes of a stopped task rest.
LEMMA TurnHolds == Spec => [](IInv /\ TurnInv)
<1>1. Init => TurnInv
  BY DEF Init, TurnInv, Active
<1>2. IInv /\ TurnInv /\ [Next]_vars => TurnInv'
  BY WorkerAssumption, StoppedRests, StopFindsRest DEF TurnInv, StaysAtRest
<1> QED BY <1>1, <1>2, Inductive, PTL DEF Spec

(* Where the user acts only while the run waits for its models, as with   *)
(* the synchronous gateway, a lane is never between its look at the task  *)
(* and what it does next: a stopped task starts and calls nothing.        *)
THEOREM StopsInOneTurn == Spec => StopsAtOnce
<1>1. IInv /\ TurnInv /\ [Next]_vars =>
        [OneTurn /\ ~Active =>
           ~Starts /\ \A l \in Lanes : lanes'[l].pc = "invoking" => lanes[l].pc = "invoking"]_vars
  BY WorkerAssumption, StoppedRests DEF StaysAtRest
<1> QED BY <1>1, TurnHolds, PTL DEF Spec, StopsAtOnce

\* Every variable, also the run in memory and its lanes, has its type.
THEOREM TypeCorrect == Spec => []TypeOK
<1>1. IInv => TypeOK
  <2> SUFFICES ASSUME IInv PROVE TypeOK
    OBVIOUS
  <2>1. /\ \A n \in DOMAIN rows : rows[n] \in Row
        /\ \A k \in DOMAIN attempts : attempts[k] \in Attempt
    BY DEF IInv, Typed
  <2>2. /\ DOMAIN lanes = Lanes
        /\ \A l \in Lanes : lanes[l].pc \in
             {"off", "ready", "alive", "claimed", "created", "marked", "activating", "entered",
              "calling", "skipping", "invoking", "ended"}
    BY DEF IInv, ProcessTyped, Lane, Manned, Rowed
  <2>3. pc \in {"off", "waves", "lane", "lanes", "handling", "backflow", "refused", "replayed",
                "completing", "conflict", "final", "publishing", "consuming", "throwing"}
    BY DEF IInv, RunInv, Places, Replays, Between
  <2> QED BY <2>1, <2>2, <2>3 DEF IInv, Typed, TypeOK, Attempt
<1> QED BY <1>1, Inductive, PTL

-----------------------------------------------------------------------------
(* What a step of a lane leaves as it is *)

\* What the lanes and the search for the next wave do not decide.
Kept(r) == /\ r.kind = run.kind /\ r.caller = run.caller /\ r.attempt = run.attempt
           /\ r.failed = run.failed /\ r.pending = run.pending /\ r.waiting = run.waiting
           /\ r.at = run.at /\ r.items = run.items

\* Where a step of a lane leaves the run.
LanePlace ==
  \/ pc' = pc /\ run'.wave = run.wave
  \/ pc = "lane" /\ run.attempt = 0 /\ pc' = "handling" /\ run'.wave = run.wave
  \/ pc = "lane" /\ run.attempt # 0 /\ pc' \in {"refused", "replayed"} /\ run'.wave = run.wave
  \/ pc = "lane" /\ run.attempt = 0 /\ pc' = "waves"
  \/ pc' = "throwing"

\* A lane that is refused leaves the run at its result.
LEMMA RefusedStays ==
  ASSUME IInv, NEW l \in Lanes, lanes[l].pc # "off", NEW r, IsRun(r), Kept(r), r.wave = run.wave,
         run' = WaveAfterRefusal(r), Refused(l)
  PROVE  Kept(run') /\ LanePlace
<1>1. pc \in {"lane", "lanes"} /\ (Sharing => ~Replaying)
  BY DEF IInv, RunInv, LaneInv, AllOff, Off, Between, Sharing, Replaying
<1>2. CASE Sharing \/ Replaying
  BY <1>1, <1>2 DEF WaveAfterRefusal, Refused, LanePlace, Kept, Sharing, Replaying
<1>3. CASE ~Sharing /\ ~Replaying
  <2>1. run' = [r EXCEPT !.wave = @ + 1] /\ pc' = "waves" /\ pc = "lane" /\ run.attempt = 0
    BY <1>1, <1>3 DEF WaveAfterRefusal, Refused, Sharing, Replaying
  <2> QED BY <2>1 DEF LanePlace, Kept, IsRun, Fields
<1> QED BY <1>2, <1>3

\* A step of a lane leaves the run in its wave, or at its results, with what it knew.
LEMMA LaneStays ==
  ASSUME WorkerAssumption, IInv, NEW l \in Lanes, LaneStep(l) \/ WorkerEnds(l) \/ LaneFails(l)
  PROVE  Kept(run') /\ LanePlace /\ UNCHANGED <<attempts, consent>> /\ pc \in {"lane", "lanes"}
<1>1. /\ IsRun(run) /\ Kept(run) /\ UNCHANGED <<attempts, consent>>
      /\ lanes[l].pc # "off" /\ pc \in {"lane", "lanes"}
  <2>1. lanes[l].pc # "off" /\ UNCHANGED <<attempts, consent>>
    <3>1. CASE LaneAlive(l) \/ LaneSkips(l)
      BY <3>1 DEF LaneAlive, LaneSkips, stored
    <3>2. CASE LaneClaims(l) \/ LaneEnters(l)
      BY <3>2 DEF LaneClaims, LaneEnters, stored
    <3>3. CASE LanePublishes(l)
      BY <3>3 DEF LanePublishes, stored
    <3>4. CASE WorkerEnds(l)
      BY <3>4 DEF WorkerEnds, stored
    <3>5. CASE LaneFails(l) \/ LaneConflicts(l)
      BY <3>5 DEF LaneFails, LaneConflicts, LaneThrows, stored
    <3>6. CASE LaneGoesOn(l)
      BY <3>6, LaneGoes DEF Rowed
    <3> QED BY <3>1, <3>2, <3>3, <3>4, <3>5, <3>6 DEF LaneStep, LaneGoesOn
  <2>2. AllOff[l].pc = "off"
    BY DEF AllOff, Off
  <2>3. pc \in {"lane", "lanes"}
    BY <2>1, <2>2 DEF IInv, LaneInv
  <2> QED BY <2>1, <2>3 DEF IInv, ProcessTyped, Kept
<1> SUFFICES Kept(run') /\ LanePlace
  BY <1>1
<1>2. pc' = pc /\ run' = run => Kept(run') /\ LanePlace
  BY <1>1 DEF LanePlace
<1>3. CASE LaneAlive(l) \/ LaneSkips(l)
  BY <1>1, <1>2, <1>3, RefusedStays DEF LaneAlive, LaneSkips
<1>4. CASE LaneEnters(l) \/ LaneGoesOn(l) \/ WorkerEnds(l)
  BY <1>2, <1>4, LaneGoes DEF LaneEnters, WorkerEnds
<1>5. CASE LaneClaims(l)
  <2>1. ASSUME NEW item, NEW w, NEW r, Taken(l, item, w, r)
        PROVE  IsRun(r) /\ Kept(r) /\ r.wave = run.wave
    <3>1. IsRun(r) /\ (r = run \/ r = [run EXCEPT !.next = item])
      BY <2>1 DEF Taken
    <3>2. CASE r = [run EXCEPT !.next = item]
      BY <1>1, <3>1, <3>2 DEF Kept, IsRun, Fields
    <3> QED BY <1>1, <3>1, <3>2
  <2>2. ASSUME NEW item, NEW w, NEW r, Taken(l, item, w, r),
               \/ Refused(l) /\ run' = WaveAfterRefusal(r)
               \/ run' = r /\ pc' = pc
        PROVE  Kept(run') /\ LanePlace
    BY <1>1, <2>1, <2>2, RefusedStays DEF LanePlace
  <2> QED BY <1>2, <1>5, <2>2, LaneClaimsTakes
<1>6. CASE LanePublishes(l)
  <2> DEFINE res == lanes[l].result
             told == [run EXCEPT !.proposed = IF open' # open THEN @ \cup {res.row} ELSE @]
  <2>1. IsRun(told) /\ Kept(told) /\ told.wave = run.wave
    <3> HIDE DEF res
    <3> QED BY <1>1 DEF IsRun, Fields, Kept
  <2>2. \/ Sharing /\ run' = [told EXCEPT !.results[lanes[l].item] = res] /\ pc' = pc
        \/ ~Sharing /\ Replaying /\ run' = [told EXCEPT !.result = res] /\ pc' = "replayed"
        \/ ~Sharing /\ ~Replaying /\ run' = [told EXCEPT !.results[lanes[l].item] = res]
           /\ pc' = "handling"
    <3>1. Sharing => ~Replaying
      BY DEF IInv, RunInv, Between, Sharing, Replaying
    <3> QED BY <1>6, <3>1 DEF LanePublishes
  <2> HIDE DEF told, res
  <2>3. Kept(run') /\ run'.wave = run.wave
    <3>1. CASE run' = [told EXCEPT !.results[lanes[l].item] = res]
      BY <2>1, <3>1 DEF IsRun, Fields, Kept
    <3>2. CASE run' = [told EXCEPT !.result = res]
      BY <2>1, <3>2 DEF IsRun, Fields, Kept
    <3> QED BY <2>2, <3>1, <3>2
  <2> QED BY <1>1, <2>2, <2>3 DEF LanePlace, Sharing, Replaying
<1>7. CASE LaneFails(l) \/ LaneConflicts(l)
  <2>1. LaneThrows(l)
    BY <1>7 DEF LaneFails, LaneConflicts
  <2>2. Kept(run') /\ run'.wave = run.wave
    BY <1>1, <2>1 DEF LaneThrows, Kept, IsRun, Fields, Throw
  <2> QED BY <2>1, <2>2 DEF LaneThrows, LanePlace, Throw
<1> QED BY <1>3, <1>4, <1>5, <1>6, <1>7 DEF LaneStep, LaneGoesOn

-----------------------------------------------------------------------------
(* A plan does not go on behind a repair that failed *)

\* A run of the plan knows that a repair failed.
KnowsFailure == run.kind = "plan" /\ pc \notin {"off", "throwing"} /\ FailedRepairs # {} => run.failed

\* A run that is still in a wave has no failure to go back on, but in what is left to handle of a
\* parallel wave.
WaveIsGood == InWave /\ (pc = "lanes" \/ ~Parallel(run.wave)) => ~run.failed

FailInv == KnowsFailure /\ WaveIsGood

\* No other repair counts as failed than before.
NoNewFailure == FailedRepairs' \subseteq FailedRepairs

\* An attempt that begins, or is refused for its limit, is no failed repair yet.
LEMMA AddedIsNoFailure ==
  ASSUME attempts \in Seq(Attempt), NEW rule, NEW status \in {"running", "max_attempts_reached"},
         attempts' = Append(attempts, [rule |-> rule, status |-> status])
  PROVE  NoNewFailure
<1> DEFINE n == Len(attempts) + 1
           new == [rule |-> rule, status |-> status]
<1>1. /\ DOMAIN attempts' = DOMAIN attempts \cup {n} /\ attempts'[n] = new
      /\ \A k \in DOMAIN attempts : attempts'[k] = attempts[k]
  BY DEF Attempt
<1>2. new.status # "failed"
  OBVIOUS
<1> HIDE DEF new, n
<1> QED BY <1>1, <1>2 DEF NoNewFailure, FailedRepairs

\* Nor is one that succeeds.
LEMMA SetIsNoFailure ==
  ASSUME attempts \in Seq(Attempt), attempts' = [attempts EXCEPT ![run.attempt].status = "succeeded"]
  PROVE  NoNewFailure
<1>1. /\ DOMAIN attempts' = DOMAIN attempts
      /\ \A k \in DOMAIN attempts : attempts'[k].rule = attempts[k].rule
      /\ \A k \in DOMAIN attempts :
           attempts'[k].status = IF k = run.attempt THEN "succeeded" ELSE attempts[k].status
  BY StatusIsSet
<1> QED BY <1>1 DEF NoNewFailure, FailedRepairs

\* The end of a backflow tells the run of its failure.
LEMMA ReturnedIsGood ==
  ASSUME NEW r, NEW outcome, Returned(r, outcome), Resumable(r),
         NoNewFailure \/ outcome = "failed",
         r.kind = "plan" /\ FailedRepairs # {} => r.failed,
         r.kind = "plan" /\ r.caller = "result" /\ ~Parallel(r.wave) => ~r.failed
  PROVE  FailInv'
<1>1. /\ run'.kind = r.kind /\ run'.failed = (r.failed \/ outcome = "failed") /\ IsRun(r)
      /\ r.kind = "plan" => r.caller # "quality"
  BY DEF Returned, Same, Resumable, Called
<1>2. KnowsFailure'
  BY <1>1 DEF KnowsFailure, NoNewFailure
<1>3. WaveIsGood'
  <2>1. CASE pc' \in {"final", "waves"}
    BY <2>1 DEF WaveIsGood, InWave, Replays
  <2>2. CASE r.caller = "result" /\ Onward(r, outcome = "failed")
    BY <1>1, <2>1, <2>2 DEF WaveIsGood, InWave, OfWave, Onward, Replays, IsRun
  <2> QED BY <2>1, <2>2 DEF Returned
<1> QED BY <1>2, <1>3 DEF FailInv

\* The beginning of one adds no failure.
LEMMA EnteredIsGood ==
  ASSUME NEW r, NEW k, Entered(r, k), k # 0, NoNewFailure,
         r.kind = "plan" /\ FailedRepairs # {} => r.failed,
         r.kind = "plan" /\ r.caller = "result" /\ ~Parallel(r.wave) => ~r.failed
  PROVE  FailInv'
BY DEF Entered, Same, NoNewFailure, FailInv, KnowsFailure, WaveIsGood, InWave, OfWave

\* So a backflow that begins or is refused keeps what is known of failures.
LEMMA BackflowIsGood ==
  ASSUME WorkerAssumption, attempts \in Seq(Attempt), NEW r, Resumable(r), NEW rule, Backflow(r, rule),
         r.kind = "plan" /\ FailedRepairs # {} => r.failed,
         r.kind = "plan" /\ r.caller = "result" /\ ~Parallel(r.wave) => ~r.failed
  PROVE  FailInv'
<1>1. BackflowDone(r, rule)
  BY BackflowGoesOn DEF Resumable, Called, AtWave
<1>2. attempts' = attempts => NoNewFailure
  BY DEF NoNewFailure, FailedRepairs
<1>3. CASE /\ Returned(r, "failed")
           /\ attempts' = Append(attempts, [rule |-> rule, status |-> "max_attempts_reached"])
  BY <1>3, ReturnedIsGood
<1>4. CASE /\ Entered(r, Len(attempts) + 1)
           /\ attempts' = Append(attempts, [rule |-> rule, status |-> "running"])
  <2>1. NoNewFailure
    BY <1>4, AddedIsNoFailure
  <2>2. Len(attempts) + 1 # 0
    OBVIOUS
  <2> QED BY <1>4, <2>1, <2>2, EnteredIsGood
<1>5. CASE attempts' = attempts /\ \E k \in RunningOf(rule) : Entered(r, k)
  <2>1. PICK k \in RunningOf(rule) : Entered(r, k)
    BY <1>5
  <2>2. k # 0
    BY DEF RunningOf, RunningAttempts
  <2> QED BY <1>2, <1>5, <2>1, <2>2, EnteredIsGood
<1> QED BY <1>1, <1>3, <1>4, <1>5 DEF BackflowDone

\* What a run in the middle of a backflow, or at a result, knows of failures.
LEMMA RunIsGood ==
  ASSUME IInv, FailInv, pc \in Replays \cup {"handling"}
  PROVE  /\ Resumable(run) /\ attempts \in Seq(Attempt)
         /\ run.kind = "plan" /\ FailedRepairs # {} => run.failed
         /\ run.kind = "plan" /\ (run.caller = "result" \/ run.attempt = 0) /\ ~Parallel(run.wave) => ~run.failed
<1>1. Resumable(run) /\ attempts \in Seq(Attempt)
  BY ReplayIsResumable DEF IInv, Process, Typed
<1> QED BY <1>1 DEF FailInv, KnowsFailure, WaveIsGood, InWave, OfWave, Replays

\* Every step of a backflow keeps it.
LEMMA ReplayIsGood ==
  ASSUME WorkerAssumption, IInv, FailInv, BackflowStep
  PROVE  FailInv'
<1>1. pc \in Replays
  BY DEF BackflowStep, NextReplay, ReplayRefused, ReplayResult, CompleteAttempt, CompletionConflict,
     Replays
<1>2. /\ Resumable(run) /\ attempts \in Seq(Attempt) /\ IsRun(run) /\ run.attempt # 0
      /\ run.kind = "plan" /\ FailedRepairs # {} => run.failed
      /\ run.kind = "plan" /\ run.caller = "result" /\ ~Parallel(run.wave) => ~run.failed
  BY <1>1, RunIsGood DEF Resumable, IInv, RunInv
<1>3. attempts' = attempts => NoNewFailure
  BY DEF NoNewFailure, FailedRepairs
<1>4. ASSUME NEW r, Appended(r), NEW outcome, Return(r, outcome), NoNewFailure \/ outcome = "failed"
      PROVE  FailInv'
  <2>1. Resumable(r) /\ Returned(r, outcome)
    BY <1>2, <1>4, AppendedIsResumable, RunReturns
  <2> QED BY <1>2, <1>4, <2>1, ReturnedIsGood DEF Appended, Same
<1>5. Appended(run)
  BY <1>2 DEF Appended, Same
<1>6. CASE Suspend
  BY <1>3, <1>4, <1>5, <1>6 DEF Suspend
<1>7. ASSUME NEW r, Appended(r), run' = r, attempts' = attempts, pc' \in Replays \cup {"lane", "throwing"}
      PROVE  FailInv'
  BY <1>2, <1>3, <1>7 DEF Appended, Same, FailInv, KnowsFailure, WaveIsGood, InWave, OfWave, NoNewFailure,
     Replays
<1>8. CASE NextReplay
  <2>1. ASSUME run' = [run EXCEPT !.todo = Tail(@)], run.todo # <<>> PROVE Appended(run')
    <3>1. Tail(run.todo) \in Seq(Workers)
      BY <1>2, <2>1 DEF IsRun
    <3> QED BY <1>2, <2>1, <3>1 DEF Appended, IsRun, Same, Fields
  <2>2. pc' \in Replays \cup {"lane", "throwing"} \/ Suspend
    BY <1>1, <1>8 DEF NextReplay, Replays
  <2>3. Suspend \/ (attempts' = attempts /\ Appended(run'))
    BY <1>5, <1>8, <2>1 DEF NextReplay
  <2> QED BY <1>6, <1>7, <2>2, <2>3
<1>9. CASE ReplayRefused
  BY <1>4, <1>5, <1>6, <1>9 DEF ReplayRefused
<1>10. CASE ReplayResult
  <2>1. PICK r : /\ Appended(r)
                 /\ \/ pc' = "backflow" /\ run' = r /\ UNCHANGED <<attempts, lanes>>
                    \/ FailAttempt /\ Return(r, "failed")
    BY <1>10, ReplayResultAppends
  <2> QED BY <1>4, <1>7, <2>1 DEF Replays
<1>11. CASE CompleteAttempt
  <2>1. CASE attempts' = [attempts EXCEPT ![run.attempt].status = "succeeded"] /\ Return(run, "succeeded")
    BY <1>2, <1>4, <1>5, <2>1, SetIsNoFailure
  <2>2. CASE pc' = "conflict" /\ UNCHANGED <<attempts, run>>
    BY <1>5, <1>7, <2>2 DEF Replays
  <2> QED BY <1>11, <2>1, <2>2 DEF CompleteAttempt
<1>12. CASE CompletionConflict
  BY <1>5, <1>6, <1>7, <1>12 DEF CompletionConflict, Throw
<1> QED BY <1>8, <1>9, <1>10, <1>11, <1>12 DEF BackflowStep

\* Nothing is known of the run any more, or there is none.
LEMMA OffIsGood ==
  ASSUME pc' \in {"off", "throwing"}
  PROVE  FailInv'
BY DEF FailInv, KnowsFailure, WaveIsGood, InWave, Replays

\* A run that goes on as it was, out of its wave.
LEMMA OutIsGood ==
  ASSUME FailInv, pc \notin {"off", "throwing"}, attempts' = attempts,
         run'.kind = run.kind, run'.failed = run.failed,
         pc' \in {"waves", "final", "publishing", "consuming"}
  PROVE  FailInv'
BY DEF FailInv, KnowsFailure, WaveIsGood, InWave, Replays, FailedRepairs

\* Handling a result keeps it.
LEMMA HandleIsGood ==
  ASSUME WorkerAssumption, IInv, FailInv, Handle
  PROVE  FailInv'
<1>1. pc = "handling" /\ Process /\ Recorded(run) /\ run.attempt = 0 /\ AtWave(run) /\ run.kind = "plan"
  BY DEF Handle, IInv, Process, ProcessTyped, RunInv, Recorded, InWave, OfWave, Between
<1>2. /\ attempts \in Seq(Attempt) /\ (FailedRepairs # {} => run.failed)
      /\ ~Parallel(run.wave) => ~run.failed
  BY <1>1, RunIsGood
<1>3. ASSUME NEW r, Recorded(r), NEW stop \in BOOLEAN, Continue(r, stop), UNCHANGED attempts,
             r.failed = run.failed \/ (r.failed /\ stop)
      PROVE  FailInv'
  <2>1. /\ IsRun(run') /\ Same(r, run') /\ Onward(r, stop) /\ run'.failed = r.failed
    BY <1>1, <1>3, ContinueGoesOn DEF Recorded, AtWave
  <2>2. KnowsFailure'
    BY <1>1, <1>2, <1>3, <2>1 DEF KnowsFailure, FailedRepairs, Same, Recorded
  <2>3. WaveIsGood'
    BY <1>1, <1>2, <1>3, <2>1 DEF WaveIsGood, InWave, Replays, Onward, Recorded, Same
  <2> QED BY <2>2, <2>3 DEF FailInv
<1>4. ASSUME NEW r, Recorded(r), r.failed = run.failed, r.caller = "result",
             NEW rule, Backflow(r, rule)
      PROVE  FailInv'
  <2>1. Resumable(r) /\ r.kind = "plan" /\ r.wave = run.wave
    BY <1>1, <1>4, RecordedIsResumable DEF Recorded
  <2> QED BY <1>2, <1>4, <2>1, BackflowIsGood
<1>5. Result0 = Nothing \/ Result0.acts \in BOOLEAN
  <2>1. run.at + 1 \in DOMAIN run.results
    BY <1>1 DEF Process, ProcessTyped, AtWave, IsRun
  <2> QED BY <1>1, <2>1 DEF Result0, ResultOK, Process, ProcessTyped, IsRun, Result
<1>6. CASE Result0 = Nothing /\ Continue(run, FALSE) /\ UNCHANGED attempts
  BY <1>1, <1>3, <1>6
<1>7. Result0.status \in {"succeeded", "failed"} => Result0.acts \in BOOLEAN
  BY <1>5 DEF Nothing
<1> QED BY <1>3, <1>4, <1>6, <1>7, HandleGoesOn

\* A step of a lane keeps it.
LEMMA LaneIsGood ==
  ASSUME WorkerAssumption, IInv, FailInv, NEW l \in Lanes,
         LaneStep(l) \/ WorkerEnds(l) \/ LaneFails(l)
  PROVE  FailInv'
<1>1. Kept(run') /\ LanePlace /\ attempts' = attempts /\ pc \in {"lane", "lanes"}
  BY LaneStays
<1>2. pc = "lane" /\ run.attempt = 0 => ~Parallel(run.wave)
  BY DEF IInv, RunInv
<1>3. KnowsFailure'
  BY <1>1 DEF FailInv, KnowsFailure, FailedRepairs, Kept
<1>4. WaveIsGood'
  BY <1>1, <1>2 DEF FailInv, WaveIsGood, InWave, OfWave, Kept, LanePlace, Replays
<1> QED BY <1>3, <1>4 DEF FailInv

\* A run begins behind no failed repair.
LEMMA BeginIsGood ==
  ASSUME WorkerAssumption, IInv, FailInv, Begin
  PROVE  FailInv'
<1>1. attempts \in Seq(Attempt) /\ steps \in Nat /\ pc = "off"
  BY DEF IInv, Typed, Begin, StartPlan, QualityFails, ResumeQuality
<1>2. UNCHANGED process => FailInv'
  BY <1>1, OffIsGood DEF process
<1>3. ASSUME NEW rule, StartBackflow(rule) PROVE FailInv'
  <2>1. PICK r : FreshQuality(r) /\ Backflow(r, rule)
    BY <1>1, <1>3, BackflowStarts
  <2> QED BY <1>1, <2>1, BackflowIsGood DEF FreshQuality
<1>4. CASE StartPlan
  <2>1. ASSUME NEW r, FreshPlan(r), FailedRepairs = {}, NEW rule, Backflow(r, rule) PROVE FailInv'
    BY <1>1, <2>1, BackflowIsGood DEF FreshPlan
  <2>2. ASSUME NEW r, FreshPlan(r), FailedRepairs = {}, pc' = "waves", run' = r, attempts' = attempts
        PROVE  FailInv'
    BY <2>2 DEF FailInv, KnowsFailure, WaveIsGood, InWave, Replays, FailedRepairs
  <2> QED BY <1>1, <1>2, <1>4, <2>1, <2>2, StartPlanStarts
<1> QED BY <1>2, <1>3, <1>4 DEF Begin, QualityFails, ResumeQuality

\* Every step keeps what a run knows of failures.
LEMMA StepIsGood ==
  ASSUME WorkerAssumption, IInv, FailInv, [Next]_vars
  PROVE  FailInv'
<1>1. IsRun(run)
  BY DEF IInv, ProcessTyped
<1>2. CASE NextWave
  <2>1. pc = "waves" /\ Process /\ attempts' = attempts
    BY <1>2 DEF NextWave, IInv, Process, stored
  <2>2. CASE ~(run.pending \/ run.failed \/ run.waiting) /\ run'.failed = run.failed
             /\ run'.kind = run.kind
    <3>1. ~run'.failed
      BY <1>1, <2>2 DEF IsRun
    <3> QED BY <2>1, <2>2, <3>1 DEF FailInv, KnowsFailure, WaveIsGood, FailedRepairs
  <2> QED BY <1>2, <2>1, <2>2, OutIsGood, NextWaveGoesOn DEF Same
<1>3. CASE LanesDrained
  BY <1>3 DEF LanesDrained, FailInv, KnowsFailure, WaveIsGood, InWave, FailedRepairs, stored, OfWave,
     Replays, Sharing, IInv, RunInv
<1>4. CASE Handle \/ BackflowStep \/ Begin
  BY <1>4, HandleIsGood, ReplayIsGood, BeginIsGood
<1>5. CASE FinalRead \/ FinalWrite
  <2>1. attempts' = attempts /\ pc \in {"final", "publishing"}
        /\ pc' \in {"publishing", "consuming", "throwing"}
    BY <1>5 DEF FinalRead, FinalWrite, stored
  <2>2. run'.kind = run.kind /\ run'.failed = run.failed
    BY <1>1, <1>5 DEF FinalRead, FinalWrite, IsRun, Fields
  <2> QED BY <2>1, <2>2, OutIsGood, OffIsGood
<1>6. CASE Consume \/ ReportFailure \/ Crash
  BY <1>6, OffIsGood DEF Consume, ReportFailure, Crash
<1>7. ASSUME NEW l \in Lanes, LaneStep(l) \/ WorkerEnds(l) \/ LaneFails(l) PROVE FailInv'
  BY <1>7, LaneIsGood
<1>8. CASE Pause \/ Resume \/ Cancel \/ (\E n \in open : Settle(n)) \/ UNCHANGED vars
  <2>1. UNCHANGED <<process, attempts>>
    BY <1>8 DEF Pause, Resume, Cancel, Settle, vars, stored
  <2> QED BY <2>1 DEF FailInv, KnowsFailure, WaveIsGood, InWave, OfWave, FailedRepairs, process, Replays
<1> QED BY <1>2, <1>3, <1>4, <1>5, <1>6, <1>7, <1>8 DEF Next, RunStep

\* Only a lane that creates the step of its worker starts one.
LEMMA OnlyEntersStart ==
  ASSUME WorkerAssumption, IInv, [Next]_vars, Starts
  PROVE  \E l \in Lanes : LaneEnters(l)
<1>1. rows \in Seq(Row) /\ lanes \in [Lanes -> Lane]
  BY DEF IInv, Typed, ProcessTyped
<1>2. rows' # rows
  BY <1>1 DEF Starts
<1>3. ~Handle /\ ~BackflowStep
  BY <1>2 DEF Handle, BackflowStep, NextReplay, ReplayRefused, ReplayResult, CompleteAttempt,
              CompletionConflict
<1>4. ASSUME NEW l \in Lanes, LaneSkips(l) \/ LanePublishes(l) \/ WorkerEnds(l)
      PROVE  Len(rows') = Len(rows)
  <2>1. CASE LaneSkips(l)
    BY <1>1, <2>1 DEF LaneSkips
  <2>2. CASE LanePublishes(l)
    <3>1. lanes[l].result.row \in DOMAIN rows /\ ResultOK(lanes[l].result)
      BY <2>2 DEF IInv, LaneInv, LanePublishes, ProcessTyped, Rowed
    <3> QED BY <2>2, <3>1, PublicationSets DEF IInv, LanePublishes
  <2>3. CASE WorkerEnds(l)
    <3> DEFINE n == lanes[l].row
    <3>1. PICK status \in {"succeeded", "failed"} :
            rows' = [rows EXCEPT ![n].logged = TRUE,
                                ![n].status = IF status = "failed" THEN "failed" ELSE @]
      BY <2>3 DEF WorkerEnds
    <3> HIDE DEF n
    <3> QED BY <1>1, <3>1
  <2> QED BY <1>4, <2>1, <2>2, <2>3
<1>5. \A l \in Lanes : ~LaneSkips(l) /\ ~LanePublishes(l) /\ ~WorkerEnds(l)
  BY <1>1, <1>4 DEF Starts
<1>6. \A l \in Lanes : ~LaneGoesOn(l)
  BY <1>2, LaneGoes
<1>7. \A l \in Lanes : ~LaneAlive(l) /\ ~LaneClaims(l) /\ ~LaneConflicts(l) /\ ~LaneFails(l)
  BY <1>2 DEF LaneAlive, LaneClaims, LaneConflicts, LaneFails, LaneThrows, stored
<1>8. UNCHANGED rows \/ \E l \in Lanes : LaneStep(l)
  BY <1>3, <1>5, <1>7 DEF Next, Begin, StartPlan, QualityFails, ResumeQuality, StartBackflow, RunStep,
     NextWave, LanesDrained, FinalRead, FinalWrite, Consume, ReportFailure, Crash, Pause, Resume,
     Cancel, Settle, vars, stored
<1>9. PICK l \in Lanes : LaneStep(l)
  BY <1>2, <1>8
<1>10. LaneEnters(l)
  BY <1>5, <1>6, <1>7, <1>9 DEF LaneStep, LaneGoesOn
<1> QED BY <1>10

\* The worker that starts is started by a lane of a run that is at its workers.
LEMMA StartedBy ==
  ASSUME WorkerAssumption, IInv, [Next]_vars, Starts
  PROVE  /\ Started.attempt = run.attempt /\ Started.worker \in Workers
         /\ pc \in {"lane", "lanes"} /\ (pc = "lanes" => run.attempt = 0)
         /\ DOMAIN rows \subseteq DOMAIN rows' /\ (\A n \in DOMAIN rows : rows'[n] = rows[n])
         /\ run.attempt = 0 => \E i \in 1..Len(run.items) : Started.worker = run.items[i]
<1>1. PICK l \in Lanes : LaneEnters(l)
  BY OnlyEntersStart
<1>2. /\ Started.attempt = run.attempt /\ Started.worker = lanes[l].worker
      /\ DOMAIN rows \subseteq DOMAIN rows' /\ \A n \in DOMAIN rows : rows'[n] = rows[n]
  BY <1>1, LaneEntersAdds DEF Started
<1>3. lanes[l].pc = "claimed"
  BY <1>1 DEF LaneEnters
<1>4. pc \in {"lane", "lanes"}
  BY <1>3 DEF IInv, LaneInv, AllOff, Off
<1>5. /\ lanes[l].worker \in Workers
      /\ run.attempt = 0 => /\ lanes[l].item \in 1..Len(run.items)
                            /\ lanes[l].worker = run.items[lanes[l].item]
  BY <1>3 DEF IInv, LaneInv, Manned
<1> QED BY <1>2, <1>4, <1>5 DEF IInv, RunInv, Between

(* Once a repair has failed and no later attempt of its rule replaced it, *)
(* no worker of the plan starts: not in the run that saw the failure, nor *)
(* in a later one, whatever was crashed, paused or continued between.     *)
THEOREM FailuresStopThePlan == Spec => FailedRepairStops
<1>1. Init => FailInv
  BY DEF Init, FailInv, KnowsFailure, WaveIsGood, InWave, Replays
<1>2. IInv /\ FailInv /\ [Next]_vars => FailInv'
  BY WorkerAssumption, StepIsGood
<1>3. Spec => [](IInv /\ FailInv)
  BY <1>1, <1>2, Inductive, PTL DEF Spec
<1>4. IInv /\ FailInv /\ [Next]_vars => [Starts /\ Started.attempt = 0 => FailedRepairs = {}]_vars
  <2> SUFFICES ASSUME IInv, FailInv, [Next]_vars, Starts, Started.attempt = 0
               PROVE  FailedRepairs = {}
    OBVIOUS
  <2>1. run.attempt = 0 /\ pc \in {"lane", "lanes"}
    BY WorkerAssumption, StartedBy
  <2>2. InWave /\ run.kind = "plan" /\ (pc = "lanes" \/ ~Parallel(run.wave))
    BY <2>1 DEF IInv, RunInv, InWave, OfWave
  <2> QED BY <2>1, <2>2 DEF FailInv, KnowsFailure, WaveIsGood
<1> QED BY <1>3, <1>4, PTL DEF Spec, FailedRepairStops

-----------------------------------------------------------------------------
(* Attempts: no rule has two that run, nor more than it may *)

\* A rule has one attempt that runs.
OneRuns == \A j, k \in DOMAIN attempts :
             attempts[j].status = "running" /\ attempts[k].status = "running"
             /\ attempts[j].rule = attempts[k].rule => j = k

Bounded == \A r \in Rules : CountAttempts(r) <= r.max

\* A run of the plan has its approval.
HasConsent == run.kind = "plan" /\ pc # "off" => consent = "approved"

CountInv == OneRuns /\ Bounded /\ HasConsent

\* What a step may do to the attempts.
AttemptsMove ==
  \/ attempts' = attempts
  \/ \E rule \in Rules :
       attempts' = Append(attempts, [rule |-> rule, status |-> "max_attempts_reached"])
  \/ \E rule \in Rules :
       /\ RunningOf(rule) = {} /\ ~(CountAttempts(rule) >= rule.max)
       /\ rule.trigger = "step_failed" => consent = "approved"
       /\ attempts' = Append(attempts, [rule |-> rule, status |-> "running"])
  \/ /\ run.attempt # 0
     /\ \E to \in {"succeeded", "failed"} : attempts' = [attempts EXCEPT ![run.attempt].status = to]

\* The attempts that count for a rule.
Counted(r) == {k \in DOMAIN attempts : attempts[k].rule = r /\ attempts[k].status # "max_attempts_reached"}

\* The attempts that count for a rule are finitely many.
LEMMA CountedIsFinite ==
  ASSUME attempts \in Seq(Attempt), NEW r
  PROVE  /\ IsFiniteSet(Counted(r)) /\ Cardinality(Counted(r)) \in Nat
         /\ Counted(r) \subseteq 1..Len(attempts) /\ CountAttempts(r) = Cardinality(Counted(r))
<1>1. Counted(r) \subseteq 1..Len(attempts) /\ Len(attempts) \in Nat
  BY DEF Counted
<1>2. IsFiniteSet(1..Len(attempts))
  BY <1>1, IntervalIsFinite
<1>3. IsFiniteSet(Counted(r))
  BY <1>1, <1>2, FS_Subset
<1> QED BY <1>1, <1>3, FS_CardinalityType DEF CountAttempts, Counted

\* What a step may do to the attempts respects the limits of the rules.
LEMMA MovedAttempts ==
  ASSUME WorkerAssumption, IInv, OneRuns, Bounded, AttemptsMove
  PROVE  OneRuns' /\ Bounded'
<1>1. attempts \in Seq(Attempt) /\ \A r \in Rules : r.max \in Nat
  BY SMTT(40) DEF IInv, Typed, WorkerAssumption
<1>2. SUFFICES ASSUME NEW r
               PROVE  OneRuns' /\ (r \in Rules => Cardinality(Counted(r)') <= r.max)
  BY DEF Bounded, CountAttempts, Counted
<1>3. /\ Counted(r) \subseteq 1..Len(attempts) /\ IsFiniteSet(Counted(r))
      /\ Cardinality(Counted(r)) \in Nat 
      /\ r \in Rules => Cardinality(Counted(r)) <= r.max
      /\ CountAttempts(r) = Cardinality(Counted(r))
  BY <1>1, CountedIsFinite DEF Bounded
<1>4. CASE attempts' = attempts
  <2>1. Counted(r)' = Counted(r) /\ OneRuns'
    BY <1>4 DEF Counted, OneRuns
  <2> QED BY <1>3, <2>1
<1>5. CASE \E rule \in Rules :
             attempts' = Append(attempts, [rule |-> rule, status |-> "max_attempts_reached"])
  <2>1. PICK rule \in Rules :
          attempts' = Append(attempts, [rule |-> rule, status |-> "max_attempts_reached"])
    BY <1>5
  <2>2. /\ DOMAIN attempts' = DOMAIN attempts \cup {Len(attempts) + 1}
        /\ attempts'[Len(attempts) + 1] = [rule |-> rule, status |-> "max_attempts_reached"]
        /\ \A k \in DOMAIN attempts : attempts'[k] = attempts[k]
    BY <1>1, <2>1 DEF Attempt
  <2>3. attempts'[Len(attempts) + 1].status = "max_attempts_reached"
    BY <2>2
  <2>4. Counted(r)' = Counted(r)
    BY <2>2, <2>3 DEF Counted
  <2>5. OneRuns'
    BY <2>2, <2>3 DEF OneRuns
  <2> QED BY <1>3, <2>4, <2>5
<1>6. CASE \E rule \in Rules :
             /\ RunningOf(rule) = {} /\ ~(CountAttempts(rule) >= rule.max)
             /\ attempts' = Append(attempts, [rule |-> rule, status |-> "running"])
  <2>1. PICK rule \in Rules : /\ RunningOf(rule) = {} /\ ~(CountAttempts(rule) >= rule.max)
                              /\ attempts' = Append(attempts, [rule |-> rule, status |-> "running"])
    BY <1>6
  <2> DEFINE n == Len(attempts) + 1
             new == [rule |-> rule, status |-> "running"]
  <2>2. /\ DOMAIN attempts' = DOMAIN attempts \cup {n} /\ attempts'[n] = new
        /\ \A k \in DOMAIN attempts : attempts'[k] = attempts[k]
    <3>1. attempts' = Append(attempts, new)
      BY <2>1
    <3> HIDE DEF new
    <3> QED BY <1>1, <3>1
  <2>3. new.rule = rule /\ new.status = "running" /\ n \notin 1..Len(attempts)
    BY <1>1
  <2> HIDE DEF new, n
  <2>4. Counted(r)' = IF r = rule THEN Counted(r) \cup {n} ELSE Counted(r)
    BY <2>2, <2>3 DEF Counted
  <2>5. r = rule => Cardinality(Counted(r) \cup {n}) <= r.max
    <3>1. n \notin Counted(r)
      BY <1>3, <2>3
    <3>2. Cardinality(Counted(r) \cup {n}) = Cardinality(Counted(r)) + 1
      BY <1>3, <3>1, FS_AddElement
    <3> QED BY <1>1, <1>3, <2>1, <3>2
  <2>6. \A k \in DOMAIN attempts : attempts[k].status = "running" => attempts[k].rule # rule
    BY <2>1 DEF RunningOf, RunningAttempts
  <2>7. OneRuns'
    BY <2>2, <2>3, <2>6 DEF OneRuns
  <2> QED BY <1>3, <2>4, <2>5, <2>7
<1>7. CASE /\ run.attempt # 0
           /\ \E to \in {"succeeded", "failed"} : attempts' = [attempts EXCEPT ![run.attempt].status = to]
  <2>1. attempts[run.attempt].status = "running"
    BY <1>7 DEF IInv, AttemptInv
  <2>2. PICK to \in {"succeeded", "failed"} :
          /\ DOMAIN attempts' = DOMAIN attempts
          /\ \A k \in DOMAIN attempts : attempts'[k].rule = attempts[k].rule
          /\ \A k \in DOMAIN attempts :
               attempts'[k].status = IF k = run.attempt THEN to ELSE attempts[k].status
    BY <1>1, <1>7, StatusIsSet
  <2>3. Counted(r)' = Counted(r)
    BY <2>1, <2>2 DEF Counted
  <2>4. OneRuns'
    BY <2>2 DEF OneRuns
  <2> QED BY <1>3, <2>3, <2>4
<1> QED BY <1>4, <1>5, <1>6, <1>7 DEF AttemptsMove

\* A backflow does no more than that.
LEMMA BackflowMoves ==
  ASSUME WorkerAssumption, attempts \in Seq(Attempt), NEW r, Resumable(r), NEW rule \in Rules,
         Backflow(r, rule), rule.trigger = "step_failed" => consent = "approved"
  PROVE  AttemptsMove /\ run'.kind = r.kind
<1>1. BackflowDone(r, rule)
  BY BackflowGoesOn DEF Resumable, Called, AtWave
<1> QED BY <1>1 DEF BackflowDone, AttemptsMove, Entered, Returned, Same

\* No step does more, and no run of the plan goes on once the plan is used up.
LEMMA StepMovesAttempts ==
  ASSUME WorkerAssumption, IInv, HasConsent, [Next]_vars
  PROVE  AttemptsMove /\ HasConsent'
<1>1. attempts \in Seq(Attempt) /\ steps \in Nat /\ IsRun(run)
  BY DEF IInv, Typed, ProcessTyped
<1>2. attempts' = attempts => AttemptsMove
  BY DEF AttemptsMove
<1>3. pc # "off" /\ run'.kind = run.kind /\ consent' = consent => HasConsent'
  BY DEF HasConsent
<1>4. CASE Begin
  <2>1. pc = "off" /\ consent' = consent
    BY <1>4 DEF Begin, StartPlan, QualityFails, ResumeQuality
  <2>2. UNCHANGED process => HasConsent'
    BY <2>1 DEF process, HasConsent
  <2>3. CASE StartPlan
    <3>1. consent = "approved"
      BY <2>3 DEF StartPlan
    <3>2. ASSUME NEW r, FreshPlan(r), RunningAttempts("step_failed") # {},
                 Backflow(r, attempts[Min(RunningAttempts("step_failed"))].rule)
          PROVE  AttemptsMove
      BY <1>1, <3>1, <3>2, ContinuedRule, BackflowMoves DEF FreshPlan
    <3> QED BY <1>1, <1>2, <2>1, <2>3, <3>1, <3>2, StartPlanStarts DEF HasConsent
  <2>4. ASSUME NEW rule \in Rules, rule.trigger = "quality_failed", StartBackflow(rule)
        PROVE  AttemptsMove /\ HasConsent'
    <3>1. PICK r : FreshQuality(r) /\ Backflow(r, rule)
      BY <1>1, <2>4, BackflowStarts
    <3>2. AttemptsMove /\ run'.kind = "quality"
      BY <1>1, <2>4, <3>1, BackflowMoves DEF FreshQuality
    <3> QED BY <3>2 DEF HasConsent
  <2>5. CASE QualityFails
    BY <2>4, <2>5 DEF QualityFails, QualityRules
  <2>6. CASE ResumeQuality
    <3>1. CASE /\ RunningAttempts("quality_failed") # {}
               /\ StartBackflow(attempts[Min(RunningAttempts("quality_failed"))].rule)
      BY <1>1, <2>4, <3>1, ContinuedRule
    <3>2. CASE UNCHANGED <<attempts, process>>
      BY <1>2, <2>2, <3>2
    <3> QED BY <2>6, <3>1, <3>2 DEF ResumeQuality
  <2> QED BY <1>4, <2>3, <2>5, <2>6 DEF Begin
<1>5. CASE Handle
  <2>1. pc = "handling" /\ Process /\ Recorded(run) /\ AtWave(run) /\ run.kind = "plan"
        /\ consent = "approved" /\ consent' = consent
    BY <1>5 DEF Handle, IInv, Process, ProcessTyped, RunInv, Recorded, InWave, OfWave, Between, HasConsent
  <2>2. ASSUME NEW r, Recorded(r), NEW stop \in BOOLEAN, Continue(r, stop)
        PROVE  run'.kind = run.kind
    BY <2>1, <2>2, ContinueGoesOn DEF Recorded, AtWave, Same
  <2>3. ASSUME NEW r, Recorded(r), r.caller = "result", NEW rule \in StepRules(Worker0), Backflow(r, rule)
        PROVE  AttemptsMove /\ run'.kind = run.kind
    <3>1. Resumable(r) /\ rule \in Rules
      BY <2>1, <2>3, RecordedIsResumable DEF StepRules
    <3> QED BY <1>1, <2>1, <2>3, <3>1, BackflowMoves DEF Recorded
  <2>4. Result0 = Nothing \/ Result0.acts \in BOOLEAN
    <3>1. run.at + 1 \in DOMAIN run.results
      BY <2>1 DEF Process, ProcessTyped, AtWave, IsRun
    <3> QED BY <2>1, <3>1 DEF Result0, ResultOK, Process, ProcessTyped, IsRun, Result
  <2>5. Result0.status \in {"succeeded", "failed"} => Result0.acts \in BOOLEAN
    BY <2>4 DEF Nothing
  <2>6. AttemptsMove /\ run'.kind = run.kind
    BY <1>2, <1>5, <2>1, <2>2, <2>3, <2>5, HandleGoesOn
  <2> QED BY <1>3, <2>1, <2>6
<1>6. CASE BackflowStep
  <2>1. pc \in Replays /\ consent' = consent /\ run.attempt # 0 /\ Resumable(run) /\ pc # "off"
    BY <1>6, ReplayIsResumable DEF IInv, Process, RunInv, BackflowStep, NextReplay, ReplayRefused,
       ReplayResult, CompleteAttempt, CompletionConflict, Replays
  <2>2. FailAttempt => AttemptsMove
    BY <2>1 DEF FailAttempt, AttemptsMove
  <2>3. ASSUME NEW r, Resumable(r), r.kind = run.kind, NEW outcome, Return(r, outcome)
        PROVE  run'.kind = run.kind
    BY <2>3, RunReturns DEF Returned, Same
  <2>4. Suspend => AttemptsMove /\ run'.kind = run.kind
    BY <1>2, <2>1, <2>2, <2>3 DEF Suspend
  <2>5. CASE NextReplay
    <3>1. run' = [run EXCEPT !.todo = Tail(@)] => run'.kind = run.kind
      BY <1>1 DEF IsRun, Fields
    <3> QED BY <1>2, <1>3, <2>1, <2>4, <2>5, <3>1 DEF NextReplay
  <2>6. CASE ReplayRefused
    BY <1>3, <2>1, <2>2, <2>3, <2>4, <2>6 DEF ReplayRefused
  <2>7. CASE ReplayResult
    <3>1. PICK r : /\ Appended(r)
                   /\ \/ run' = r /\ UNCHANGED attempts
                      \/ FailAttempt /\ Return(r, "failed")
      BY <2>7, ReplayResultAppends
    <3>2. Resumable(r) /\ r.kind = run.kind
      BY <2>1, <3>1, AppendedIsResumable DEF Appended, Same
    <3> QED BY <1>2, <1>3, <2>1, <2>2, <2>3, <3>1, <3>2
  <2>8. CASE CompleteAttempt
    <3>1. CASE /\ attempts' = [attempts EXCEPT ![run.attempt].status = "succeeded"]
               /\ Return(run, "succeeded")
      BY <1>3, <2>1, <2>3, <3>1 DEF AttemptsMove
    <3>2. CASE UNCHANGED <<attempts, run>>
      BY <1>2, <1>3, <2>1, <3>2
    <3> QED BY <2>8, <3>1, <3>2 DEF CompleteAttempt
  <2>9. CASE CompletionConflict
    BY <1>2, <1>3, <2>1, <2>4, <2>9 DEF CompletionConflict
  <2> QED BY <1>6, <2>5, <2>6, <2>7, <2>8, <2>9 DEF BackflowStep
<1>7. CASE NextWave
  <2>1. Process /\ attempts' = attempts /\ consent' = consent /\ pc # "off"
    BY <1>7 DEF NextWave, IInv, Process, stored
  <2>2. run'.kind = run.kind
    BY <1>7, <2>1, NextWaveGoesOn DEF Same
  <2> QED BY <1>2, <1>3, <2>1, <2>2
<1>8. CASE LanesDrained \/ FinalRead \/ FinalWrite
  <2>1. UNCHANGED <<attempts, consent>> /\ pc # "off"
    BY <1>8 DEF LanesDrained, FinalRead, FinalWrite, stored, Sharing
  <2>2. run'.kind = run.kind
    BY <1>1, <1>8 DEF LanesDrained, FinalRead, FinalWrite, IsRun, Fields
  <2> QED BY <1>2, <1>3, <2>1, <2>2
<1>9. CASE Consume \/ ReportFailure \/ Crash
  <2>1. attempts' = attempts /\ pc' = "off"
    BY <1>9 DEF Consume, ReportFailure, Crash, stored
  <2> QED BY <1>2, <2>1 DEF HasConsent
<1>10. ASSUME NEW l \in Lanes, LaneStep(l) \/ WorkerEnds(l) \/ LaneFails(l)
       PROVE  AttemptsMove /\ HasConsent'
  BY <1>2, <1>3, <1>10, LaneStays DEF Kept
<1>11. CASE Pause \/ Resume \/ Cancel \/ (\E n \in open : Settle(n)) \/ UNCHANGED vars
  <2>1. UNCHANGED <<process, attempts, consent>>
    BY <1>11 DEF Pause, Resume, Cancel, Settle, vars, stored
  <2> QED BY <1>2, <2>1 DEF process, HasConsent
<1> QED BY <1>4, <1>5, <1>6, <1>7, <1>8, <1>9, <1>10, <1>11 DEF Next, RunStep

\* No rule has two attempts running, nor more attempts than it may.
LEMMA CountsHold == Spec => []CountInv
<1>1. Init => CountInv
  <2> SUFFICES ASSUME Init PROVE CountInv
    OBVIOUS
  <2>1. OneRuns /\ HasConsent
    BY DEF Init, OneRuns, HasConsent
  <2>2. ASSUME NEW r \in Rules PROVE CountAttempts(r) <= r.max
    <3>1. Counted(r) = {}
      BY DEF Init, Counted
    <3>2. CountAttempts(r) = Cardinality({})
      BY <3>1 DEF CountAttempts, Counted
    <3>3. r.max \in Nat
      BY WorkerAssumption DEF WorkerAssumption
    <3> QED BY <3>2, <3>3, FS_EmptySet
  <2> QED BY <2>1, <2>2 DEF CountInv, Bounded
<1>2. IInv /\ CountInv /\ [Next]_vars => CountInv'
  BY WorkerAssumption, StepMovesAttempts, MovedAttempts DEF CountInv
<1> QED BY <1>1, <1>2, Inductive, PTL DEF Spec

-----------------------------------------------------------------------------
(* A plan that is used up leaves no repair running *)

\* One rule repairs failed steps.  Of several whose repairs are suspended in one wave the next
\* run continues only the first.
OneRepairRule ==
  \A r, s \in Rules : r.trigger = "step_failed" /\ s.trigger = "step_failed" => r = s

Repairs == RunningAttempts("step_failed")

\* What is left running of repairs is in the run, or the run knows that it is to be continued.
KnowsRepairs == run.kind = "plan" /\ pc \notin {"off", "throwing"} =>
                  \A k \in Repairs : k = run.attempt \/ run.pending

UsedUp == consent = "executed" => Repairs = {}

SettleInv == CountInv /\ KnowsRepairs /\ UsedUp

\* Only an attempt that begins for a failed step is one more repair left running.
LEMMA AddedRepairs ==
  ASSUME attempts \in Seq(Attempt), NEW rule, NEW status \in {"running", "max_attempts_reached"},
         attempts' = Append(attempts, [rule |-> rule, status |-> status])
  PROVE  /\ Repairs' \subseteq Repairs \cup {Len(attempts) + 1}
         /\ (status # "running" \/ rule.trigger # "step_failed") => Repairs' \subseteq Repairs
<1> DEFINE n == Len(attempts) + 1
           new == [rule |-> rule, status |-> status]
<1>1. /\ DOMAIN attempts' = DOMAIN attempts \cup {n} /\ attempts'[n] = new
      /\ \A k \in DOMAIN attempts : attempts'[k] = attempts[k]
  BY DEF Attempt
<1>2. new.status = status /\ new.rule = rule
  OBVIOUS
<1> HIDE DEF new, n
<1> QED BY <1>1, <1>2 DEF Repairs, RunningAttempts, n

\* An attempt that ends is not left running.
LEMMA SetRepairs ==
  ASSUME attempts \in Seq(Attempt), NEW to \in {"succeeded", "failed"},
         attempts' = [attempts EXCEPT ![run.attempt].status = to]
  PROVE  Repairs' \subseteq Repairs \ {run.attempt}
<1>1. /\ DOMAIN attempts' = DOMAIN attempts
      /\ \A k \in DOMAIN attempts : attempts'[k].rule = attempts[k].rule
      /\ \A k \in DOMAIN attempts :
           attempts'[k].status = IF k = run.attempt THEN to ELSE attempts[k].status
  BY StatusIsSet
<1> QED BY <1>1 DEF Repairs, RunningAttempts

\* Behind a plan that is used up no repair begins.
LEMMA MovedRepairs ==
  ASSUME IInv, AttemptsMove, consent = "executed"
  PROVE  Repairs' \subseteq Repairs
<1>1. attempts \in Seq(Attempt)
  BY DEF IInv, Typed
<1>2. attempts' = attempts => Repairs' = Repairs
  BY DEF Repairs, RunningAttempts
<1> QED BY <1>1, <1>2, AddedRepairs, SetRepairs DEF AttemptsMove

\* A backflow that begins from r, which is in no attempt: every repair left running is its own.
LEMMA BackflowSettles ==
  ASSUME WorkerAssumption, attempts \in Seq(Attempt), OneRuns, NEW r, Resumable(r),
         NEW rule, Backflow(r, rule), r.kind = "plan",
         r.pending \/ (rule.trigger = "step_failed" /\ \A k \in Repairs : attempts[k].rule = rule)
  PROVE  KnowsRepairs'
<1>1. BackflowDone(r, rule)
  BY BackflowGoesOn DEF Resumable, Called, AtWave
<1>2. run'.pending = r.pending \/ run'.pending = (r.pending \/ FALSE)
  BY <1>1 DEF BackflowDone, Returned, Entered
<1>3. CASE r.pending
  BY <1>1, <1>3 DEF BackflowDone, Returned, Entered, KnowsRepairs
<1>4. CASE ~r.pending
  <2>1. rule.trigger = "step_failed" /\ \A k \in Repairs : k \in RunningOf(rule)
    BY <1>4 DEF Repairs, RunningOf
  <2>2. CASE RunningOf(rule) = {} /\ attempts' = Append(attempts, [rule |-> rule, status |-> "running"])
             /\ Entered(r, Len(attempts) + 1)
    <3>1. Repairs' \subseteq {Len(attempts) + 1}
      BY <2>1, <2>2, AddedRepairs
    <3> QED BY <2>2, <3>1 DEF Entered, KnowsRepairs
  <2>3. CASE RunningOf(rule) = {} /\ attempts' = Append(attempts, [rule |-> rule, status |-> "max_attempts_reached"])
    <3>1. Repairs' = {}
      BY <2>1, <2>3, AddedRepairs
    <3> QED BY <3>1 DEF KnowsRepairs
  <2>4. CASE attempts' = attempts /\ \E k \in RunningOf(rule) : Entered(r, k)
    <3>1. PICK k \in RunningOf(rule) : Entered(r, k)
      BY <2>4
    <3>2. \A j \in Repairs : j = k
      BY <2>1, <3>1 DEF OneRuns, RunningOf, RunningAttempts
    <3>3. Repairs' = Repairs
      BY <2>4 DEF Repairs, RunningAttempts
    <3> QED BY <3>1, <3>2, <3>3 DEF Entered, KnowsRepairs
  <2> QED BY <1>1, <2>2, <2>3, <2>4 DEF BackflowDone
<1> QED BY <1>3, <1>4 DEF Resumable, IsRun

\* A backflow that is suspended is noted as pending by its run.
LEMMA ReplaySettles ==
  ASSUME WorkerAssumption, IInv, SettleInv, BackflowStep
  PROVE  KnowsRepairs'
<1>1. /\ pc \in Replays /\ run.attempt # 0 /\ Resumable(run) /\ pc \notin {"off", "throwing"}
      /\ attempts \in Seq(Attempt) /\ IsRun(run)
  BY ReplayIsResumable DEF IInv, Process, RunInv, BackflowStep, NextReplay, ReplayRefused, Typed,
     ProcessTyped, ReplayResult, CompleteAttempt, CompletionConflict, Replays
<1>2. run.kind = "plan" => \A k \in Repairs : k = run.attempt \/ run.pending
  BY <1>1 DEF SettleInv, KnowsRepairs
<1>3. attempts' = attempts => Repairs' = Repairs
  BY DEF Repairs, RunningAttempts
<1>4. ASSUME NEW r, Resumable(r), r.kind = run.kind, r.pending = run.pending, NEW outcome,
             Return(r, outcome),
             \/ outcome = "waiting"
             \/ Repairs' \subseteq Repairs \ {run.attempt}
      PROVE  KnowsRepairs'
  <2>1. run'.kind = run.kind /\ run'.pending = (run.pending \/ outcome = "waiting")
    BY <1>4, RunReturns DEF Returned, Same
  <2> QED BY <1>2, <1>4, <2>1 DEF KnowsRepairs
<1>5. FailAttempt => Repairs' \subseteq Repairs \ {run.attempt}
  BY <1>1, SetRepairs DEF FailAttempt
<1>6. CASE Suspend
  BY <1>1, <1>4, <1>5, <1>6 DEF Suspend
<1>7. ASSUME Appended(run'), attempts' = attempts PROVE KnowsRepairs'
  BY <1>1, <1>2, <1>3, <1>7 DEF Appended, Same, KnowsRepairs
<1>8. Appended(run)
  BY <1>1 DEF Appended, Same
<1>9. CASE NextReplay
  <2>1. ASSUME run' = [run EXCEPT !.todo = Tail(@)], run.todo # <<>> PROVE Appended(run')
    <3>1. Tail(run.todo) \in Seq(Workers)
      BY <1>1, <2>1 DEF IsRun
    <3> QED BY <1>1, <2>1, <3>1 DEF Appended, IsRun, Same, Fields
  <2>2. Suspend \/ (attempts' = attempts /\ Appended(run'))
    BY <1>8, <1>9, <2>1 DEF NextReplay
  <2> QED BY <1>6, <1>7, <2>2
<1>10. CASE ReplayRefused
  BY <1>1, <1>4, <1>5, <1>6, <1>10 DEF ReplayRefused
<1>11. CASE ReplayResult
  <2>1. PICK r : /\ Appended(r)
                 /\ \/ run' = r /\ UNCHANGED attempts
                    \/ FailAttempt /\ Return(r, "failed")
    BY <1>11, ReplayResultAppends
  <2>2. Resumable(r) /\ r.kind = run.kind /\ r.pending = run.pending
    BY <1>1, <2>1, AppendedIsResumable DEF Appended, Same
  <2> QED BY <1>4, <1>5, <1>7, <2>1, <2>2
<1>12. CASE CompleteAttempt
  <2>1. CASE /\ attempts' = [attempts EXCEPT ![run.attempt].status = "succeeded"]
             /\ Return(run, "succeeded")
    <3>1. Repairs' \subseteq Repairs \ {run.attempt}
      BY <1>1, <2>1, SetRepairs
    <3> QED BY <1>1, <1>4, <2>1, <3>1
  <2>2. CASE UNCHANGED <<attempts, run>>
    BY <1>7, <1>8, <2>2
  <2> QED BY <1>12, <2>1, <2>2 DEF CompleteAttempt
<1>13. CASE CompletionConflict
  BY <1>6, <1>7, <1>8, <1>13 DEF CompletionConflict
<1> QED BY <1>9, <1>10, <1>11, <1>12, <1>13 DEF BackflowStep

\* Handling a result leaves no repair running that the run does not know of.
LEMMA HandleSettles ==
  ASSUME WorkerAssumption, IInv, SettleInv, Handle
  PROVE  KnowsRepairs'
<1>1. pc = "handling" /\ Process /\ Recorded(run) /\ AtWave(run) /\ run.kind = "plan" /\ run.attempt = 0
      /\ attempts \in Seq(Attempt)
  BY DEF Handle, IInv, Process, ProcessTyped, RunInv, Recorded, InWave, OfWave, Between, Typed
<1>2. run.pending \/ Repairs = {}
  BY <1>1 DEF SettleInv, KnowsRepairs, Repairs, RunningAttempts
<1>3. ASSUME NEW r, Recorded(r), NEW stop \in BOOLEAN, Continue(r, stop), UNCHANGED attempts
      PROVE  KnowsRepairs'
  <2>1. run'.pending = run.pending
    BY <1>1, <1>3, ContinueGoesOn DEF Recorded, AtWave
  <2> QED BY <1>2, <1>3, <2>1 DEF KnowsRepairs, Repairs, RunningAttempts
<1>4. ASSUME NEW r, Recorded(r), r.caller = "result", NEW rule \in StepRules(Worker0), Backflow(r, rule)
      PROVE  KnowsRepairs'
  <2>1. Resumable(r) /\ r.kind = "plan" /\ r.pending = run.pending /\ rule.trigger = "step_failed"
    BY <1>1, <1>4, RecordedIsResumable DEF StepRules, Recorded
  <2> QED BY <1>1, <1>2, <1>4, <2>1, BackflowSettles DEF SettleInv, CountInv
<1>5. Result0 = Nothing \/ Result0.acts \in BOOLEAN
  <2>1. run.at + 1 \in DOMAIN run.results
    BY <1>1 DEF Process, ProcessTyped, AtWave, IsRun
  <2> QED BY <1>1, <2>1 DEF Result0, ResultOK, Process, ProcessTyped, IsRun, Result
<1>6. Result0.status \in {"succeeded", "failed"} => Result0.acts \in BOOLEAN
  BY <1>5 DEF Nothing
<1> QED BY <1>1, <1>3, <1>4, <1>6, HandleGoesOn

\* A run begins with the one repair left running, if there is any.
LEMMA BeginSettles ==
  ASSUME WorkerAssumption, OneRepairRule, IInv, SettleInv, Begin
  PROVE  KnowsRepairs'
<1>1. attempts \in Seq(Attempt) /\ steps \in Nat /\ pc = "off"
  BY DEF IInv, Typed, Begin, StartPlan, QualityFails, ResumeQuality
<1>2. UNCHANGED process => KnowsRepairs'
  BY <1>1 DEF process, KnowsRepairs
<1>3. ASSUME NEW rule, StartBackflow(rule) PROVE KnowsRepairs'
  <2>1. PICK r : FreshQuality(r) /\ Backflow(r, rule)
    BY <1>1, <1>3, BackflowStarts
  <2>2. BackflowDone(r, rule)
    BY <1>1, <2>1, BackflowGoesOn DEF FreshQuality
  <2> QED BY <2>1, <2>2 DEF FreshQuality, BackflowDone, Entered, Returned, Same, KnowsRepairs
<1>4. CASE StartPlan
  <2>1. ASSUME NEW r, FreshPlan(r), Repairs # {}, Backflow(r, attempts[Min(Repairs)].rule)
        PROVE  KnowsRepairs'
    <3> DEFINE rule == attempts[Min(Repairs)].rule
    <3>1. rule \in Rules /\ rule.trigger = "step_failed"
      BY <1>1, <2>1, ContinuedRule DEF Repairs
    <3>2. \A k \in Repairs : attempts[k].rule \in Rules /\ attempts[k].rule.trigger = "step_failed"
      <4>1. \A k \in Repairs : attempts[k] \in Attempt /\ attempts[k].rule.trigger = "step_failed"
        BY <1>1 DEF Repairs, RunningAttempts
      <4> QED BY <4>1 DEF Attempt
    <3>3. \A k \in Repairs : attempts[k].rule = rule
      BY <3>1, <3>2 DEF OneRepairRule
    <3> HIDE DEF rule
    <3> QED BY <1>1, <2>1, <3>1, <3>3, BackflowSettles DEF SettleInv, CountInv, FreshPlan, rule
  <2>2. ASSUME NEW r, Repairs = {}, run' = r, attempts' = attempts
        PROVE  KnowsRepairs'
    BY <2>2 DEF KnowsRepairs, Repairs, RunningAttempts
  <2> QED BY <1>1, <1>2, <1>4, <2>1, <2>2, StartPlanStarts DEF Repairs
<1> QED BY <1>2, <1>3, <1>4 DEF Begin, QualityFails, ResumeQuality

\* Every step keeps that repairs left running are known, and that a used-up plan has none.
LEMMA StepSettles ==
  ASSUME WorkerAssumption, OneRepairRule, IInv, SettleInv, [Next]_vars
  PROVE  SettleInv'
<1>1. IsRun(run) /\ attempts \in Seq(Attempt)
  BY DEF IInv, ProcessTyped, Typed
<1>2. CountInv' /\ AttemptsMove
  BY StepMovesAttempts, MovedAttempts DEF CountInv, SettleInv
<1>3. attempts' = attempts => Repairs' = Repairs
  BY DEF Repairs, RunningAttempts
<1>4. UsedUp'
  <2>1. CASE consent' = consent
    BY <1>2, <2>1, MovedRepairs DEF SettleInv, UsedUp
  <2>2. CASE Consume
    <3>1. attempts' = attempts /\ pc = "consuming" /\ run.attempt = 0
      BY <2>2 DEF Consume, IInv, RunInv, Between
    <3>2. CASE run.kind = "plan" /\ ~NeedsContinuation
      <4>1. Repairs = {}
        <5>1. \A k \in Repairs : k # 0
          BY <1>1 DEF Repairs, RunningAttempts
        <5> QED BY <3>1, <3>2, <5>1 DEF SettleInv, KnowsRepairs, NeedsContinuation
      <4> QED BY <1>3, <3>1, <4>1 DEF UsedUp
    <3> QED BY <2>1, <2>2, <3>2 DEF Consume
  <2>3. Consume \/ consent' = consent
    BY LaneStays DEF Next, Begin, StartPlan, QualityFails, ResumeQuality, RunStep, NextWave,
       LanesDrained, Handle, BackflowStep, NextReplay, ReplayRefused, ReplayResult, CompleteAttempt,
       CompletionConflict, FinalRead, FinalWrite, ReportFailure, Crash, Pause, Resume, Cancel, Settle, vars, stored
  <2> QED BY <2>1, <2>2, <2>3
<1>5. KnowsRepairs'
  <2>1. ASSUME attempts' = attempts, run'.kind = run.kind, run'.attempt = run.attempt,
               run'.pending = run.pending, pc \notin {"off", "throwing"}
        PROVE  KnowsRepairs'
    BY <1>3, <2>1 DEF SettleInv, KnowsRepairs
  <2>2. CASE Begin \/ Handle \/ BackflowStep
    BY <2>2, BeginSettles, HandleSettles, ReplaySettles
  <2>3. CASE NextWave
    <3>1. Process /\ attempts' = attempts /\ pc \notin {"off", "throwing"}
      BY <2>3 DEF NextWave, IInv, Process, stored
    <3> QED BY <2>1, <2>3, <3>1, NextWaveGoesOn DEF Same
  <2>4. CASE LanesDrained \/ FinalRead \/ FinalWrite
    <3>1. attempts' = attempts /\ pc \notin {"off", "throwing"}
      BY <2>4 DEF LanesDrained, FinalRead, FinalWrite, stored, Sharing
    <3>2. run'.kind = run.kind /\ run'.attempt = run.attempt /\ run'.pending = run.pending
      <4>1. ASSUME NEW a, NEW b,
                   \/ run' = run
                   \/ run' = [run EXCEPT !.seen = a]
                   \/ run' = [run EXCEPT !.seen = a, !.target = b]
            PROVE  run'.kind = run.kind /\ run'.attempt = run.attempt /\ run'.pending = run.pending
        BY <1>1, <4>1 DEF IsRun, Fields
      <4>2. \/ run' = run
            \/ \E a : run' = [run EXCEPT !.seen = a]
            \/ \E a, b : run' = [run EXCEPT !.seen = a, !.target = b]
        <5>1. CASE LanesDrained
          BY <5>1 DEF LanesDrained
        <5>2. CASE FinalRead
          BY <5>2 DEF FinalRead
        <5>3. CASE FinalWrite
          BY <5>3 DEF FinalWrite
        <5> QED BY <2>4, <5>1, <5>2, <5>3
      <4> QED BY <4>1, <4>2
    <3> QED BY <2>1, <3>1, <3>2
  <2>5. CASE Consume \/ ReportFailure \/ Crash
    BY <2>5 DEF Consume, ReportFailure, Crash, KnowsRepairs
  <2>6. ASSUME NEW l \in Lanes, LaneStep(l) \/ WorkerEnds(l) \/ LaneFails(l) PROVE KnowsRepairs'
    BY <2>1, <2>6, LaneStays DEF Kept
  <2>7. CASE Pause \/ Resume \/ Cancel \/ (\E n \in open : Settle(n)) \/ UNCHANGED vars
    <3>1. UNCHANGED <<process, attempts>>
      BY <2>7 DEF Pause, Resume, Cancel, Settle, vars, stored
    <3> QED BY <1>3, <3>1 DEF process, SettleInv, KnowsRepairs
  <2> QED BY <2>2, <2>3, <2>4, <2>5, <2>6, <2>7 DEF Next, RunStep
<1> QED BY <1>2, <1>4, <1>5 DEF SettleInv

(* No rule has two running attempts or more than its limit, a cancelled  *)
(* task has no open proposals, and a plan that is used up has left no     *)
(* repair of a step running.  For one rule that repairs failed steps;     *)
(* with two, see OneRepairRule.                                           *)
THEOREM AttemptsAreSettled ==
  ASSUME OneRepairRule
  PROVE  Spec => []WorkersInv
<1>1. Init => KnowsRepairs /\ UsedUp
  BY DEF Init, KnowsRepairs, UsedUp
<1>2. IInv /\ SettleInv /\ [Next]_vars => SettleInv'
  BY WorkerAssumption, StepSettles
<1>3. SettleInv => AttemptsSettled
  BY DEF SettleInv, CountInv, Bounded, UsedUp, Repairs, AttemptsSettled
<1>4. IInv => CancelledIsQuiet
  BY DEF IInv
<1>5. (CountInv /\ KnowsRepairs /\ UsedUp) <=> SettleInv
  BY DEF SettleInv
<1> QED BY <1>1, <1>2, <1>3, <1>4, <1>5, Inductive, CountsHold, TypeCorrect, PTL DEF Spec, WorkersInv

-----------------------------------------------------------------------------
(* Proposals are waited for *)

\* No rule retries a worker that stands in a serial wave beside others: when such a repair
\* is suspended by its own proposals, the wave goes on to its next worker.
NoSerialRepair ==
  \A r \in Rules : r.trigger = "step_failed" =>
    Parallel(WaveOf[r.retry]) \/ Wave(WaveOf[r.retry]) = {r.retry}

AtWork(v) == v.pc \in Manned

\* The run does not go on to another wave.
Told(r) == r.waiting \/ r.pending \/ r.failed

\* The next thing can only be done when nothing is open.
NothingOpen == pc \in {"lane", "completing"} => open = {}

\* What is open at the results of a wave is told by one that is still to be handled, or was told.
ResultsTell == pc = "handling" /\ open # {} =>
  /\ Told(run) \/ \E i \in (run.at + 1)..Len(run.items) : run.results[i].acts
  /\ ~Parallel(run.wave) => run.results[run.at + 1].acts

WavesWait == pc = "waves" /\ open # {} => Told(run)

\* What is open while lanes are at work is of their wave, and a result tells it.
LanesTell == pc = "lanes" =>
  /\ run.at = 0
  /\ \A n \in open : rows[n].attempt = 0 /\ WaveOf[rows[n].worker] = run.wave
  /\ open # {} => \E i \in 1..Len(run.items) : run.results[i].acts
  /\ \A i \in 1..Len(run.items) : run.results[i].acts => i <= run.next
  /\ \A l \in Lanes : AtWork(lanes[l]) =>
       lanes[l].item <= run.next /\ ~run.results[lanes[l].item].acts
  /\ \A l, m \in Lanes : AtWork(lanes[l]) /\ AtWork(lanes[m]) /\ l # m => lanes[l].item # lanes[m].item

SerialLane == pc = "lane" /\ run.attempt = 0 =>
  \A l \in Lanes : AtWork(lanes[l]) => lanes[l].item = run.at + 1

\* A worker of a serial wave that is repaired is the last of it.
LastOf(r) == Parallel(r.wave) \/ r.at + 1 = Len(r.items)

RepairIsLast == pc \in Replays \cup {"lane"} /\ run.attempt # 0 /\ OfWave(run) => LastOf(run)

FitsWave(r) == Len(r.items) <= Cardinality(Wave(r.wave))

OpenInv == /\ NothingOpen /\ ResultsTell /\ WavesWait /\ LanesTell /\ SerialLane /\ RepairIsLast
           /\ InWave => FitsWave(run)

\* Elsewhere nothing has to be known.
LEMMA ElsewhereWaits ==
  ASSUME pc' \in {"off", "final", "publishing", "consuming", "throwing"}
  PROVE  OpenInv'
BY DEF OpenInv, NothingOpen, ResultsTell, WavesWait, LanesTell, SerialLane, RepairIsLast, InWave, Replays

\* A backflow that ends with proposals open tells its run to wait.
LEMMA ReturnedWaits ==
  ASSUME NEW r, NEW outcome, Returned(r, outcome), Resumable(r), open' = open,
         open = {} \/ outcome \in {"waiting", "failed"},
         r.caller = "result" => LastOf(r) /\ FitsWave(r)
  PROVE  OpenInv'
<1>1. open' = {} \/ Told(run')
  BY DEF Returned, Told
<1>2. CASE pc' = "final"
  BY <1>2, ElsewhereWaits
<1>3. CASE pc' = "waves"
  BY <1>1, <1>3 DEF OpenInv, NothingOpen, ResultsTell, WavesWait, LanesTell, SerialLane, RepairIsLast,
     InWave, Replays
<1>4. CASE r.caller = "result" /\ Onward(r, outcome = "failed") /\ pc' # "waves"
  <2>1. run'.at = r.at + 1 /\ run'.at < Len(r.items) /\ run'.wave = r.wave /\ run'.items = r.items
        /\ r.at \in Nat /\ Len(r.items) \in Nat
    BY <1>4 DEF Onward, Returned, Same, Resumable, IsRun
  <2>2. Parallel(r.wave) /\ pc' = "handling" /\ FitsWave(run')
    BY <1>4, <2>1 DEF Onward, LastOf, FitsWave
  <2> QED BY <1>1, <2>1, <2>2 DEF OpenInv, NothingOpen, ResultsTell, WavesWait, LanesTell, SerialLane,
          RepairIsLast, Replays
<1> QED BY <1>2, <1>3, <1>4 DEF Returned

\* A backflow between its workers need not know what is open: it looks before the next.
LEMMA EnteredWaits ==
  ASSUME NEW r, NEW k, Entered(r, k), k # 0,
         r.kind = "plan" /\ r.caller = "result" => LastOf(r) /\ FitsWave(r)
  PROVE  OpenInv'
<1>1. pc' = "backflow" /\ run'.kind = r.kind /\ run'.caller = r.caller /\ run'.attempt # 0
      /\ run'.at = r.at /\ run'.items = r.items /\ run'.wave = r.wave
  BY DEF Entered, Same
<1>2. OfWave(run') => LastOf(run') /\ FitsWave(run')
  BY <1>1 DEF OfWave, LastOf, FitsWave
<1> QED BY <1>1, <1>2 DEF OpenInv, NothingOpen, ResultsTell, WavesWait, LanesTell, SerialLane, RepairIsLast,
        InWave

\* So a backflow may begin or be refused with proposals open.
LEMMA BackflowWaits ==
  ASSUME WorkerAssumption, attempts \in Seq(Attempt), NEW r, Resumable(r), NEW rule, Backflow(r, rule),
         open' = open, r.caller = "result" => LastOf(r) /\ FitsWave(r)
  PROVE  OpenInv'
<1>1. BackflowDone(r, rule)
  BY BackflowGoesOn DEF Resumable, Called, AtWave
<1>2. Len(attempts) + 1 # 0 /\ \A k \in RunningOf(rule) : k # 0
  BY DEF RunningOf, RunningAttempts
<1> QED BY <1>1, <1>2, ReturnedWaits, EnteredWaits DEF BackflowDone

\* Every step of a backflow keeps that open proposals are waited for.
LEMMA ReplayWaits ==
  ASSUME WorkerAssumption, IInv, OpenInv, BackflowStep
  PROVE  OpenInv'
<1>1. /\ pc \in Replays /\ run.attempt # 0 /\ Resumable(run) /\ open' = open
      /\ attempts \in Seq(Attempt) /\ IsRun(run)
  BY ReplayIsResumable DEF IInv, Process, RunInv, BackflowStep, NextReplay, ReplayRefused, Typed,
     ProcessTyped, ReplayResult, CompleteAttempt, CompletionConflict, Replays
<1>2. OfWave(run) => LastOf(run) /\ FitsWave(run)
  BY <1>1 DEF OpenInv, RepairIsLast, InWave
<1>3. ASSUME NEW r, Appended(r), NEW outcome, Return(r, outcome),
             open = {} \/ outcome \in {"waiting", "failed"}
      PROVE  OpenInv'
  <2>1. Resumable(r) /\ Returned(r, outcome)
    BY <1>1, <1>3, AppendedIsResumable, RunReturns
  <2>2. r.caller = "result" => LastOf(r) /\ FitsWave(r)
    BY <1>1, <1>2, <1>3 DEF Appended, Same, OfWave, LastOf, FitsWave, Resumable, Called
  <2> QED BY <1>1, <1>3, <2>1, <2>2, ReturnedWaits
<1>4. Appended(run)
  BY <1>1 DEF Appended, Same
<1>5. CASE Suspend
  BY <1>3, <1>4, <1>5 DEF Suspend
<1>6. ASSUME Appended(run'), pc' \in {"backflow", "conflict"} \/ (pc' \in {"lane", "completing"} /\ open = {}),
             \A l \in Lanes : ~AtWork(lanes'[l])
      PROVE  OpenInv'
  <2>1. OfWave(run') => LastOf(run') /\ FitsWave(run')
    BY <1>1, <1>2, <1>6 DEF Appended, Same, OfWave, LastOf, FitsWave
  <2> QED BY <1>1, <1>6, <2>1 DEF OpenInv, NothingOpen, ResultsTell, WavesWait, LanesTell, SerialLane,
          RepairIsLast, InWave
<1>7. \A l \in Lanes : ~AtWork(lanes[l])
  <2>1. \A l \in Lanes : lanes[l].pc = "off"
    BY <1>1 DEF IInv, LaneInv, AllOff, Off, Replays
  <2> QED BY <2>1 DEF AtWork, Manned, Rowed
<1>8. CASE NextReplay
  <2>1. ASSUME run' = [run EXCEPT !.todo = Tail(@)], run.todo # <<>> PROVE Appended(run')
    <3>1. Tail(run.todo) \in Seq(Workers)
      BY SMTT(40), <1>1, <2>1 DEF IsRun
    <3> QED BY <1>1, <2>1, <3>1 DEF Appended, IsRun, Same, Fields
  <2>2. ASSUME lanes' = [AllOff EXCEPT ![1].pc = "alive"] PROVE \A l \in Lanes : ~AtWork(lanes'[l])
    BY <2>2, LanesAtRest DEF AtWork
  <2>3. \/ Suspend
        \/ /\ Appended(run') /\ \A l \in Lanes : ~AtWork(lanes'[l])
           /\ pc' = "backflow" \/ (pc' \in {"lane", "completing"} /\ open = {})
    BY <1>4, <1>7, <1>8, <2>1, <2>2 DEF NextReplay, Suspended
  <2> QED BY <1>5, <1>6, <2>3
<1>9. CASE ReplayRefused
  BY <1>3, <1>4, <1>5, <1>9 DEF ReplayRefused
<1>10. CASE ReplayResult
  <2>1. PICK r : /\ Appended(r)
                 /\ \/ pc' = "backflow" /\ run' = r /\ UNCHANGED <<attempts, lanes>>
                    \/ FailAttempt /\ Return(r, "failed")
    BY <1>10, ReplayResultAppends
  <2> QED BY <1>3, <1>6, <1>7, <2>1
<1>11. CASE CompleteAttempt
  <2>1. open = {}
    BY <1>11 DEF CompleteAttempt, OpenInv, NothingOpen
  <2> QED BY <1>3, <1>4, <1>6, <1>7, <1>11, <2>1 DEF CompleteAttempt
<1>12. CASE CompletionConflict
  BY <1>5, <1>12, ElsewhereWaits DEF CompletionConflict, Throw
<1> QED BY <1>8, <1>9, <1>10, <1>11, <1>12 DEF BackflowStep

\* The last result of a wave, or one at which a serial wave stops, is followed by the next wave.
LEMMA ContinueLeaves ==
  ASSUME NEW r, NEW stop, Continue(r, stop), pc' = "waves"
  PROVE  r.at + 1 = Len(r.items) \/ ~Parallel(r.wave)
BY DEF Continue

\* Handling a result keeps it: what is still to be handled tells of what is open.
LEMMA HandleWaits ==
  ASSUME WorkerAssumption, NoSerialRepair, IInv, OpenInv, Handle
  PROVE  OpenInv'
<1>1. /\ pc = "handling" /\ Process /\ Recorded(run) /\ run.attempt = 0 /\ AtWave(run)
      /\ run.kind = "plan" /\ open' = open /\ attempts \in Seq(Attempt) /\ FitsWave(run)
  BY DEF Handle, IInv, Typed, Process, ProcessTyped, RunInv, Recorded, InWave, OfWave, Between, OpenInv
<1>2. /\ ResultOK(Result0) /\ Result0.acts \in BOOLEAN /\ (Result0 = Nothing => ~Result0.acts)
      /\ Worker0 \in Workers /\ WaveOf[Worker0] = run.wave
      /\ run.at \in Nat /\ Len(run.items) \in Nat /\ run.at + 1 \in 1..Len(run.items)
  <2>1. IsRun(run) /\ run.at + 1 \in DOMAIN run.results /\ run.at + 1 \in 1..Len(run.items)
        /\ run.at \in Nat /\ Len(run.items) \in Nat
    <3>1. /\ IsRun(run) /\ run.at \in Nat /\ Len(run.items) \in Nat
          /\ run.items \in Seq(Workers) /\ run.results \in Seq(Result)
      BY <1>1 DEF Process, ProcessTyped, IsRun
    <3>2. run.at + 1 \in 1..Len(run.items)
      BY <1>1, <3>1 DEF AtWave
    <3>3. Len(run.results) = Len(run.items) /\ DOMAIN run.results = 1..Len(run.results)
      BY <1>1, <3>1 DEF AtWave
    <3> QED BY <3>1, <3>2, <3>3
  <2>2. ResultOK(Result0) /\ Result0.acts \in BOOLEAN
    BY <2>1 DEF Result0, IsRun, ResultOK, Result
  <2>3. Worker0 \in Workers
    BY <2>1 DEF Worker0, IsRun
  <2>4. WaveOf[Worker0] = run.wave
    BY <1>1, <2>1 DEF Worker0, AtWave
  <2> QED BY <2>1, <2>2, <2>3, <2>4 DEF Nothing
<1>3. open # {} => /\ Told(run) \/ Result0.acts
                      \/ \E i \in (run.at + 2)..Len(run.items) : run.results[i].acts
                   /\ ~Parallel(run.wave) => Result0.acts
  <2>1. open # {} => /\ Told(run) \/ \E i \in (run.at + 1)..Len(run.items) : run.results[i].acts
                     /\ ~Parallel(run.wave) => Result0.acts
    BY <1>1 DEF OpenInv, ResultsTell, Result0
  <2>2. \A i \in (run.at + 1)..Len(run.items) :
          i = run.at + 1 \/ i \in (run.at + 2)..Len(run.items)
    BY <1>2
  <2>3. Result0 = run.results[run.at + 1]
    BY DEF Result0
  <2> QED BY <2>1, <2>2, <2>3
<1>4. ASSUME NEW r, Recorded(r), NEW stop \in BOOLEAN, Continue(r, stop),
             Told(run) \/ Result0.acts => Told(r), Result0.acts => stop
      PROVE  OpenInv'
  <2>1. /\ IsRun(run') /\ Same(r, run') /\ Onward(r, stop) /\ run'.attempt = 0
        /\ run'.failed = r.failed /\ run'.pending = r.pending
    BY <1>1, <1>4, ContinueGoesOn DEF Recorded, AtWave
  <2>2. r.at = run.at /\ r.items = run.items /\ r.wave = run.wave /\ r.results = run.results
    BY <1>4 DEF Recorded
  <2>3. Told(run') <=> Told(r)
    BY <2>1 DEF Told, Same
  <2>4. CASE pc' = "waves"
    <3>1. open # {} => Told(run')
      BY SMTT(40), <1>2, <1>3, <1>4, <2>2, <2>3, <2>4, ContinueLeaves
    <3> QED BY <1>1, <2>4, <3>1 DEF OpenInv, NothingOpen, ResultsTell, WavesWait, LanesTell, SerialLane,
            RepairIsLast, InWave, Replays
  <2>5. CASE Parallel(r.wave) /\ pc' = "handling" /\ run'.wave = r.wave /\ run'.at = r.at + 1
    <3>1. run'.items = run.items /\ run'.results = run.results /\ FitsWave(run')
      BY <1>1, <2>1, <2>2, <2>5 DEF Same, FitsWave
    <3>2. open # {} => Told(run') \/ \E i \in (run'.at + 1)..Len(run'.items) : run'.results[i].acts
      BY <1>2, <1>3, <1>4, <2>2, <2>3, <2>5, <3>1
    <3> QED BY <1>1, <2>1, <2>5, <3>1, <3>2 DEF OpenInv, NothingOpen, ResultsTell, WavesWait, LanesTell,
            SerialLane, RepairIsLast, Replays
  <2>6. CASE ~Parallel(r.wave) /\ ~stop /\ pc' = "lane" /\ lanes' = ReadyLanes /\ run'.wave = r.wave
    <3>1. open' = {} /\ FitsWave(run')
      BY <1>1, <1>3, <1>4, <2>1, <2>2, <2>6 DEF Same, FitsWave
    <3>2. \A l \in Lanes : ~AtWork(lanes'[l])
      BY <2>6, LanesAtRest DEF AtWork
    <3> QED BY <2>1, <2>6, <3>1, <3>2 DEF OpenInv, NothingOpen, ResultsTell, WavesWait, LanesTell,
            SerialLane, RepairIsLast
  <2> QED BY <2>1, <2>4, <2>5, <2>6 DEF Onward, ReadyLanes
<1>5. ASSUME NEW r, Recorded(r), r.caller = "result", NEW rule \in StepRules(Worker0), Backflow(r, rule)
      PROVE  OpenInv'
  <2>1. Resumable(r)
    BY <1>1, <1>5, RecordedIsResumable
  <2>2. r.at = run.at /\ r.items = run.items /\ r.wave = run.wave
    BY <1>5 DEF Recorded
  <2>3. Parallel(run.wave) \/ Wave(run.wave) = {Worker0}
    BY <1>2 DEF NoSerialRepair, StepRules
  <2>4. Wave(run.wave) = {Worker0} => run.at + 1 = Len(run.items)
    <3>1. Cardinality({Worker0}) = 1
      BY FS_Singleton
    <3> QED BY <1>1, <1>2, <3>1 DEF FitsWave
  <2>5. LastOf(r) /\ FitsWave(r)
    BY <1>1, <2>2, <2>3, <2>4 DEF LastOf, FitsWave
  <2> QED BY <1>1, <1>5, <2>1, <2>5, BackflowWaits
<1>6. CASE Result0 = Nothing /\ Continue(run, FALSE) /\ UNCHANGED attempts
  BY <1>1, <1>2, <1>4, <1>6
<1>7. ASSUME NEW r, Recorded(r), r.waiting = (run.waiting \/ Result0.acts), r.failed = run.failed,
             Continue(r, Result0.acts)
      PROVE  OpenInv'
  <2>1. Told(run) \/ Result0.acts => Told(r)
    BY <1>7 DEF Told, Recorded
  <2> QED BY <1>2, <1>4, <1>7, <2>1
<1>8. ASSUME NEW r, Recorded(r), r.failed = TRUE, Continue(r, TRUE)
      PROVE  OpenInv'
  BY <1>4, <1>8 DEF Told
<1> QED BY <1>5, <1>6, <1>7, <1>8, HandleGoesOn

\* A lane never takes a row away, nor changes whose it is.
LEMMA LaneRowsStand ==
  ASSUME WorkerAssumption, IInv, NEW l \in Lanes, LaneStep(l) \/ WorkerEnds(l) \/ LaneFails(l)
  PROVE  RowsStand
<1>1. rows \in Seq(Row) /\ (rows' = rows => RowsStand)
  BY DEF IInv, Typed, RowsStand
<1>2. CASE LaneEnters(l)
  BY <1>2, LaneEntersAdds DEF RowsStand
<1>3. ASSUME NEW n \in DOMAIN rows, NEW new \in Row, new.worker = rows[n].worker,
             new.attempt = rows[n].attempt, rows' = [rows EXCEPT ![n] = new]
      PROVE  RowsStand
  BY <1>1, <1>3, RowIsSet
<1>4. CASE LaneSkips(l)
  <2> DEFINE n == lanes[l].row
             new == [rows[n] EXCEPT !.status = "skipped"]
  <2>1. n \in DOMAIN rows /\ rows[n] \in Row
    BY <1>1, <1>4 DEF IInv, LaneInv, LaneSkips, Rowed
  <2>2. new \in Row /\ new.worker = rows[n].worker /\ new.attempt = rows[n].attempt
    <3> HIDE DEF n
    <3> QED BY <2>1 DEF Row
  <2>3. rows' = [rows EXCEPT ![n] = new]
    BY <1>4 DEF LaneSkips
  <2> HIDE DEF n, new
  <2> QED BY <1>3, <2>1, <2>2, <2>3
<1>5. CASE WorkerEnds(l)
  <2> DEFINE n == lanes[l].row
  <2>1. n \in DOMAIN rows /\ rows[n] \in Row
    <3>1. lanes[l].pc = "invoking"
      BY <1>5 DEF WorkerEnds
    <3>2. n \in DOMAIN rows
      BY <3>1 DEF IInv, LaneInv, Rowed
    <3> QED BY <1>1, <3>2
  <2>2. PICK status \in {"succeeded", "failed"} :
          rows' = [rows EXCEPT ![n].logged = TRUE,
                              ![n].status = IF status = "failed" THEN "failed" ELSE @]
    BY <1>5 DEF WorkerEnds
  <2> DEFINE to == IF status = "failed" THEN "failed" ELSE rows[n].status
             new == [rows[n] EXCEPT !.logged = TRUE, !.status = to]
  <2> HIDE DEF n
  <2>3. rows' = [rows EXCEPT ![n] = new]
    BY <1>1, <2>1, <2>2
  <2>4. to \in {"running", "succeeded", "failed", "skipped"}
    BY <2>1 DEF Row
  <2> HIDE DEF to
  <2>5. new \in Row /\ new.worker = rows[n].worker /\ new.attempt = rows[n].attempt
    BY <2>1, <2>4 DEF Row
  <2> HIDE DEF new
  <2> QED BY <1>3, <2>1, <2>3, <2>5
<1>6. CASE LanePublishes(l)
  <2>1. lanes[l].result.row \in DOMAIN rows /\ ResultOK(lanes[l].result)
    BY <1>6 DEF IInv, LaneInv, LanePublishes, ProcessTyped, Rowed
  <2> QED BY <1>6, <2>1, PublicationSets DEF IInv, LanePublishes
<1>7. CASE LaneGoesOn(l)
  BY <1>1, <1>7, LaneGoes
<1>8. CASE LaneAlive(l) \/ LaneClaims(l) \/ LaneConflicts(l) \/ LaneFails(l)
  BY <1>1, <1>8 DEF LaneAlive, LaneClaims, LaneConflicts, LaneFails, LaneThrows, stored
<1> QED BY <1>2, <1>4, <1>5, <1>6, <1>7, <1>8 DEF LaneStep, LaneGoesOn

\* Only a lane that publishes a worker with proposals opens any, and those of its row.
LEMMA LaneOpens ==
  ASSUME IInv, NEW l \in Lanes, LaneStep(l) \/ WorkerEnds(l) \/ LaneFails(l)
  PROVE  open' = open \/ /\ LanePublishes(l) /\ lanes[l].result.acts
                         /\ open' = open \cup {lanes[l].row}
<1>1. CASE LanePublishes(l)
  <2>1. /\ lanes[l].result.row \in DOMAIN rows /\ ResultOK(lanes[l].result)
        /\ lanes[l].result.row = lanes[l].row
    BY <1>1 DEF IInv, LaneInv, LanePublishes, ProcessTyped, Rowed
  <2> QED BY <1>1, <2>1, PublicationSets DEF IInv, LanePublishes
<1>2. CASE LaneGoesOn(l)
  BY <1>2, LaneGoes
<1>3. CASE LaneConflicts(l) \/ LaneFails(l)
  BY <1>3 DEF LaneConflicts, LaneFails, LaneThrows, stored
<1>4. CASE LaneAlive(l) \/ LaneClaims(l) \/ LaneEnters(l) \/ LaneSkips(l) \/ WorkerEnds(l)
  BY <1>4 DEF LaneAlive, LaneClaims, LaneEnters, LaneSkips, WorkerEnds, stored
<1> QED BY <1>1, <1>2, <1>3, <1>4 DEF LaneStep, LaneGoesOn

\* What a lane that stays in its wave does to what is known of its items.
Moved(l, v) ==
  /\ lanes' = [lanes EXCEPT ![l] = v]
  /\ AtWork(v) => \/ AtWork(lanes[l]) /\ v.item = lanes[l].item
                  \/ /\ v.item = (IF Sharing THEN run.next + 1 ELSE run.at + 1)
                     /\ Sharing => run'.next = run.next + 1
  /\ run'.next \in {run.next, run.next + 1}
  /\ \/ run'.results = run.results /\ open' = open
     \/ /\ Sharing /\ lanes[l].pc = "ended" /\ ~AtWork(v) /\ run'.next = run.next
        /\ run'.results = [run.results EXCEPT ![lanes[l].item] = lanes[l].result]
        /\ open' = open \/ (lanes[l].result.acts /\ open' = open \cup {lanes[l].row})

\* How a lane that stays in its wave moves what is known of its items.
LEMMA LaneMoves ==
  ASSUME WorkerAssumption, IInv, NEW l \in Lanes, LaneStep(l) \/ WorkerEnds(l) \/ LaneFails(l), pc' = pc
  PROVE  \E v : Moved(l, v)
<1>1. /\ IsRun(run) /\ lanes[l] \in Lane /\ lanes \in [Lanes -> Lane] /\ pc \in {"lane", "lanes"}
      /\ Sharing => ~Replaying
  BY LaneStays DEF IInv, ProcessTyped, RunInv, Between, Sharing, Replaying
<1>2. ASSUME Refused(l), NEW r, run' = WaveAfterRefusal(r)
      PROVE  Sharing /\ run' = r /\ lanes' = [lanes EXCEPT ![l] = [Off EXCEPT !.pc = "ready"]]
  BY <1>1, <1>2 DEF Refused, WaveAfterRefusal, Sharing
<1>3. ~AtWork([Off EXCEPT !.pc = "ready"]) /\ ~AtWork(Off)
  BY LaneRests DEF AtWork
<1>4. ASSUME NEW item
      PROVE  LET r == [run EXCEPT !.next = item] IN r.next = item /\ r.results = run.results
  BY <1>1 DEF IsRun, Fields
<1>5. CASE LaneAlive(l)
  <2>1. CASE Refused(l) /\ run' = WaveAfterRefusal(run)
    <3>1. Moved(l, [Off EXCEPT !.pc = "ready"])
      BY <1>2, <1>3, <1>5, <2>1 DEF Moved, LaneAlive, stored
    <3> QED BY <3>1
  <2>2. ASSUME NEW p \in {"off", "alive"}, lanes' = [lanes EXCEPT ![l].pc = p], UNCHANGED run
        PROVE  \E v : Moved(l, v)
    <3> DEFINE v == [lanes[l] EXCEPT !.pc = p]
    <3>1. ~AtWork(v) /\ lanes' = [lanes EXCEPT ![l] = v]
      BY <1>1, <2>2 DEF AtWork, Lane, Manned, Rowed
    <3> HIDE DEF v
    <3>2. Moved(l, v)
      BY <1>5, <2>2, <3>1 DEF Moved, LaneAlive, stored
    <3> QED BY <3>2
  <2> QED BY <1>5, <2>1, <2>2 DEF LaneAlive
<1>6. CASE LaneClaims(l)
  <2> DEFINE item == IF Sharing THEN run.next + 1 ELSE run.at + 1
             w == IF Replaying THEN Head(run.todo) ELSE run.items[item]
             claimed == IF Sharing THEN [run EXCEPT !.next = item] ELSE run
             v == [Off EXCEPT !.pc = "claimed", !.item = item, !.worker = w,
                     !.index = IF Replaying THEN steps ELSE run.base + ExecutionIndex(w)]
  <2>1. \/ lanes' = [lanes EXCEPT ![l] = Off] /\ UNCHANGED run
        \/ run' = claimed /\ lanes' = [lanes EXCEPT ![l] = v]
        \/ Refused(l) /\ run' = WaveAfterRefusal(claimed)
    BY <1>6 DEF LaneClaims
  <2>2. /\ claimed.results = run.results /\ claimed.next \in {run.next, run.next + 1}
        /\ Sharing => claimed.next = run.next + 1
    BY <1>4
  <2>3. v.item = item
    BY DEF Off
  <2>4. open' = open
    BY <1>6 DEF LaneClaims, stored
  <2> HIDE DEF v, claimed
  <2>5. CASE lanes' = [lanes EXCEPT ![l] = Off] /\ UNCHANGED run
    <3>1. Moved(l, Off)
      BY <1>3, <2>4, <2>5 DEF Moved
    <3> QED BY <3>1
  <2>6. CASE run' = claimed /\ lanes' = [lanes EXCEPT ![l] = v]
    <3>1. Moved(l, v)
      BY <2>2, <2>3, <2>4, <2>6 DEF Moved
    <3> QED BY <3>1
  <2>7. CASE Refused(l) /\ run' = WaveAfterRefusal(claimed)
    <3>1. Moved(l, [Off EXCEPT !.pc = "ready"])
      BY <1>2, <1>3, <2>2, <2>4, <2>7 DEF Moved
    <3> QED BY <3>1
  <2> QED BY <2>1, <2>5, <2>6, <2>7
<1>7. CASE LaneGoesOn(l)
  <2>1. PICK v \in Lane : /\ lanes' = [lanes EXCEPT ![l] = v] /\ v.item = lanes[l].item
                          /\ lanes[l].pc \in Rowed /\ UNCHANGED <<open, run>>
    BY <1>7, LaneGoes
  <2>2. AtWork(lanes[l])
    BY <2>1, LaneRests DEF AtWork
  <2>3. Moved(l, v)
    BY <2>1, <2>2 DEF Moved
  <2> QED BY <2>3
<1>8. CASE LaneEnters(l)
  <2> DEFINE v == [lanes[l] EXCEPT !.pc = "created", !.row = Len(rows) + 1]
  <2>1. v.item = lanes[l].item /\ lanes' = [lanes EXCEPT ![l] = v] /\ AtWork(lanes[l])
    BY <1>1, <1>8 DEF LaneEnters, Lane, AtWork, Manned
  <2> HIDE DEF v
  <2>2. Moved(l, v)
    BY <1>8, <2>1 DEF Moved, LaneEnters
  <2> QED BY <2>2
<1>9. CASE LaneSkips(l)
  <2>1. Moved(l, [Off EXCEPT !.pc = "ready"])
    BY <1>2, <1>3, <1>9 DEF Moved, LaneSkips
  <2> QED BY <2>1
<1>10. CASE WorkerEnds(l)
  <2>1. PICK res : lanes' = [lanes EXCEPT ![l].pc = "ended", ![l].result = res]
    BY <1>10 DEF WorkerEnds
  <2> DEFINE v == [lanes[l] EXCEPT !.pc = "ended", !.result = res]
  <2>2. v.item = lanes[l].item /\ lanes' = [lanes EXCEPT ![l] = v] /\ AtWork(lanes[l])
    BY <1>1, <1>10, <2>1 DEF WorkerEnds, Lane, AtWork, Manned, Rowed
  <2> HIDE DEF v
  <2>3. Moved(l, v)
    BY <1>10, <2>2 DEF Moved, WorkerEnds
  <2> QED BY <2>3
<1>11. CASE LanePublishes(l)
  <2> DEFINE res == lanes[l].result
             told == [run EXCEPT !.proposed = IF open' # open THEN @ \cup {res.row} ELSE @]
             done == [told EXCEPT !.results[lanes[l].item] = res]
  <2>1. /\ Sharing /\ run' = done /\ lanes' = [lanes EXCEPT ![l] = [Off EXCEPT !.pc = "ready"]]
        /\ lanes[l].pc = "ended"
    BY <1>1, <1>11 DEF LanePublishes, Sharing
  <2>2. told.results = run.results /\ told.next = run.next /\ DOMAIN told = Fields
    <3> HIDE DEF res
    <3> QED BY <1>1 DEF IsRun, Fields
  <2> HIDE DEF told
  <2>3. done.results = [run.results EXCEPT ![lanes[l].item] = res] /\ done.next = run.next
    BY <2>2 DEF Fields
  <2> HIDE DEF done
  <2>4. Moved(l, [Off EXCEPT !.pc = "ready"])
    BY <1>3, <1>11, <2>1, <2>3, LaneOpens DEF Moved
  <2> QED BY <2>4
<1>12. CASE LaneFails(l) \/ LaneConflicts(l)
  <2>1. /\ lanes' = [lanes EXCEPT ![l] = Off] /\ run' = [run EXCEPT !.thrown = TRUE]
        /\ UNCHANGED stored
    BY <1>1, <1>12 DEF LaneFails, LaneConflicts, LaneThrows, Throw
  <2>2. run'.results = run.results /\ run'.next = run.next
    BY <1>1, <2>1 DEF IsRun, Fields
  <2>3. Moved(l, Off)
    BY <1>3, <2>1, <2>2 DEF Moved, stored
  <2> QED BY <2>3
<1> QED BY <1>5, <1>6, <1>7, <1>8, <1>9, <1>10, <1>11, <1>12 DEF LaneStep, LaneGoesOn

\* In a serial wave or in a backflow: nothing is open before the step.
LEMMA SerialWaits ==
  ASSUME WorkerAssumption, IInv, IInv', OpenInv, pc = "lane",
         NEW l \in Lanes, LaneStep(l) \/ WorkerEnds(l) \/ LaneFails(l)
  PROVE  OpenInv'
<1>1. /\ Kept(run') /\ LanePlace /\ open = {} /\ IsRun(run) /\ lanes \in [Lanes -> Lane]
      /\ run.attempt = 0 => InWave /\ ~Parallel(run.wave)
  BY LaneStays DEF OpenInv, NothingOpen, IInv, ProcessTyped, RunInv, InWave, OfWave
<1>2. run'.wave = run.wave /\ pc' # "throwing" /\ pc' # "waves" =>
        /\ InWave => FitsWave(run')
        /\ InWave' => InWave
        /\ run.attempt # 0 /\ OfWave(run') => LastOf(run')
  BY <1>1 DEF OpenInv, RepairIsLast, FitsWave, LastOf, OfWave, InWave, Kept, LanePlace
<1>3. open' = {} \/ LanePublishes(l)
  BY <1>1, LaneOpens
<1>4. LanePublishes(l) => pc' \in {"handling", "replayed"}
  BY <1>1 DEF LanePublishes, Sharing
<1>5. CASE pc' = pc /\ run'.wave = run.wave
  <2>1. PICK v : Moved(l, v)
    BY <1>5, LaneMoves
  <2>2. run'.attempt = 0 => \A m \in Lanes : AtWork(lanes'[m]) => lanes'[m].item = run'.at + 1
    BY <1>1, <2>1 DEF Moved, OpenInv, SerialLane, Kept, Sharing
  <2> QED BY <1>1, <1>2, <1>3, <1>4, <1>5, <2>2 DEF OpenInv, NothingOpen, ResultsTell, WavesWait,
          LanesTell, SerialLane, RepairIsLast, Kept
<1>6. CASE run.attempt = 0 /\ pc' = "handling" /\ run'.wave = run.wave
  <2>1. open' # {} => run'.results[run'.at + 1].acts
    <3> SUFFICES ASSUME open' # {} PROVE run'.results[run'.at + 1].acts
      OBVIOUS
    <3> DEFINE res == lanes[l].result
               told == [run EXCEPT !.proposed = IF open' # open THEN @ \cup {res.row} ELSE @]
               done == [told EXCEPT !.results[lanes[l].item] = res]
    <3>1. LanePublishes(l) /\ res.acts /\ lanes[l].pc = "ended"
      BY <1>1, LaneOpens DEF LanePublishes
    <3>2. run' = done /\ lanes[l].item = run.at + 1
      BY <1>1, <1>6, <3>1 DEF LanePublishes, Sharing, Replaying, OpenInv, SerialLane, AtWork, Manned,
         Rowed
    <3>3. told.results = run.results /\ DOMAIN told = Fields
      <4> HIDE DEF res
      <4> QED BY <1>1 DEF IsRun, Fields
    <3> HIDE DEF told
    <3>4. done.results = [run.results EXCEPT ![lanes[l].item] = res]
      BY <3>3 DEF Fields
    <3> HIDE DEF done, res
    <3>5. run.at + 1 \in DOMAIN run.results
      BY <1>1, <1>6 DEF IInv, RunInv, AtWave, IsRun
    <3> QED BY <1>1, <3>1, <3>2, <3>4, <3>5 DEF Kept
  <2>2. run'.at + 1 \in (run'.at + 1)..Len(run'.items)
    <3>1. AtWave(run)
      BY <1>1, <1>6 DEF IInv, RunInv, InWave, OfWave
    <3>2. run.at \in Nat /\ Len(run.items) \in Nat /\ run.at < Len(run.items)
      BY <1>1, <3>1 DEF IInv, ProcessTyped, IsRun, AtWave
    <3>3. run'.at = run.at /\ run'.items = run.items
      BY <1>1 DEF Kept
    <3> QED BY <3>2, <3>3
  <2> QED BY <1>1, <1>2, <1>6, <2>1, <2>2 DEF OpenInv, NothingOpen, ResultsTell, WavesWait, LanesTell,
          SerialLane, RepairIsLast, Replays
<1>7. CASE run.attempt # 0 /\ pc' \in {"refused", "replayed"} /\ run'.wave = run.wave
  BY <1>1, <1>2, <1>7 DEF OpenInv, NothingOpen, ResultsTell, WavesWait, LanesTell, SerialLane,
     RepairIsLast, Kept
<1>8. CASE run.attempt = 0 /\ pc' = "waves"
  BY <1>3, <1>4, <1>8 DEF OpenInv, NothingOpen, ResultsTell, WavesWait, LanesTell, SerialLane,
     RepairIsLast, InWave, Replays
<1>9. CASE pc' = "throwing"
  BY <1>9, ElsewhereWaits
<1> QED BY <1>1, <1>5, <1>6, <1>7, <1>8, <1>9 DEF LanePlace

\* In a parallel wave.
LEMMA SharedWaits ==
  ASSUME WorkerAssumption, IInv, IInv', OpenInv, pc = "lanes",
         NEW l \in Lanes, LaneStep(l) \/ WorkerEnds(l) \/ LaneFails(l)
  PROVE  OpenInv'
<1>1. Kept(run') /\ LanePlace /\ Sharing /\ run.attempt = 0 /\ run'.attempt = 0 /\ InWave
  BY LaneStays DEF Sharing, IInv, RunInv, Between, InWave, OfWave, Kept
<1>2. CASE pc' = "throwing"
  BY <1>2, ElsewhereWaits
<1>3. CASE pc' = pc /\ run'.wave = run.wave
  <2>1. PICK v : Moved(l, v)
    BY <1>3, LaneMoves
  <2>2. /\ IsRun(run) /\ IsRun(run') /\ lanes \in [Lanes -> Lane] /\ lanes' \in [Lanes -> Lane]
        /\ AtWave(run) /\ LanesTell /\ run'.items = run.items /\ run'.at = run.at /\ RowsStand
        /\ open \subseteq DOMAIN rows
    BY <1>1, LaneRowsStand DEF IInv, Typed, ProcessTyped, RunInv, OpenInv, Kept
  <2>3. /\ DOMAIN run.results = 1..Len(run.items) /\ run.next \in Nat /\ Len(run.items) \in Nat
        /\ \A m \in Lanes : AtWork(lanes[m]) => lanes[m].item \in 1..Len(run.items)
        /\ \A m \in Lanes : AtWork(lanes'[m]) => lanes'[m].item \in 1..Len(run.items)
        /\ \A m \in Lanes : lanes'[m] = IF m = l THEN v ELSE lanes[m]
    <3>1. Len(run.results) = Len(run.items) /\ run.results \in Seq(Result) /\ run.next \in Nat
          /\ Len(run.items) \in Nat
      BY <2>2 DEF AtWave, IsRun
    <3>2. /\ \A m \in Lanes : AtWork(lanes[m]) => lanes[m].item \in 1..Len(run.items)
          /\ \A m \in Lanes : AtWork(lanes'[m]) => lanes'[m].item \in 1..Len(run.items)
      BY <1>1, <2>2 DEF IInv, LaneInv, AtWork
    <3> QED BY <2>1, <2>2, <3>1, <3>2 DEF Moved
  <2>4. \A n \in open' : rows'[n].attempt = 0 /\ WaveOf[rows'[n].worker] = run.wave
    <3>1. \A n \in open : rows'[n].attempt = 0 /\ WaveOf[rows'[n].worker] = run.wave
      BY <1>3, <2>2 DEF RowsStand, LanesTell
    <3>2. lanes[l].pc = "ended" =>
            /\ rows'[lanes[l].row].attempt = 0
            /\ WaveOf[rows'[lanes[l].row].worker] = run.wave
      <4> SUFFICES ASSUME lanes[l].pc = "ended"
                   PROVE  /\ rows'[lanes[l].row].attempt = 0
                          /\ WaveOf[rows'[lanes[l].row].worker] = run.wave
        OBVIOUS
      <4>1. /\ lanes[l].row \in DOMAIN rows /\ rows[lanes[l].row].worker = lanes[l].worker
            /\ rows[lanes[l].row].attempt = run.attempt /\ lanes[l].worker = run.items[lanes[l].item]
            /\ lanes[l].item \in 1..Len(run.items)
        BY <1>1 DEF IInv, LaneInv, Manned, Rowed
      <4>2. WaveOf[run.items[lanes[l].item]] = run.wave
        BY <2>2, <4>1 DEF AtWave
      <4> QED BY <1>1, <2>2, <4>1, <4>2 DEF RowsStand
    <3> QED BY <2>1, <3>1, <3>2 DEF Moved
  <2>5. CASE run'.results = run.results /\ open' = open
    <3>1. \A i \in 1..Len(run.items) : run.results[i].acts => i <= run.next
      BY <1>3, <2>2 DEF LanesTell
    <3>2. \A m \in Lanes : AtWork(lanes[m]) => lanes[m].item <= run.next /\ ~run.results[lanes[m].item].acts
      BY <2>2 DEF LanesTell
    <3>3. run'.next \in {run.next, run.next + 1} /\ run'.next >= run.next
      BY <2>1, <2>3 DEF Moved
    <3>4. AtWork(v) => \/ AtWork(lanes[l]) /\ v.item = lanes[l].item
                       \/ v.item = run.next + 1 /\ run'.next = run.next + 1
      BY <1>1, <2>1 DEF Moved
    <3>5. \A m \in Lanes : AtWork(lanes'[m]) =>
            lanes'[m].item <= run'.next /\ ~run.results[lanes'[m].item].acts
      <4> SUFFICES ASSUME NEW m \in Lanes, AtWork(lanes'[m])
                   PROVE  lanes'[m].item <= run'.next /\ ~run.results[lanes'[m].item].acts
        OBVIOUS
      <4>1. lanes'[m].item \in 1..Len(run.items)
        BY <2>3
      <4>2. CASE lanes'[m].item = run.next + 1 /\ run'.next = run.next + 1
        <5>1. run.next + 1 \in 1..Len(run.items)
          BY <4>1, <4>2
        <5>2. ~(run.next + 1 <= run.next)
          BY <2>3
        <5>3. ~run.results[run.next + 1].acts
          BY <3>1, <5>1, <5>2
        <5> QED BY <2>3, <4>2, <5>3
      <4>3. CASE \E k \in Lanes : AtWork(lanes[k]) /\ lanes'[m].item = lanes[k].item
        BY <2>3, <3>2, <3>3, <4>1, <4>3
      <4> QED BY <2>3, <3>4, <4>2, <4>3
    <3>6. \A m, k \in Lanes : AtWork(lanes'[m]) /\ AtWork(lanes'[k]) /\ m # k =>
            lanes'[m].item # lanes'[k].item
      <4>1. \A m \in Lanes : AtWork(lanes[m]) => lanes[m].item # run.next + 1
        BY <2>3, <3>2
      <4> QED BY <2>2, <2>3, <3>4, <4>1 DEF LanesTell
    <3>7. LanesTell'
      <4>1. run'.at = 0 /\ run'.items = run.items /\ run'.wave = run.wave
        BY <1>1, <1>3, <2>2 DEF LanesTell, Kept
      <4>2. open # {} => \E i \in 1..Len(run.items) : run.results[i].acts
        BY <2>2 DEF LanesTell
      <4>3. \A i \in 1..Len(run.items) : run.results[i].acts => i <= run'.next
        BY <2>3, <3>1, <3>3
      <4> QED BY <2>4, <2>5, <3>5, <3>6, <4>1, <4>2, <4>3 DEF LanesTell
    <3> QED BY <1>1, <1>3, <2>2, <3>7
            DEF OpenInv, NothingOpen, ResultsTell, WavesWait, SerialLane, RepairIsLast, FitsWave
  <2>6. CASE /\ lanes[l].pc = "ended" /\ ~AtWork(v) /\ run'.next = run.next
             /\ run'.results = [run.results EXCEPT ![lanes[l].item] = lanes[l].result]
             /\ open' = open \/ (lanes[l].result.acts /\ open' = open \cup {lanes[l].row})
    <3> DEFINE item == lanes[l].item
    <3>1. AtWork(lanes[l]) /\ item \in 1..Len(run.items) /\ item <= run.next /\ ~run.results[item].acts
      BY <2>2, <2>3, <2>6 DEF AtWork, LanesTell, Manned, Rowed
    <3>2. \A i \in 1..Len(run.items) :
            run'.results[i] = IF i = item THEN lanes[l].result ELSE run.results[i]
      BY <2>3, <2>6
    <3> HIDE DEF item
    <3>3. open' # {} => \E i \in 1..Len(run.items) : run'.results[i].acts
      <4>1. CASE open # {}
        <5>1. PICK i \in 1..Len(run.items) : run.results[i].acts
          BY <2>2, <4>1 DEF LanesTell
        <5> QED BY <3>1, <3>2, <5>1
      <4>2. CASE open = {}
        BY <2>6, <3>1, <3>2, <4>2 DEF item
      <4> QED BY <4>1, <4>2
    <3>4. \A i \in 1..Len(run.items) : run'.results[i].acts => i <= run.next
      BY <1>3, <2>2, <3>1, <3>2 DEF LanesTell
    <3>5. \A m \in Lanes : AtWork(lanes'[m]) =>
            /\ m # l /\ lanes'[m] = lanes[m] /\ lanes[m].item <= run.next
            /\ ~run'.results[lanes[m].item].acts
      <4> SUFFICES ASSUME NEW m \in Lanes, AtWork(lanes'[m])
                   PROVE  /\ m # l /\ lanes'[m] = lanes[m] /\ lanes[m].item <= run.next
                          /\ ~run'.results[lanes[m].item].acts
        OBVIOUS
      <4>1. m # l /\ lanes'[m] = lanes[m] /\ lanes[m].item \in 1..Len(run.items)
        BY <2>3, <2>6
      <4>2. lanes[m].item # item /\ lanes[m].item <= run.next /\ ~run.results[lanes[m].item].acts
        BY <2>2, <3>1, <4>1 DEF LanesTell, item
      <4> QED BY <3>2, <4>1, <4>2
    <3>6. \A m, k \in Lanes : AtWork(lanes'[m]) /\ AtWork(lanes'[k]) /\ m # k =>
            lanes'[m].item # lanes'[k].item
      BY <2>2, <3>5 DEF LanesTell
    <3> QED BY <1>1, <1>3, <2>2, <2>4, <2>6, <3>3, <3>4, <3>5, <3>6
            DEF OpenInv, NothingOpen, ResultsTell, WavesWait, LanesTell, SerialLane, RepairIsLast, FitsWave
  <2> QED BY <2>1, <2>5, <2>6 DEF Moved
<1> QED BY <1>1, <1>2, <1>3 DEF LanePlace

\* No wave begins while proposals are open.
LEMMA NextWaveWaits ==
  ASSUME WorkerAssumption, IInv, OpenInv, NextWave
  PROVE  OpenInv'
<1>1. /\ Process /\ pc = "waves" /\ run.attempt = 0 /\ open' = open /\ lanes = AllOff /\ IsRun(run)
      /\ open # {} => run.waiting \/ run.pending \/ run.failed
  BY DEF IInv, Process, ProcessTyped, RunInv, LaneInv, Between, NextWave, stored, OpenInv, WavesWait, Told
<1>2. CASE pc' = "final"
  BY <1>2, ElsewhereWaits
<1>3. CASE pc' = "waves" /\ ~(run.pending \/ run.failed \/ run.waiting)
  BY <1>1, <1>3 DEF OpenInv, NothingOpen, ResultsTell, WavesWait, LanesTell, SerialLane, RepairIsLast,
     InWave, Replays
<1>4. CASE /\ ~(run.pending \/ run.failed \/ run.waiting)
           /\ pc' \in {"lane", "lanes"} /\ lanes' \in [Lanes -> {Off, [Off EXCEPT !.pc = "ready"]}]
           /\ IsRun(run') /\ run'.attempt = run.attempt /\ run'.wave = run.wave /\ run'.at = 0
           /\ Len(run'.items) = Cardinality(Wave(run.wave) \ run.done)
           /\ run'.results = [i \in 1..Len(run'.items) |-> Nothing]
  <2>1. FitsWave(run')
    <3>1. IsFiniteSet(Wave(run.wave))
      <4>1. Wave(run.wave) \in SUBSET Workers
        BY DEF Wave
      <4> QED BY <4>1, InOrderLists
    <3>2. Cardinality(Wave(run.wave) \ run.done) <= Cardinality(Wave(run.wave))
      BY <3>1, FS_Subset
    <3> QED BY <1>4, <3>2 DEF FitsWave
  <2>2. \A l \in Lanes : ~AtWork(lanes'[l])
    <3>1. \A v \in {Off, [Off EXCEPT !.pc = "ready"]} : ~AtWork(v)
      BY LaneRests DEF AtWork
    <3> QED BY <1>4, <3>1
  <2>3. \A i \in 1..Len(run'.items) : ~run'.results[i].acts
    BY <1>4 DEF Nothing
  <2> QED BY <1>1, <1>4, <2>1, <2>2, <2>3 DEF OpenInv, NothingOpen, ResultsTell, WavesWait, LanesTell,
          SerialLane, RepairIsLast
<1> QED BY <1>1, <1>2, <1>3, <1>4, NextWaveGoesOn

\* Nor does a run.
LEMMA BeginWaits ==
  ASSUME WorkerAssumption, IInv, Begin
  PROVE  OpenInv'
<1>1. /\ attempts \in Seq(Attempt) /\ steps \in Nat /\ pc = "off" /\ open' = open
  BY DEF IInv, Typed, Begin, StartPlan, QualityFails, ResumeQuality
<1>2. UNCHANGED process => OpenInv'
  BY <1>1, ElsewhereWaits DEF process
<1>3. ASSUME NEW rule, StartBackflow(rule) PROVE OpenInv'
  <2>1. PICK r : FreshQuality(r) /\ Backflow(r, rule)
    BY <1>1, <1>3, BackflowStarts
  <2> QED BY <1>1, <2>1, BackflowWaits DEF FreshQuality
<1>4. CASE StartPlan
  <2>1. ASSUME NEW r, FreshPlan(r), NEW rule, Backflow(r, rule) PROVE OpenInv'
    BY <1>1, <2>1, BackflowWaits DEF FreshPlan
  <2>2. CASE open = {} /\ pc' = "waves"
    BY <1>1, <2>2 DEF OpenInv, NothingOpen, ResultsTell, WavesWait, LanesTell, SerialLane, RepairIsLast,
       InWave, Replays
  <2> QED BY <1>1, <1>2, <1>4, <2>1, <2>2, StartPlanStarts
<1> QED BY <1>2, <1>3, <1>4 DEF Begin, QualityFails, ResumeQuality

\* Whoever settles proposals meanwhile makes it only easier.
LEMMA UserWaits ==
  ASSUME OpenInv, UNCHANGED process, rows' = rows, open' \subseteq open
  PROVE  OpenInv'
<1>1. NothingOpen' /\ ResultsTell' /\ WavesWait' /\ LanesTell'
  BY DEF OpenInv, NothingOpen, ResultsTell, WavesWait, LanesTell, Told, AtWork, process
<1>2. SerialLane' /\ RepairIsLast' /\ (InWave => FitsWave(run))'
  BY DEF OpenInv, SerialLane, RepairIsLast, InWave, OfWave, LastOf, FitsWave, process, AtWork
<1> QED BY <1>1, <1>2 DEF OpenInv

\* Every step keeps that open proposals are waited for.
LEMMA StepWaits ==
  ASSUME WorkerAssumption, NoSerialRepair, IInv, OpenInv, [Next]_vars
  PROVE  OpenInv'
<1>1. IInv'
  BY StepKeeps
<1>2. CASE Begin \/ NextWave \/ Handle \/ BackflowStep
  BY <1>2, BeginWaits, NextWaveWaits, HandleWaits, ReplayWaits
<1>3. CASE LanesDrained
  <2>1. /\ pc = "lanes" /\ UNCHANGED <<stored, run>> /\ pc' \in {"throwing", "handling"}
        /\ Parallel(run.wave) /\ InWave /\ LanesTell /\ FitsWave(run)
    BY <1>3 DEF LanesDrained, Sharing, OpenInv, IInv, RunInv, InWave, OfWave, Between
  <2>2. CASE pc' = "handling"
    BY <2>1, <2>2 DEF OpenInv, NothingOpen, ResultsTell, WavesWait, LanesTell, SerialLane, RepairIsLast,
       Replays, FitsWave, stored
  <2> QED BY <2>1, <2>2, ElsewhereWaits
<1>4. CASE FinalRead \/ FinalWrite \/ Consume \/ ReportFailure \/ Crash
  BY <1>4, ElsewhereWaits DEF FinalRead, FinalWrite, Consume, ReportFailure, Crash
<1>5. ASSUME NEW l \in Lanes, LaneStep(l) \/ WorkerEnds(l) \/ LaneFails(l) PROVE OpenInv'
  BY <1>1, <1>5, SerialWaits, SharedWaits, LaneStays
<1>6. CASE Pause \/ Resume \/ Cancel \/ (\E n \in open : Settle(n)) \/ UNCHANGED vars
  <2>1. UNCHANGED process /\ rows' = rows /\ open' \subseteq open
    BY <1>6 DEF Pause, Resume, Cancel, Settle, vars, stored
  <2> QED BY <2>1, UserWaits
<1> QED BY <1>2, <1>3, <1>4, <1>5, <1>6 DEF Next, RunStep

(* No worker starts while proposals await the user's decision, but beside *)
(* those of its own parallel wave: the lists of results, the flags of the  *)
(* run and the reads before a run together miss none.  In a serial wave    *)
(* that goes on behind a suspended repair they do, see NoSerialRepair.     *)
THEOREM ProposalsAreAwaited ==
  ASSUME NoSerialRepair
  PROVE  Spec => WaitsForProposals
<1>1. Init => OpenInv
  BY DEF Init, OpenInv, NothingOpen, ResultsTell, WavesWait, LanesTell, SerialLane, RepairIsLast, InWave,
     Replays
<1>2. IInv /\ OpenInv /\ [Next]_vars => OpenInv'
  BY WorkerAssumption, StepWaits
<1>3. Spec => [](IInv /\ OpenInv)
  BY <1>1, <1>2, Inductive, PTL DEF Spec
<1>4. IInv /\ OpenInv /\ [Next]_vars =>
        [Starts => \A n \in open :
           /\ rows[n].attempt = 0 /\ Started.attempt = 0
           /\ WaveOf[rows[n].worker] = WaveOf[Started.worker] /\ Parallel(WaveOf[Started.worker])]_vars
  <2> SUFFICES ASSUME IInv, OpenInv, [Next]_vars, Starts, NEW n \in open
               PROVE  /\ rows[n].attempt = 0 /\ Started.attempt = 0
                      /\ WaveOf[rows[n].worker] = WaveOf[Started.worker]
                      /\ Parallel(WaveOf[Started.worker])
    OBVIOUS
  <2>1. /\ pc = "lanes" /\ run.attempt = 0 /\ Started.attempt = 0
        /\ \E i \in 1..Len(run.items) : Started.worker = run.items[i]
    BY WorkerAssumption, StartedBy DEF OpenInv, NothingOpen
  <2>2. WaveOf[Started.worker] = run.wave /\ Parallel(run.wave)
    BY <2>1 DEF IInv, RunInv, InWave, OfWave, AtWave
  <2> QED BY <2>1, <2>2 DEF OpenInv, LanesTell
<1> QED BY <1>3, <1>4, PTL DEF Spec, WaitsForProposals

(* A worker starts only when it is due: proposals of earlier work are      *)
(* decided, no repair of the plan has failed and, with the synchronous     *)
(* gateway, the task is not stopped.                                       *)
THEOREM StartsWhenDue ==
  ASSUME NoSerialRepair
  PROVE  Spec => StartsAreDue
BY ProposalsAreAwaited, FailuresStopThePlan, StopsInOneTurn, PTL DEF StartsAreDue

=============================================================================
