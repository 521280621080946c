----------------------------- MODULE WorkerRunner -----------------------------
(***************************************************************************)
(* How the workers of an approved orchestration plan are run: WorkerRunner *)
(* of packages/orchestration with the part of OrchestrationService that    *)
(* calls it, and PipelineBackflowService, which sends a task back to an    *)
(* earlier worker when its quality gate fails.                             *)
(*                                                                         *)
(* Workers are numbered in the order of orderWorkerStepsByDependencies.    *)
(* A run goes through the waves of the plan; the lanes of a parallel wave  *)
(* take workers from a shared list; a serial wave and a backflow use lane  *)
(* 1.  What a run knows is in run and lanes and dies with the process;     *)
(* rows, attempts and open are stored.  pc names the await it is at.       *)
(***************************************************************************)
EXTENDS TaskRunStatus, Naturals, FiniteSetsExt, SequencesExt

CONSTANTS Deps,       \* effectiveWorkerDependencyIds of each worker
          Scoped,     \* workers that may share a wave (canRunParallel)
          MaxLanes,   \* settings.orchestration.maxParallelWorkers
          Rules,      \* backflowRules: [trigger, target, retry, max]
          Proposers,  \* workers that may propose actions
          Fallible,   \* workers that may fail
          OneTurn,    \* only real waits yield, as the synchronous gateway has it
          EarlyGates, \* the user has gates evaluated before the plan is used up
          Moves,      \* what the user does: "pause", "cancel"
          MaxMoves, MaxStarts, MaxFaults  \* bounds on moves, runs and failures of the host

Workers == DOMAIN Deps

ASSUME WorkerAssumption ==
  /\ Deps \in Seq(SUBSET Nat)
  /\ \A w \in Workers : Deps[w] \subseteq 1..(w - 1)
  /\ Scoped \subseteq Workers /\ Proposers \subseteq Workers /\ Fallible \subseteq Workers
  /\ Rules \subseteq [trigger: {"step_failed", "quality_failed"}, target: Workers,
                      retry: Workers, max: 1..5]
  /\ \A r \in Rules : r.target < r.retry
  /\ {OneTurn, EarlyGates} \subseteq BOOLEAN /\ Moves \subseteq {"pause", "cancel"}
  /\ {MaxLanes, MaxMoves, MaxStarts, MaxFaults} \subseteq Nat

VARIABLES
  task,      \* status of the TaskRun
  consent,   \* the approval of the plan: "approved" or "executed"
  rows,      \* the steps of workers, in order of creation
  steps,     \* how many steps of any kind the task has
  current,   \* the row currentStepId names, 0 for another step
  open,      \* rows whose proposed actions are not settled
  attempts,  \* pipeline_backflow_attempts, in order of creation
  pc, run, lanes,
  starts, moves, faults

stored == <<task, consent, rows, steps, current, open, attempts>>
process == <<pc, run, lanes>>
bounds == <<starts, moves, faults>>
vars == <<stored, process, bounds>>

Lanes == 1..(IF MaxLanes > 1 THEN MaxLanes ELSE 1)

\* isWorkerTaskActive
Active == task \notin {"paused", "cancelled", "done"}

-----------------------------------------------------------------------------
\* The plan: waves, execution order and the paths of a backflow.

WaveOf[w \in Workers] == IF Deps[w] = {} THEN 1 ELSE 1 + Max({WaveOf[d] : d \in Deps[w]})

Wave(n) == {w \in Workers : WaveOf[w] = n}

Parallel(n) == Cardinality(Wave(n)) > 1 /\ Wave(n) \subseteq Scoped

\* executionIndexByStepId, counted from 0.
ExecutionIndex(w) ==
  Cardinality({v \in Workers : WaveOf[v] < WaveOf[w] \/ (WaveOf[v] = WaveOf[w] /\ v < w)})

InOrder(ws) == CHOOSE s \in SetToSeqs(ws) : \A i, j \in DOMAIN s : i < j => s[i] < s[j]

\* w and the workers it depends on, directly or not.
Ancestors[w \in Workers] == {w} \cup UNION {Ancestors[d] : d \in Deps[w]}

\* backflowReplayStepsBetween
Replay(rule) ==
  InOrder({w \in Workers : rule.target \in Ancestors[w] /\ w \in Ancestors[rule.retry]})

\* downstreamStepsAfter
Downstream(rule) == InOrder({w \in Workers \ {rule.retry} : rule.retry \in Ancestors[w]})

-----------------------------------------------------------------------------
\* What is stored about the workers.

\* A step the runner creates for a worker; attempt 0 is a run of the plan.
Row == [worker: Workers, attempt: Nat, index: Nat,
        status: {"running", "succeeded", "failed", "skipped"}, logged: BOOLEAN]

Published(n) == rows[n].logged /\ rows[n].status = "succeeded"


\* latestWorkerArtifactForStep: by step index, then by time of creation.
LatestRow(w, attempt) ==
  LET logs == {n \in DOMAIN rows : rows[n].worker = w /\ rows[n].logged
                                   /\ attempt \in {0, rows[n].attempt}}
      last == Max({rows[n].index : n \in logs})
  IN  IF logs = {} THEN 0 ELSE Max({n \in logs : rows[n].index = last})

\* loadCompletedWorkerHandoffs: the row whose output each worker handed off, or 0.
CompletedHandoffs(attempt) ==
  [w \in Workers |-> LET n == LatestRow(w, attempt) IN IF n # 0 /\ Published(n) THEN n ELSE 0]

\* loadRunningBackflowAttempt
RunningAttempts(trigger) ==
  {k \in DOMAIN attempts : attempts[k].rule.trigger = trigger /\ attempts[k].status = "running"}

\* countAttempts
CountAttempts(rule) ==
  Cardinality({k \in DOMAIN attempts : attempts[k].rule = rule
                                       /\ attempts[k].status # "max_attempts_reached"})

\* failedRepair: a failed repair of a step that no later attempt replaced.
FailedRepairs ==
  {k \in DOMAIN attempts :
     /\ attempts[k].rule.trigger = "step_failed" /\ attempts[k].status = "failed"
     /\ \A j \in DOMAIN attempts : attempts[j].rule = attempts[k].rule => j <= k}

-----------------------------------------------------------------------------
\* What a run and a lane remember.

Nothing == [status |-> "none", row |-> 0, acts |-> FALSE, stopped |-> FALSE]

Idle == [kind |-> "none", caller |-> "none", base |-> 0, wave |-> 1, items |-> <<>>, next |-> 0,
         at |-> 0, results |-> <<>>, failed |-> FALSE, waiting |-> FALSE, pending |-> FALSE,
         interrupted |-> FALSE, thrown |-> FALSE, done |-> {}, latest |-> [w \in Workers |-> "none"],
         handoff |-> [w \in Workers |-> 0], proposed |-> {}, attempt |-> 0, todo |-> <<>>,
         recovered |-> {}, result |-> Nothing, seen |-> "none", target |-> "none"]

Off == [pc |-> "off", item |-> 0, worker |-> 0, index |-> 0, row |-> 0, seen |-> "none",
        result |-> Nothing]

AllOff == [l \in Lanes |-> Off]

\* setActiveWorkerTaskStatus(status), where nothing can come between its read and its write.
SetActive(status) == task' = IF Active THEN status ELSE task

\* Where real time passes: no run, or every lane at work waits for its model.
Waiting == pc = "off" \/ (lanes # AllOff /\ \A l \in Lanes : lanes[l].pc \in {"off", "invoking"})

\* What comes from outside the turn of the event loop can happen now.
Yields == OneTurn => Waiting

\* The run throws: the exception reaches OrchestrationService or the caller of the backflow.
Throw == pc' = "throwing" /\ lanes' = AllOff

Finish(r) == pc' = "final" /\ run' = r /\ lanes' = AllOff

-----------------------------------------------------------------------------
\* Backflow: executeBackflowRule and its way back to its caller.

\* The caller goes on with the next result, worker or wave; a serial wave ends with a failure.
Continue(r, stop) ==
  LET last == r.at + 1 = Len(r.items)
      on == [r EXCEPT !.at = @ + 1]
  IN  IF last \/ (stop /\ ~Parallel(r.wave))
      THEN pc' = "waves" /\ run' = [on EXCEPT !.wave = @ + 1] /\ lanes' = AllOff
      ELSE /\ run' = on
           /\ IF Parallel(r.wave) THEN pc' = "handling" /\ lanes' = AllOff
              ELSE pc' = "lane" /\ lanes' = [AllOff EXCEPT ![1].pc = "ready"]

\* Slip: the caller is not told that the backflow failed.
ReturnHandled(r, outcome) ==
  LET back == [r EXCEPT !.pending = @ \/ outcome = "waiting",
                        !.attempt = 0, !.todo = <<>>, !.recovered = {}]
  IN  CASE r.caller = "result" -> Continue(back, FALSE)
        [] r.caller = "resume" -> pc' = "waves" /\ run' = back /\ lanes' = AllOff
        [] r.caller = "quality" -> Finish(back)

\* The outcome of a backflow: it succeeded, it waits to be continued, or it failed.
Return(r, outcome) ==
  LET back == [r EXCEPT !.failed = @ \/ outcome = "failed", !.pending = @ \/ outcome = "waiting",
                        !.attempt = 0, !.todo = <<>>, !.recovered = {}]
  IN  CASE r.caller = "result" -> Continue(back, outcome = "failed")
        [] r.caller = "resume" -> pc' = "waves" /\ run' = back /\ lanes' = AllOff
        [] r.caller = "quality" -> Finish(back)

\* failBackflowAttempt
FailAttempt == attempts' = [attempts EXCEPT ![run.attempt].status = "failed"]

\* suspendBackflowIfNeeded: the backflow does not go on now.
Suspended == ~Active \/ open # {}

Suspend ==
  IF task \in {"cancelled", "done"}
  THEN FailAttempt /\ Return(run, "failed")
  ELSE UNCHANGED attempts /\ Return(run, "waiting")

\* The attempt k is entered: what it invalidates is forgotten, what it published is recovered.
EnterAttempt(r, rule, k, found) ==
  LET invalid == Range(Replay(rule)) \cup Range(Downstream(rule))
      kept == {w \in invalid : found[w] # 0}
  IN  [r EXCEPT
        !.attempt = k, !.recovered = kept,
        !.todo = Replay(rule) \o (IF rule.trigger = "quality_failed" THEN Downstream(rule) ELSE <<>>),
        !.done = (@ \ invalid) \cup kept,
        !.latest = [w \in Workers |-> IF w \in kept THEN "succeeded"
                                      ELSE IF w \in invalid THEN "none" ELSE @[w]],
        !.handoff = [w \in Workers |-> IF w \in invalid THEN found[w] ELSE @[w]]]

\* executeBackflowRule up to its first worker: an attempt is continued, made or refused.
Backflow(r, rule) ==
  LET running == {k \in RunningAttempts(rule.trigger) : attempts[k].rule = rule}
      added(status) == Append(attempts, [rule |-> rule, status |-> status])
  IN  IF running = {} /\ CountAttempts(rule) >= rule.max
      THEN attempts' = added("max_attempts_reached") /\ Return(r, "failed")
      ELSE LET k == IF running = {} THEN Len(attempts) + 1 ELSE Min(running)
           IN  /\ attempts' = IF running = {} THEN added("running") ELSE attempts
               /\ run' = EnterAttempt(r, rule, k, CompletedHandoffs(k))
               /\ pc' = "backflow" /\ lanes' = AllOff

\* The loop over the workers to replay, then over those after the retried one.
NextReplay ==
  /\ pc = "backflow"
  /\ \/ /\ Suspended /\ Suspend
     \/ /\ ~Suspended /\ run.todo # <<>>
        /\ IF Head(run.todo) \in run.recovered
           THEN run' = [run EXCEPT !.todo = Tail(@)] /\ UNCHANGED <<pc, lanes>>
           ELSE pc' = "lane" /\ lanes' = [AllOff EXCEPT ![1].pc = "alive"] /\ UNCHANGED run
        /\ UNCHANGED attempts
     \/ /\ ~Suspended /\ run.todo = <<>>
        /\ pc' = "completing" /\ UNCHANGED <<attempts, run, lanes>>
  /\ UNCHANGED <<task, consent, rows, steps, current, open, bounds>>

\* runBackflowStep returned nothing: the task was inactive when the worker was to start.
ReplayRefused ==
  /\ pc = "refused"
  /\ IF Suspended THEN Suspend ELSE FailAttempt /\ Return(run, "failed")
  /\ UNCHANGED <<task, consent, rows, steps, current, open, bounds>>

\* appendBackflowResult
ReplayResult ==
  /\ pc = "replayed"
  /\ LET w == Head(run.todo)
         good == run.result.status = "succeeded"
         r == [run EXCEPT !.todo = Tail(@), !.latest[w] = run.result.status,
                          !.done = IF good THEN @ \cup {w} ELSE @ \ {w},
                          !.handoff[w] = IF good THEN run.result.row ELSE @,
                          !.interrupted = @ \/ run.result.stopped,
                          !.result = Nothing]
     IN  IF good THEN pc' = "backflow" /\ run' = r /\ UNCHANGED <<attempts, lanes>>
         ELSE FailAttempt /\ Return(r, "failed")
  /\ UNCHANGED <<task, consent, rows, steps, current, open, bounds>>

\* updateAttempt(succeeded): one statement, refused while the task is paused or closed.
CompleteAttempt ==
  /\ pc = "completing"
  /\ IF attempts[run.attempt].status = "running" /\ Active
     THEN /\ attempts' = [attempts EXCEPT ![run.attempt].status = "succeeded"]
          /\ Return(run, "succeeded")
     ELSE pc' = "conflict" /\ UNCHANGED <<attempts, run, lanes>>
  /\ UNCHANGED <<task, consent, rows, steps, current, open, bounds>>

CompletionConflict ==
  /\ pc = "conflict"
  /\ IF Suspended THEN Suspend ELSE Throw /\ UNCHANGED <<attempts, run>>
  /\ UNCHANGED <<task, consent, rows, steps, current, open, bounds>>

-----------------------------------------------------------------------------
\* Runs begin.

\* runApproved of the service and of the runner, up to the first wave.
StartPlan ==
  /\ pc = "off" /\ consent = "approved" /\ Active
  /\ current' = 0
  /\ CASE FailedRepairs # {} ->
            SetActive("blocked") /\ UNCHANGED <<attempts, process, starts>>
       [] FailedRepairs = {} /\ open # {} ->
            SetActive("waiting_for_approval") /\ UNCHANGED <<attempts, process, starts>>
       [] FailedRepairs = {} /\ open = {} ->
            LET found == CompletedHandoffs(0)
                suspended == RunningAttempts("step_failed")
                fresh == [Idle EXCEPT
                  !.kind = "plan", !.base = steps, !.handoff = found, !.caller = "resume",
                  !.done = {w \in Workers : found[w] # 0},
                  !.latest = [w \in Workers |-> IF found[w] # 0 THEN "succeeded" ELSE "none"]]
            IN  /\ starts < MaxStarts /\ starts' = starts + 1
                /\ SetActive("running")
                /\ IF suspended # {}
                   THEN Backflow(fresh, attempts[Min(suspended)].rule)
                   ELSE /\ pc' = "waves" /\ run' = fresh
                        /\ UNCHANGED <<attempts, lanes>>
  /\ UNCHANGED <<consent, rows, steps, open, moves, faults>>

QualityRules == {r \in Rules : r.trigger = "quality_failed"}

\* runQualityBackflow: it starts with no outputs but those of the attempt it continues.
StartBackflow(rule) ==
  /\ starts < MaxStarts /\ starts' = starts + 1
  /\ SetActive("running")
  /\ Backflow([Idle EXCEPT !.kind = "quality", !.caller = "quality", !.base = steps], rule)

\* runForQualityFailure: a gate failed, which the loop evaluates behind the plan, the user
\* whenever he likes.
QualityFails ==
  /\ pc = "off" /\ (consent = "executed" \/ EarlyGates)
  /\ task \in {"running", "waiting_for_approval", "ready_for_review", "quality_failed"}
  /\ QualityRules # {}
  /\ LET running == RunningAttempts("quality_failed")
     IN  \E rule \in QualityRules :
           /\ running # {} => rule = attempts[Min(running)].rule
           /\ StartBackflow(rule)
  /\ UNCHANGED <<consent, rows, steps, current, open, moves, faults>>

\* resumePending, as the progression loop calls it: nothing of the task is unresolved.
ResumeQuality ==
  /\ pc = "off" /\ consent = "executed" /\ open = {}
  /\ task \in {"running", "waiting_for_approval", "ready_for_review"}
  /\ LET running == RunningAttempts("quality_failed")
     IN  \/ running # {} /\ StartBackflow(attempts[Min(running)].rule)
         \/ \* PIPELINE_BACKFLOW_FAILED: the task stands at a worker of a failed attempt.
            /\ running = {} /\ task = "running" /\ current # 0 /\ rows[current].logged
            /\ rows[current].attempt # 0
            /\ attempts[rows[current].attempt].status = "failed"
            /\ attempts[rows[current].attempt].rule.trigger = "quality_failed"
            /\ SetActive("blocked") /\ UNCHANGED <<attempts, process, starts>>
  /\ UNCHANGED <<consent, rows, steps, current, open, moves, faults>>

-----------------------------------------------------------------------------
\* Waves and lanes.

\* The next wave that has a worker to run, unless the run is over.
NextWave ==
  /\ pc = "waves"
  /\ LET items == InOrder(Wave(run.wave) \ run.done)
     IN  IF run.pending \/ run.failed \/ run.waiting \/ ~Active \/ Wave(run.wave) = {}
         THEN Finish(run)
         ELSE IF items = <<>>
         THEN run' = [run EXCEPT !.wave = @ + 1] /\ UNCHANGED <<pc, lanes>>
         ELSE /\ run' = [run EXCEPT !.items = items, !.next = 0, !.at = 0,
                                    !.results = [i \in DOMAIN items |-> Nothing]]
              /\ pc' = IF Parallel(run.wave) THEN "lanes" ELSE "lane"
              /\ lanes' = [l \in Lanes |->
                   IF l = 1 \/ (Parallel(run.wave) /\ l <= Len(items))
                   THEN [Off EXCEPT !.pc = "ready"] ELSE Off]
  /\ UNCHANGED <<stored, bounds>>

\* Where a lane works: for a backflow, in a parallel wave or in a serial one.
Replaying == run.attempt # 0
Sharing == pc = "lanes"

\* The worker did not start (runOne gave null).
Refused(l) ==
  CASE Sharing -> lanes' = [lanes EXCEPT ![l] = [Off EXCEPT !.pc = "ready"]] /\ pc' = pc
    [] Replaying -> lanes' = AllOff /\ pc' = "refused"
    [] OTHER -> lanes' = AllOff /\ pc' = "waves"

\* A serial wave that stops early: the run looks at the next one.
WaveAfterRefusal(r) == IF Sharing \/ Replaying THEN r ELSE [r EXCEPT !.wave = @ + 1]


Exhausted == run.thrown \/ run.next >= Len(run.items)

\* The liveness check before a worker is taken.
LaneAlive(l) ==
  /\ lanes[l].pc = "ready"
  /\ \/ /\ Sharing
        /\ lanes' = [lanes EXCEPT ![l].pc = IF Exhausted \/ ~Active THEN "off" ELSE "alive"]
        /\ UNCHANGED <<pc, run>>
     \/ /\ ~Sharing
        /\ IF Active
           THEN lanes' = [lanes EXCEPT ![l].pc = "alive"] /\ UNCHANGED <<pc, run>>
           ELSE Refused(l) /\ run' = WaveAfterRefusal(run)
  /\ UNCHANGED <<stored, bounds>>

\* The lane l goes on to its next await.
Goes(l, next) == lanes' = [lanes EXCEPT ![l].pc = next]

\* A worker is claimed without an await; runPreparedWorkerStep looks at the task first.
LaneClaims(l) ==
  /\ lanes[l].pc = "alive"
  /\ IF Sharing /\ Exhausted
     THEN lanes' = [lanes EXCEPT ![l] = Off] /\ UNCHANGED <<pc, run>>
     ELSE LET item == IF Sharing THEN run.next + 1 ELSE run.at + 1
              w == IF Replaying THEN Head(run.todo) ELSE run.items[item]
              claimed == IF Sharing THEN [run EXCEPT !.next = item] ELSE run
          IN  IF Active
              THEN /\ lanes' = [lanes EXCEPT ![l] =
                        [Off EXCEPT !.pc = "claimed", !.item = item, !.worker = w,
                           !.index = IF Replaying THEN steps ELSE run.base + ExecutionIndex(w)]]
                   /\ run' = claimed /\ pc' = pc
              ELSE Refused(l) /\ run' = WaveAfterRefusal(claimed)
  /\ UNCHANGED <<stored, bounds>>

\* createStep, whatever has become of the task since it was looked at.
LaneEnters(l) ==
  /\ lanes[l].pc = "claimed"
  /\ rows' = Append(rows, [worker |-> lanes[l].worker, attempt |-> run.attempt,
                           index |-> lanes[l].index, status |-> "running", logged |-> FALSE])
  /\ steps' = steps + 1
  /\ lanes' = [lanes EXCEPT ![l].pc = "created", ![l].row = Len(rows) + 1]
  /\ UNCHANGED <<task, consent, current, open, attempts, pc, run, bounds>>

\* setTaskRunCurrentStep
LaneMarks(l) ==
  /\ lanes[l].pc = "created"
  /\ current' = lanes[l].row /\ Goes(l, "marked")
  /\ UNCHANGED <<task, consent, rows, steps, open, attempts, pc, run, bounds>>

\* setActiveWorkerTaskStatus reads the task, which may run already or have been stopped.
LaneSees(l) ==
  /\ lanes[l].pc = "marked"
  /\ IF Active /\ task # "running"
     THEN lanes' = [lanes EXCEPT ![l].pc = "activating", ![l].seen = task]
     ELSE Goes(l, "entered")
  /\ UNCHANGED <<stored, pc, run, bounds>>

\* ... and lets it run if it still is what was read, or if it was stopped leaves it.
LaneActivates(l) ==
  /\ lanes[l].pc = "activating" /\ (task = lanes[l].seen \/ ~Active)
  /\ task' = IF task = lanes[l].seen THEN "running" ELSE task
  /\ Goes(l, "entered")
  /\ UNCHANGED <<consent, rows, steps, current, open, attempts, pc, run, bounds>>

\* runWorkerStepBody looks at the task once more.
LaneLooks(l) ==
  /\ lanes[l].pc = "entered"
  /\ Goes(l, IF Active THEN "calling" ELSE "skipping")
  /\ UNCHANGED <<stored, pc, run, bounds>>

\* The model is called with the outputs the run has, whatever has become of the task.
LaneInvokes(l) ==
  /\ lanes[l].pc = "calling" /\ Goes(l, "invoking")
  /\ UNCHANGED <<stored, pc, run, bounds>>

\* The task was stopped when it was looked at: the step is skipped.
LaneSkips(l) ==
  /\ lanes[l].pc = "skipping"
  /\ rows' = [rows EXCEPT ![lanes[l].row].status = "skipped"]
  /\ Refused(l) /\ run' = WaveAfterRefusal(run)
  /\ UNCHANGED <<task, consent, steps, current, open, attempts, bounds>>

\* The model answers or fails; its output is logged and a failure is stored.
WorkerEnds(l) ==
  /\ lanes[l].pc = "invoking" /\ Yields
  /\ LET w == lanes[l].worker
         n == lanes[l].row
     IN  \E acts \in BOOLEAN, stopped \in BOOLEAN, status \in {"succeeded", "failed"} :
           /\ acts => w \in Proposers /\ status = "succeeded"
           /\ status = "failed" => w \in Fallible
           /\ stopped => status = "failed"
           /\ rows' = [rows EXCEPT ![n].logged = TRUE,
                                  ![n].status = IF status = "failed" THEN "failed" ELSE @]
           /\ lanes' = [lanes EXCEPT ![l].pc = "ended", ![l].result =
                [status |-> status, row |-> n, acts |-> acts, stopped |-> stopped]]
  /\ UNCHANGED <<task, consent, steps, current, open, attempts, pc, run, bounds>>

\* Slip: the transaction does not look at the task.
PublicationBlind(res) ==
  IF res.status = "succeeded"
  THEN /\ rows' = [rows EXCEPT ![res.row].status = "succeeded"]
       /\ IF res.acts
          THEN open' = open \cup {res.row} /\ steps' = steps + 1 /\ current' = 0
          ELSE UNCHANGED <<open, steps, current>>
  ELSE UNCHANGED <<rows, open, steps, current>>

\* createWorkerActionApprovals: completion and proposals in one transaction, unless the task ended.
Publication(res) ==
  IF res.status = "succeeded" /\ task \notin {"cancelled", "done"}
  THEN /\ rows' = [rows EXCEPT ![res.row].status = "succeeded"]
       /\ IF res.acts
          THEN open' = open \cup {res.row} /\ steps' = steps + 1 /\ current' = 0
          ELSE UNCHANGED <<open, steps, current>>
  ELSE UNCHANGED <<rows, open, steps, current>>

\* processWorkerResultSideEffects, and the result handed to whoever started the worker.
LanePublishes(l) ==
  /\ lanes[l].pc = "ended"
  /\ Publication(lanes[l].result)
  /\ LET res == lanes[l].result
         told == [run EXCEPT !.proposed = IF open' # open THEN @ \cup {res.row} ELSE @]
     IN  CASE Sharing ->
                /\ run' = [told EXCEPT !.results[lanes[l].item] = res]
                /\ lanes' = [lanes EXCEPT ![l] = [Off EXCEPT !.pc = "ready"]] /\ pc' = pc
           [] Replaying -> run' = [told EXCEPT !.result = res] /\ pc' = "replayed" /\ lanes' = AllOff
           [] OTHER -> /\ run' = [told EXCEPT !.results[lanes[l].item] = res]
                       /\ pc' = "handling" /\ lanes' = AllOff
  /\ UNCHANGED <<task, consent, attempts, bounds>>

\* Slip: the lanes are waited for, and the failure of one of them is not passed on.
LanesDrainedQuietly ==
  /\ Sharing /\ lanes = AllOff /\ ~run.thrown /\ pc' = "handling"
  /\ UNCHANGED <<stored, run, lanes, bounds>>

\* runParallel ends when all its lanes have.
LanesDrained ==
  /\ Sharing /\ lanes = AllOff
  /\ pc' = IF run.thrown THEN "throwing" ELSE "handling"
  /\ UNCHANGED <<stored, run, lanes, bounds>>

-----------------------------------------------------------------------------
\* The results of a wave and the end of a run.

StepRules(w) == {r \in Rules : r.trigger = "step_failed" /\ r.retry = w}

\* handleResult for the next result of the wave: recorded, and a failure sent back by its rule.
Handle ==
  /\ pc = "handling"
  /\ LET res == run.results[run.at + 1]
         w == run.items[run.at + 1]
         known == [run EXCEPT !.latest[w] = res.status, !.interrupted = @ \/ res.stopped,
                              !.waiting = @ \/ res.acts,
                              !.handoff[w] = IF res.status = "succeeded" THEN res.row ELSE @]
     IN  CASE res = Nothing -> Continue(run, FALSE) /\ UNCHANGED attempts
           [] res.status = "succeeded" -> Continue(known, res.acts) /\ UNCHANGED attempts
           [] res.status = "failed" /\ (~Active \/ StepRules(w) = {}) ->
                Continue([known EXCEPT !.failed = TRUE], TRUE) /\ UNCHANGED attempts
           [] OTHER -> \E rule \in StepRules(w) : Backflow([known EXCEPT !.caller = "result"], rule)
  /\ UNCHANGED <<task, consent, rows, steps, current, open, bounds>>

\* What the run leaves the task at.
FinalStatus ==
  CASE run.interrupted -> "paused"
    [] ~run.interrupted /\ (run.failed \/ (run.kind = "plan"
                                          /\ \E w \in Workers : run.latest[w] = "failed")) -> "blocked"
    [] OTHER -> IF run.waiting \/ run.pending \/ run.proposed \cap open # {}
                THEN "waiting_for_approval" ELSE "ready_for_review"

\* Slip: the status is written whatever became of the task meanwhile.
FinalWriteBlind ==
  /\ pc = "publishing" /\ task' = run.target
  /\ run' = [run EXCEPT !.seen = run.target] /\ pc' = "consuming"
  /\ UNCHANGED <<consent, rows, steps, current, open, attempts, lanes, bounds>>

\* setActiveWorkerTaskStatus reads the task; the transition is asserted before the write.
FinalRead ==
  /\ pc = "final"
  /\ \/ /\ Active /\ Allowed(task, FinalStatus)
        /\ run' = [run EXCEPT !.seen = task, !.target = FinalStatus] /\ pc' = "publishing"
     \/ ~Active /\ run' = [run EXCEPT !.seen = task] /\ pc' = "consuming"
     \/ Active /\ ~Allowed(task, FinalStatus) /\ pc' = "throwing" /\ UNCHANGED run
  /\ UNCHANGED <<stored, lanes, bounds>>

\* ... and writes it if it still is what was read; a concurrent pause or cancel wins.
FinalWrite ==
  /\ pc = "publishing"
  /\ \/ task = run.seen /\ task' = run.target
        /\ run' = [run EXCEPT !.seen = run.target] /\ pc' = "consuming"
     \/ task # run.seen /\ ~Active /\ run' = [run EXCEPT !.seen = task]
        /\ pc' = "consuming" /\ UNCHANGED task
     \/ task # run.seen /\ Active /\ pc' = "throwing" /\ UNCHANGED <<task, run>>
  /\ UNCHANGED <<consent, rows, steps, current, open, attempts, lanes, bounds>>

\* The workers of which this run knows a success.
Succeeded == {w \in Workers : w \in run.done \/ run.latest[w] = "succeeded"}

NeedsContinuation ==
  run.pending \/ (run.seen = "paused" /\ ~run.interrupted) \/ (run.waiting /\ Succeeded # Workers)

\* runApprovedOnce: the approval of the plan is used up unless the run is to be continued.
Consume ==
  /\ pc = "consuming"
  /\ consent' = IF run.kind = "plan" /\ ~NeedsContinuation THEN "executed" ELSE consent
  /\ pc' = "off" /\ run' = Idle
  /\ UNCHANGED <<task, rows, steps, current, open, attempts, lanes, bounds>>

\* markTaskBlocked, or the caller of the backflow: the task is blocked if it may be.
ReportFailure ==
  /\ pc = "throwing"
  /\ task' = IF Active /\ Allowed(task, "blocked") THEN "blocked" ELSE task
  /\ pc' = "off" /\ run' = Idle
  /\ UNCHANGED <<consent, rows, steps, current, open, attempts, lanes, bounds>>

-----------------------------------------------------------------------------
\* The host fails, the user acts and proposals are settled.

\* A lane throws; the lanes beside it end before the run does.
LaneThrows(l) ==
  /\ IF Sharing
     THEN lanes' = [lanes EXCEPT ![l] = Off] /\ run' = [run EXCEPT !.thrown = TRUE] /\ pc' = pc
     ELSE Throw /\ UNCHANGED run
  /\ UNCHANGED stored

\* The task has moved on since it was read and was not stopped: TASK_RUN_STATE_CONFLICT.
LaneConflicts(l) ==
  /\ lanes[l].pc = "activating" /\ task # lanes[l].seen /\ Active
  /\ LaneThrows(l) /\ UNCHANGED bounds

\* A storage call of a lane fails, outside the try block of its worker.
LaneFails(l) ==
  /\ lanes[l].pc \in {"claimed", "created", "marked", "activating", "ended"}
  /\ faults < MaxFaults /\ faults' = faults + 1
  /\ LaneThrows(l) /\ UNCHANGED <<starts, moves>>

\* The process dies: what the run knew is lost, what it stored is not.
Crash ==
  /\ pc # "off" /\ faults < MaxFaults /\ faults' = faults + 1
  /\ pc' = "off" /\ run' = Idle /\ lanes' = AllOff
  /\ UNCHANGED <<stored, starts, moves>>

Move(name) == Yields /\ name \in Moves /\ moves < MaxMoves /\ moves' = moves + 1

Pause ==
  /\ Move("pause") /\ task \in {"running", "waiting_for_approval"} /\ task' = "paused"
  /\ UNCHANGED <<consent, rows, steps, current, open, attempts, process, starts, faults>>

Resume ==
  /\ Yields /\ task = "paused"
  /\ task' = IF open # {} THEN "waiting_for_approval" ELSE "running"
  /\ UNCHANGED <<consent, rows, steps, current, open, attempts, process, bounds>>

Cancel ==
  /\ Move("cancel") /\ task \notin {"done", "cancelled"}
  /\ task' = "cancelled" /\ open' = {} /\ steps' = steps + 1
  /\ UNCHANGED <<consent, rows, current, attempts, process, starts, faults>>

\* The proposals of a worker were executed (performApproved) or one of them failed.
Settle(n) ==
  /\ Yields /\ n \in open /\ task \in {"running", "waiting_for_approval"}
  /\ open' = open \ {n} /\ steps' = steps + 1 /\ current' = 0
  /\ task' \in {"blocked", IF open' # {} \/ consent = "approved" THEN "waiting_for_approval"
                           ELSE "ready_for_review"}
  /\ UNCHANGED <<consent, rows, attempts, process, bounds>>

-----------------------------------------------------------------------------
Init ==
  /\ task = "waiting_for_approval" /\ consent = "approved"
  /\ rows = <<>> /\ steps = 0 /\ current = 0 /\ open = {} /\ attempts = <<>>
  /\ pc = "off" /\ run = Idle /\ lanes = AllOff
  /\ starts = 0 /\ moves = 0 /\ faults = 0

BackflowStep == NextReplay \/ ReplayRefused \/ ReplayResult \/ CompleteAttempt \/ CompletionConflict

LaneStep(l) ==
  \/ LaneAlive(l) \/ LaneClaims(l) \/ LaneEnters(l) \/ LaneMarks(l)
  \/ LaneSees(l) \/ LaneActivates(l) \/ LaneConflicts(l)
  \/ LaneLooks(l) \/ LaneInvokes(l) \/ LaneSkips(l) \/ LanePublishes(l)

RunStep ==
  \/ NextWave \/ LanesDrained \/ Handle \/ BackflowStep
  \/ FinalRead \/ FinalWrite \/ Consume \/ ReportFailure
  \/ \E l \in Lanes : LaneStep(l)

Begin == StartPlan \/ QualityFails \/ ResumeQuality

Next ==
  \/ Begin \/ RunStep
  \/ \E l \in Lanes : WorkerEnds(l) \/ LaneFails(l)
  \/ Crash \/ Pause \/ Resume \/ Cancel
  \/ \E n \in open : Settle(n)

Spec == Init /\ [][Next]_vars

\* The promises of a run are resolved, and model calls end: they have a time limit.
Fairness == WF_vars(RunStep) /\ WF_vars(\E l \in Lanes : WorkerEnds(l))

FairSpec == Spec /\ Fairness

-----------------------------------------------------------------------------
(* Properties *)

TypeOK ==
  /\ task \in TaskStatus /\ consent \in {"approved", "executed"}
  /\ \A n \in DOMAIN rows : rows[n] \in Row
  /\ steps \in Nat /\ current \in {0} \cup DOMAIN rows /\ open \subseteq DOMAIN rows
  /\ \A k \in DOMAIN attempts :
       attempts[k] \in [rule: Rules, status: {"running", "succeeded", "failed", "max_attempts_reached"}]
  /\ pc \in {"off", "waves", "lane", "lanes", "handling", "backflow", "refused", "replayed",
             "completing", "conflict", "final", "publishing", "consuming", "throwing"}
  /\ DOMAIN lanes = Lanes
  /\ \A l \in Lanes : lanes[l].pc \in
       {"off", "ready", "alive", "claimed", "created", "marked", "activating", "entered",
        "calling", "skipping", "invoking", "ended"}
  /\ starts \in 0..MaxStarts /\ moves \in 0..MaxMoves /\ faults \in 0..MaxFaults

\* The newest output of a worker in order of creation, 0 if there is none.
NewestLog(w) ==
  LET logs == {n \in DOMAIN rows : rows[n].worker = w /\ rows[n].logged}
  IN  IF logs = {} THEN 0 ELSE Max(logs)

\* A step adds a row, and the row it adds.
Starts == Len(rows') > Len(rows)
Started == rows'[Len(rows')]

\* The worker d is on the path that a backflow attempt does again.
Redone(d) == run.attempt # 0 /\ d \in Range(Replay(attempts[run.attempt].rule))


\* No run does again what was published: not the plan, continued after proposals, a pause
\* or a crash, and not a backflow attempt that is continued.
PublishedOnce ==
  [][Starts =>
       LET n == NewestLog(Started.worker)
       IN  IF Started.attempt = 0 THEN n = 0 \/ ~Published(n)
           ELSE \A m \in DOMAIN rows :
                  rows[m].worker = Started.worker /\ rows[m].attempt = Started.attempt
                  => ~Published(m)]_vars

\* While proposals of a worker are not settled only its own parallel wave goes on.
WaitsForProposals ==
  [][Starts => \A n \in open :
       /\ rows[n].attempt = 0 /\ Started.attempt = 0
       /\ WaveOf[rows[n].worker] = WaveOf[Started.worker] /\ Parallel(WaveOf[Started.worker])]_vars

\* A lane gets past one of the two looks at the task: before its step is created or before
\* its model is called.
LetIn(l) == /\ lanes'[l].pc \in {"claimed", "calling"}
            /\ lanes'[l].pc # lanes[l].pc

\* Whatever the user paused or ended while the run was at work stays so: no step of the run
\* changes the status, and no further lane is let in to start a worker or to call a model.
\* A lane that was let in before goes on with that one.
PauseHolds ==
  [][(~Active /\ process' # process) => task' = task /\ \A l \in Lanes : ~LetIn(l)]_vars

\* Where the user acts only while the run waits, no lane is between a look at the task and
\* what it does next: a task that is stopped starts no worker and calls no model.
StopsAtOnce ==
  [][OneTurn /\ ~Active =>
       ~Starts /\ \A l \in Lanes : lanes'[l].pc = "invoking" => lanes[l].pc = "invoking"]_vars

\* A cancelled task has no open proposals, also when a worker ends after the cancellation.
CancelledIsQuiet == task = "cancelled" => open = {}

\* When the plan is used up and the task goes to review, every worker's newest output is
\* published: no wave, lane or repair was skipped.
NothingSkipped ==
  [][consent' # consent /\ run.seen = "ready_for_review" =>
       \A w \in Workers : NewestLog(w) # 0 /\ Published(NewestLog(w))]_vars

\* After a repair failed the plan starts no further worker, in this run or in a later one.
FailedRepairStops == [][Starts /\ Started.attempt = 0 => FailedRepairs = {}]_vars

\* A plan that is used up leaves no repair running, and no rule exceeds its attempts.
AttemptsSettled ==
  /\ consent = "executed" => RunningAttempts("step_failed") = {}
  /\ \A r \in Rules : CountAttempts(r) <= r.max

\* A run ends, whatever the user does and whatever fails meanwhile.
RunsEnd == pc # "off" ~> pc = "off"

-----------------------------------------------------------------------------
(* What the runs check, in parts named above *)

\* The rows of a plan, its attempts and its task fit together: their types, no
\* open proposals of a cancelled task, no repair left running behind a plan that is used
\* up (createWorkerActionApprovals, updateAttempt and the end of runApproved).
WorkersInv == TypeOK /\ CancelledIsQuiet /\ AttemptsSettled

\* A worker is started when it is due: not before the proposals it has to wait for are
\* settled, not behind a repair that failed and, with the synchronous gateway of the desktop,
\* not once its task is stopped (runApproved, its loop over the waves and isTaskRunActive).
StartsAreDue == WaitsForProposals /\ FailedRepairStops /\ StopsAtOnce


\* What the user stopped stays stopped, wherever the run was: a pause is not overwritten by a
\* run or a lane that saw the task before, no further lane is let in, and nothing is proposed
\* for a task that is cancelled (setActiveWorkerTaskStatus, isWorkerTaskActive and
\* createWorkerActionApprovals with their asserts).
StopsHold == PauseHolds /\ []CancelledIsQuiet
=============================================================================
