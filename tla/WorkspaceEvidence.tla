-------------------------- MODULE WorkspaceEvidence --------------------------
(***************************************************************************)
(* When a task that changes files may count as done: the validation runs   *)
(* of its checks, the quality gates computed from them, and the epochs of  *)
(* its workspace that tell whether a verdict still speaks of the files as  *)
(* they are.                                                               *)
(*                                                                         *)
(* files is the version of the checked inputs: whoever writes one of them  *)
(* makes a new version, which is what captureValidationRevision tells      *)
(* apart (contents and change times).  Writers are the executions and      *)
(* model processes, of this task or of another one in the same workspace,  *)
(* that announce their writes as mutations; the user's editor does not.    *)
(* Each checker executes an approved check of the task, each call is an    *)
(* evaluation, a completion or a consent under way; all of them interleave *)
(* at every await.                                                         *)
(***************************************************************************)
EXTENDS TaskRunStatus, Naturals, Sequences, FiniteSets

CONSTANTS Writers, Checkers, Callers, NULL,
          Ops,            \* Ops[c]: what the caller asks for
          Moves,          \* statuses other services move the task to
          MaxVersion,     \* bound on the versions of the files
          MaxGeneration,  \* bound on the mutations
          MaxRuns,        \* bound on the validation runs
          MaxGates        \* bound on the quality gates

ASSUME EvidenceAssumption ==
  /\ NULL \notin Nat
  /\ Ops \in [Callers -> SUBSET {"auto", "evaluate", "review", "risks", "done"}]
  /\ Moves \subseteq TaskStatus \ {"done"}
  /\ {MaxVersion, MaxGeneration, MaxRuns, MaxGates} \subseteq Nat

VARIABLES
  task,        \* status of the TaskRun
  files,       \* version of the inputs
  generation,  \* workspace_validation_state.generation
  active,      \* workspace_validation_state.active_mutations
  open,        \* the writers with a row in workspace_mutations
  runs,        \* the validation_runs of the task, by sequence
  finished,    \* how many of them have finished
  gates,       \* its quality_gate_results, by rowid
  consents,    \* the gates whose known risks were approved
  lost,        \* a step of the task was running when the process died
  checker,     \* what each execution of a check is doing
  call,        \* what each call is doing
  written      \* history: the version the last announced write made

workspace == <<generation, active, open>>
ledger == <<runs, finished>>
vars == <<task, files, workspace, ledger, gates, consents, lost, checker, call, written>>

Fingerprint == Nat \cup {NULL}    \* NULL: the inputs could not be captured

Run == [startFp : Fingerprint, startGen : Nat, finishFp : Fingerprint, finishGen : Nat,
        status : {"running", "passed", "failed", "cancelled"}, step : {"running", "ended"}]

Gate == [status : {"passed", "failed", "warning"}, fp : Fingerprint, gen : Nat, wm : Nat,
         run : Nat]       \* the run the verdict rests on, 0 for none

Checker == [pc : {"before", "captured", "prepared", "running", "ended", "measured", "recording",
                  "recorded"},
            fp : Fingerprint, gen : Nat, quiet : BOOLEAN, run : Nat,
            outcome : {"running", "passed", "failed", "cancelled"}]

Call == [op : {"auto", "evaluate", "review", "risks", "done"}, then : {"none", "applying", "consenting", "stamping", "completing"},
         pc : {"watermark", "runs", "capture", "epoch", "recapture", "reepoch", "rewatermark",
               "create", "examine", "asserting", "capturing", "asserted", "applying",
               "consenting", "consented", "closing", "stamping", "completing"},
         wm : Nat, snapshot : Run \cup {NULL}, run : Nat, fp : Fingerprint, gen : Nat,
         active : Nat, verdict : {"passed", "failed", "warning"}, gate : Nat, since : Nat]

TypeOK ==
  /\ task \in TaskStatus
  /\ files \in Nat /\ generation \in Nat
  /\ open \subseteq Writers /\ active = Cardinality(open)
  /\ runs \in Seq(Run) /\ finished \in 0..Len(runs)
  /\ gates \in Seq(Gate)
  /\ consents \subseteq Nat
  /\ lost \in BOOLEAN
  /\ checker \in [Checkers -> Checker \cup {NULL}]
  /\ call \in [Callers -> Call \cup {NULL}]
  /\ written \in Nat

Init ==
  /\ task = "waiting_for_approval"
  /\ files = 0 /\ generation = 0 /\ active = 0 /\ open = {}
  /\ runs = <<>> /\ finished = 0 /\ gates = <<>> /\ consents = {}
  /\ lost = FALSE
  /\ checker = [k \in Checkers |-> NULL]
  /\ call = [c \in Callers |-> NULL]
  /\ written = 0

-----------------------------------------------------------------------------
(* The workspace *)

\* begin: a new generation, one more active mutation, and a token.
BeginMutation(w) ==
  /\ w \notin open /\ generation < MaxGeneration
  /\ open' = open \cup {w}
  /\ generation' = generation + 1
  /\ active' = active + 1
  /\ UNCHANGED <<task, files, ledger, gates, consents, lost, checker, call, written>>

\* The announced write.
Write(w) ==
  /\ w \in open /\ files < MaxVersion
  /\ files' = files + 1
  /\ written' = files'
  /\ UNCHANGED <<task, workspace, ledger, gates, consents, lost, checker, call>>

\* end: the token is used up, and the generation is new once more.
EndMutation(w) ==
  /\ w \in open
  /\ open' = open \ {w}
  /\ generation' = generation + 1
  /\ active' = active - 1
  /\ UNCHANGED <<task, files, ledger, gates, consents, lost, checker, call, written>>

\* The user saves a file, or a check writes one: nobody announces it.
Edit ==
  /\ files < MaxVersion
  /\ files' = files + 1
  /\ UNCHANGED <<task, workspace, ledger, gates, consents, lost, checker, call, written>>

\* captureValidationRevision: what the files are now, or nothing when they
\* change under it, are too many or cannot be read.
Captures == {files, NULL}

-----------------------------------------------------------------------------
(* A check: RunnerService.prepareShellValidation and runShell *)

At(k, pc) == checker[k] # NULL /\ checker[k].pc = pc

\* An approved check of an open task is claimed, and the epoch read.
Prepare(k) ==
  /\ checker[k] = NULL /\ task \notin Closed /\ Len(runs) < MaxRuns
  /\ checker' = [checker EXCEPT ![k] =
       [pc |-> "before", fp |-> NULL, gen |-> generation, quiet |-> active = 0, run |-> 0,
        outcome |-> "running"]]
  /\ UNCHANGED <<task, files, workspace, ledger, gates, consents, lost, call, written>>

CaptureStart(k) ==
  /\ At(k, "before")
  /\ \E fp \in Captures :
       checker' = [checker EXCEPT ![k] = [@ EXCEPT !.pc = "captured", !.fp = fp]]
  /\ UNCHANGED <<task, files, workspace, ledger, gates, consents, lost, call, written>>

\* A mutation around the capture voids it.
EpochAfter(k) ==
  /\ At(k, "captured")
  /\ LET now == checker[k]
     IN  checker' = [checker EXCEPT ![k] =
           [now EXCEPT !.pc = "prepared",
              !.fp = IF now.quiet /\ active = 0 /\ generation = now.gen THEN now.fp ELSE NULL]]
  /\ UNCHANGED <<task, files, workspace, ledger, gates, consents, lost, call, written>>

\* The step is created, the task runs, the run is recorded and its process
\* started; a task that was closed meanwhile refuses.
BeginRun(k) ==
  /\ At(k, "prepared")
  /\ IF task \in Closed
     THEN checker' = [checker EXCEPT ![k] = NULL] /\ UNCHANGED <<task, runs>>
     ELSE /\ task' = "running"
          /\ runs' = Append(runs, [startFp |-> checker[k].fp, startGen |-> checker[k].gen,
                                   finishFp |-> NULL, finishGen |-> 0,
                                   status |-> "running", step |-> "running"])
          /\ checker' = [checker EXCEPT ![k] = [@ EXCEPT !.pc = "running", !.run = Len(runs')]]
  /\ UNCHANGED <<files, workspace, finished, gates, consents, lost, call, written>>

ProcessEnds(k, outcome) ==
  /\ At(k, "running")
  /\ checker' = [checker EXCEPT ![k] = [@ EXCEPT !.pc = "ended", !.outcome = outcome]]
  /\ UNCHANGED <<task, files, workspace, ledger, gates, consents, lost, call, written>>

CaptureFinish(k) ==
  /\ At(k, "ended")
  /\ \E fp \in Captures :
       checker' = [checker EXCEPT ![k] = [@ EXCEPT !.pc = "measured", !.fp = fp]]
  /\ UNCHANGED <<task, files, workspace, ledger, gates, consents, lost, call, written>>

EpochFinish(k) ==
  /\ At(k, "measured")
  /\ LET now == checker[k]
     IN  checker' = [checker EXCEPT ![k] =
           [now EXCEPT !.pc = "recording", !.gen = generation,
                       !.fp = IF active = 0 THEN now.fp ELSE NULL]]
  /\ UNCHANGED <<task, files, workspace, ledger, gates, consents, lost, call, written>>

FinishRun(k) ==
  /\ At(k, "recording")
  /\ LET now == checker[k]
     IN  runs' = [runs EXCEPT ![now.run] =
           [@ EXCEPT !.status = now.outcome, !.finishFp = now.fp, !.finishGen = now.gen]]
  /\ finished' = finished + 1
  /\ checker' = [checker EXCEPT ![k] = [@ EXCEPT !.pc = "recorded"]]
  /\ UNCHANGED <<task, files, workspace, gates, consents, lost, call, written>>

\* A passed check leaves the task reviewable, or waiting for another approved
\* action; an interrupted one cancels it.
StatusAfter(k) ==
  CASE checker[k].outcome = "passed" /\ (\A other \in Checkers \ {k} : checker[other] = NULL) ->
         "ready_for_review"
    [] checker[k].outcome = "passed" -> "waiting_for_approval"
    [] checker[k].outcome = "failed" -> "blocked"
    [] checker[k].outcome = "cancelled" -> "cancelled"

\* The step ends, the task is settled unless the user stopped it, and the
\* approval has its outcome.
StepEnds(k) ==
  /\ At(k, "recorded")
  /\ runs' = [runs EXCEPT ![checker[k].run].step = "ended"]
  /\ task' = IF task \in {"paused"} \cup Closed \/ ~Allowed(task, StatusAfter(k))
             THEN task ELSE StatusAfter(k)
  /\ checker' = [checker EXCEPT ![k] = NULL]
  /\ UNCHANGED <<files, workspace, finished, gates, consents, lost, call, written>>

-----------------------------------------------------------------------------
(* A verdict: QualityEvaluator.evaluate *)

Calling(c, pc) == call[c] # NULL /\ call[c].pc = pc

\* getWatermark
Watermark == Len(runs) + finished

Latest == gates[Len(gates)]

\* A call that has read nothing so far.
NewCall(op, pc) ==
  [op |-> op, pc |-> pc, then |-> "none", wm |-> 0, snapshot |-> NULL, run |-> 0, fp |-> NULL,
   gen |-> 0, active |-> 0, verdict |-> "warning", gate |-> 0, since |-> 0]

Become(c, now) == call' = [call EXCEPT ![c] = now]
Continue(c, pc) == Become(c, [call[c] EXCEPT !.pc = pc])
End(c) == Become(c, NULL)

\* The user evaluates whenever he likes, the host a task that is reviewable.
Evaluate(c, op) ==
  /\ call[c] = NULL /\ op \in Ops[c] \cap {"auto", "evaluate"} /\ Len(gates) < MaxGates
  /\ op = "auto" => task = "ready_for_review"
  /\ Become(c, NewCall(op, "watermark"))
  /\ UNCHANGED <<task, files, workspace, ledger, gates, consents, lost, checker, written>>

ReadWatermark(c) ==
  /\ Calling(c, "watermark")
  /\ Become(c, [call[c] EXCEPT !.pc = "runs", !.wm = Watermark])
  /\ UNCHANGED <<task, files, workspace, ledger, gates, consents, lost, checker, written>>

ReadRuns(c) ==
  /\ Calling(c, "runs")
  /\ Become(c, [call[c] EXCEPT !.pc = "capture", !.run = Len(runs),
                  !.snapshot = IF runs = <<>> THEN NULL ELSE runs[Len(runs)]])
  /\ UNCHANGED <<task, files, workspace, ledger, gates, consents, lost, checker, written>>

Capture(c) ==
  /\ Calling(c, "capture")
  /\ \E fp \in Captures : Become(c, [call[c] EXCEPT !.pc = "epoch", !.fp = fp])
  /\ UNCHANGED <<task, files, workspace, ledger, gates, consents, lost, checker, written>>

\* Slip: the inputs are compared where the run finished, not where it began.
FinishedHere(run, fp, gen, mutations) ==
  /\ run # NULL /\ fp # NULL /\ mutations = 0
  /\ run.finishFp = fp /\ run.startGen = gen /\ run.finishGen = gen
  /\ run.status \in {"passed", "failed"} /\ run.step = "ended"

\* selectCurrentValidationEvidence: the latest run counts when it began and
\* finished on the inputs and in the generation of now, and has ended.
Selected(run, fp, gen, mutations) ==
  /\ run # NULL /\ fp # NULL /\ mutations = 0
  /\ run.startFp = fp /\ run.finishFp = fp
  /\ run.startGen = gen /\ run.finishGen = gen
  /\ run.status \in {"passed", "failed"} /\ run.step = "ended"

\* The evidence; without any, changed files are a risk.
ReadEpoch(c) ==
  /\ Calling(c, "epoch")
  /\ LET now == call[c]
         selected == Selected(now.snapshot, now.fp, generation, active)
     IN  Become(c, [now EXCEPT !.pc = "recapture", !.gen = generation, !.active = active,
                      !.snapshot = NULL,
                      !.run = IF selected THEN @ ELSE 0,
                      !.verdict = IF selected THEN now.snapshot.status ELSE "warning"])
  /\ UNCHANGED <<task, files, workspace, ledger, gates, consents, lost, checker, written>>

\* The second reading: what changed meanwhile voids the evidence.
Recheck(c, pc, same) ==
  Become(c, IF same THEN [call[c] EXCEPT !.pc = pc]
            ELSE [call[c] EXCEPT !.pc = pc, !.run = 0, !.verdict = "warning"])

Recapture(c) ==
  /\ Calling(c, "recapture")
  /\ \E fp \in Captures : Recheck(c, "reepoch", fp = call[c].fp)
  /\ UNCHANGED <<task, files, workspace, ledger, gates, consents, lost, checker, written>>

ReadEpochAgain(c) ==
  /\ Calling(c, "reepoch")
  /\ Recheck(c, "rewatermark", generation = call[c].gen /\ active = call[c].active)
  /\ UNCHANGED <<task, files, workspace, ledger, gates, consents, lost, checker, written>>

ReadWatermarkAgain(c) ==
  /\ Calling(c, "rewatermark")
  /\ Recheck(c, "create", Watermark = call[c].wm)
  /\ UNCHANGED <<task, files, workspace, ledger, gates, consents, lost, checker, written>>

\* Slip: the epochs of the workspace are not compared.
QuietNow(state) == active = 0 /\ Watermark = state.wm

\* assertValidationStateCurrent, and isValidationCurrent of the repository.
Current(state) == active = 0 /\ generation = state.gen /\ Watermark = state.wm

\* The gate is stored; a pass that is no longer current is stored as a warning.
CreateGate(c) ==
  /\ Calling(c, "create")
  /\ LET now == call[c]
         demoted == now.verdict = "passed" /\ ~(now.fp # NULL /\ Current(now))
     IN  gates' = Append(gates, [status |-> IF demoted THEN "warning" ELSE now.verdict,
                                 fp |-> now.fp, gen |-> now.gen, wm |-> now.wm,
                                 run |-> IF demoted THEN 0 ELSE now.run])
  /\ Become(c, [NewCall(call[c].op, "examine") EXCEPT !.gate = Len(gates')])
  /\ UNCHANGED <<task, files, workspace, ledger, consents, lost, checker, written>>

-----------------------------------------------------------------------------
(* Its use: TaskRunCompletionService over the transactions of LocalStateService *)

IsLatest(gate) == gate = Len(gates)
Acceptable(gate) == gates[gate].status \in {"passed", "warning"}

\* assertQualityGateCurrent before a call goes on to `then`.
AssertFor(c, then) == [call[c] EXCEPT !.pc = "asserting", !.then = then]

AssertState(c) ==
  /\ Calling(c, "asserting")
  /\ LET gate == call[c].gate
     IN  IF IsLatest(gate) /\ gates[gate].fp # NULL /\ Current(gates[gate])
         THEN Continue(c, "capturing") ELSE End(c)
  /\ UNCHANGED <<task, files, workspace, ledger, gates, consents, lost, checker, written>>

\* Slip: the inputs are captured and not compared.
AssertReadable(c) ==
  /\ Calling(c, "capturing")
  /\ \E fp \in Captures : IF fp # NULL THEN Continue(c, "asserted") ELSE End(c)
  /\ UNCHANGED <<task, files, workspace, ledger, gates, consents, lost, checker, written>>

AssertCapture(c) ==
  /\ Calling(c, "capturing")
  /\ \E fp \in Captures :
       IF fp = gates[call[c].gate].fp THEN Continue(c, "asserted") ELSE End(c)
  /\ UNCHANGED <<task, files, workspace, ledger, gates, consents, lost, checker, written>>

AssertAgain(c) ==
  /\ Calling(c, "asserted")
  /\ LET gate == call[c].gate
     IN  IF IsLatest(gate) /\ Current(gates[gate])
         THEN Become(c, [call[c] EXCEPT !.pc = call[c].then, !.then = "none"]) ELSE End(c)
  /\ UNCHANGED <<task, files, workspace, ledger, gates, consents, lost, checker, written>>

\* After an evaluation the host completes a task whose gate passed.
AfterEvaluation(c) ==
  IF call[c].op = "auto" /\ gates[call[c].gate].status = "passed"
  THEN Continue(c, "closing") ELSE End(c)

\* applyQualityGateResult
Examine(c) ==
  /\ Calling(c, "examine")
  /\ IF task \in Closed \/ ~IsLatest(call[c].gate) THEN AfterEvaluation(c)
     ELSE IF Acceptable(call[c].gate) THEN Become(c, AssertFor(c, "applying"))
     ELSE Continue(c, "applying")
  /\ UNCHANGED <<task, files, workspace, ledger, gates, consents, lost, checker, written>>

\* applyQualityGateStatus: the latest verdict, on a task the user has not
\* stopped; anything else leaves the task as it is.
Apply(c) ==
  /\ Calling(c, "applying")
  /\ LET gate == call[c].gate
         status == IF Acceptable(gate) THEN "ready_for_review" ELSE "quality_failed"
     IN  task' = IF /\ task \notin {"paused"} \cup Closed /\ IsLatest(gate)
                    /\ Acceptable(gate) => Current(gates[gate])
                 THEN status ELSE task
  /\ AfterEvaluation(c)
  /\ UNCHANGED <<files, workspace, ledger, gates, consents, lost, checker, written>>

\* markReadyForReview and approveKnownRisks: the user takes the latest gate.
Review(c, op) ==
  /\ call[c] = NULL /\ op \in Ops[c] \cap {"review", "risks"} /\ gates # <<>>
  /\ Acceptable(Len(gates))
  /\ call' = [call EXCEPT ![c] = [NewCall(op, "asserting") EXCEPT
       !.gate = Len(gates), !.then = IF op = "review" THEN "applying" ELSE "consenting"]]
  /\ UNCHANGED <<task, files, workspace, ledger, gates, consents, lost, checker, written>>

\* A step runs while the consent is stored for this very gate.
Consent(c) ==
  /\ Calling(c, "consenting")
  /\ consents' = consents \cup {call[c].gate}
  /\ Continue(c, "consented")
  /\ UNCHANGED <<task, files, workspace, ledger, gates, lost, checker, written>>

Consented(c) ==
  /\ Calling(c, "consented")
  /\ Become(c, AssertFor(c, "applying"))
  /\ UNCHANGED <<task, files, workspace, ledger, gates, consents, lost, checker, written>>

\* A step of the task runs: that of a check, or the one that stores a consent.
StepRuns ==
  \/ \E k \in Checkers : checker[k] # NULL /\ checker[k].run # 0
  \/ \E c \in Callers : Calling(c, "consented")

\* No execution of the task is under way, and no step of it runs.
Settled == ~lost /\ ~StepRuns /\ \A k \in Checkers : checker[k] = NULL

Completable(gate) ==
  /\ task = "ready_for_review" /\ IsLatest(gate) /\ Acceptable(gate) /\ Settled
  /\ gates[gate].status = "warning" => gate \in consents

\* markDone, by the user or, after a pass, by the host.
AskDone(c) ==
  /\ call[c] = NULL /\ "done" \in Ops[c] /\ gates # <<>>
  /\ Become(c, NewCall("done", "closing"))
  /\ UNCHANGED <<task, files, workspace, ledger, gates, consents, lost, checker, written>>

MarkDone(c) ==
  /\ Calling(c, "closing")
  /\ IF Completable(Len(gates))
     THEN Become(c, [AssertFor(c, "stamping") EXCEPT !.gate = Len(gates), !.since = files])
     ELSE End(c)
  /\ UNCHANGED <<task, files, workspace, ledger, gates, consents, lost, checker, written>>

\* The learning trace is written, and everything looked at again.
Stamp(c) ==
  /\ Calling(c, "stamping")
  /\ IF task = "ready_for_review" /\ IsLatest(call[c].gate) /\ Settled
     THEN Become(c, AssertFor(c, "completing")) ELSE End(c)
  /\ UNCHANGED <<task, files, workspace, ledger, gates, consents, lost, checker, written>>

\* completeTaskRun: one transaction.
CompleteTaskRun(c) ==
  /\ Calling(c, "completing")
  /\ task' = IF Completable(call[c].gate) /\ gates[call[c].gate].fp # NULL /\ Current(gates[call[c].gate])
             THEN "done" ELSE task
  /\ End(c)
  /\ UNCHANGED <<files, workspace, ledger, gates, consents, lost, checker, written>>

-----------------------------------------------------------------------------
(* The rest of the application *)

MoveTask(status) ==
  /\ Allowed(task, status)
  /\ task' = status
  /\ UNCHANGED <<files, workspace, ledger, gates, consents, lost, checker, call, written>>

\* Slip: the mutations are closed, and still counted.
RestartCounting ==
  /\ generation < MaxGeneration
  /\ generation' = generation + 1
  /\ open' = {}
  /\ lost' = (lost \/ StepRuns)
  /\ checker' = [k \in Checkers |-> NULL]
  /\ call' = [c \in Callers |-> NULL]
  /\ UNCHANGED <<task, files, active, ledger, gates, consents, written>>

\* The process dies with everything under way.  Startup closes the mutations
\* it left open (recoverAbandoned) and leaves running steps as they are.
Restart ==
  /\ generation < MaxGeneration
  /\ generation' = IF active > 0 \/ open # {} THEN generation + 1 ELSE generation
  /\ active' = 0 /\ open' = {}
  /\ lost' = (lost \/ StepRuns)
  /\ checker' = [k \in Checkers |-> NULL]
  /\ call' = [c \in Callers |-> NULL]
  /\ UNCHANGED <<task, files, ledger, gates, consents, written>>

Workspace == Edit \/ \E w \in Writers : BeginMutation(w) \/ Write(w) \/ EndMutation(w)

Check(k) ==
  \/ Prepare(k) \/ CaptureStart(k) \/ EpochAfter(k) \/ BeginRun(k)
  \/ \E outcome \in {"passed", "failed", "cancelled"} : ProcessEnds(k, outcome)
  \/ CaptureFinish(k) \/ EpochFinish(k) \/ FinishRun(k) \/ StepEnds(k)

Judge(c) ==
  \/ \E op \in Ops[c] : Evaluate(c, op)
  \/ ReadWatermark(c) \/ ReadRuns(c) \/ Capture(c) \/ ReadEpoch(c) \/ Recapture(c)
  \/ ReadEpochAgain(c) \/ ReadWatermarkAgain(c) \/ CreateGate(c)

Finish(c) ==
  \/ \E op \in Ops[c] : Review(c, op)
  \/ AssertState(c) \/ AssertCapture(c) \/ AssertAgain(c)
  \/ Examine(c) \/ Apply(c) \/ Consent(c) \/ Consented(c)
  \/ AskDone(c) \/ MarkDone(c) \/ Stamp(c) \/ CompleteTaskRun(c)

Next ==
  \/ Workspace
  \/ \E k \in Checkers : Check(k)
  \/ \E c \in Callers : Judge(c) \/ Finish(c)
  \/ \E status \in Moves : MoveTask(status)
  \/ Restart

Spec == Init /\ [][Next]_vars
-----------------------------------------------------------------------------
(* Properties *)

Completes == task # "done" /\ task' = "done"

\* The verdict a task is completed on still speaks of its files as far as
\* anybody announced a write: since its inputs were captured none of the
\* executions and model processes of the workspace, of this task or another,
\* has written or is about to (completeTaskRun after three captures).
CompletedUntouched == [][Completes => open = {} /\ written <= Latest.fp]_vars

\* An edit nobody announced is noticed if it came before the completion was
\* asked for.
EditsNoticed ==
  [][Completes => \A c \in Callers : call'[c] # call[c] => call[c].since <= Latest.fp]_vars

\* A pass a task is completed on rests on the last check that was begun: it
\* succeeded, and the verdict's inputs were its own from beginning to end, though
\* the check, the evaluation and the completion read them at seven moments
\* (selectCurrentValidationEvidence, create and completeTaskRun).
PassesRestOnChecks ==
  [][Completes /\ Latest.status = "passed" =>
       /\ Latest.run = Len(runs)
       /\ runs[Latest.run].status = "passed"
       /\ runs[Latest.run].startFp = Latest.fp /\ runs[Latest.run].finishFp = Latest.fp]_vars
=============================================================================
