---------------------- MODULE WorkspaceEvidenceProofs ----------------------
(***************************************************************************)
(* What WorkspaceEvidence keeps true for any number of writers, checks and *)
(* calls, and for every bound: what a completed task's verdict speaks of.  *)
(*                                                                         *)
(* Onward is the direction every step goes: the epochs and the evidence    *)
(* only grow, and what has ended stays as it is.  What a call has read is  *)
(* therefore either still so, or a number it compares has grown.           *)
(***************************************************************************)
EXTENDS WorkspaceEvidence, FiniteSetTheorems, TLAPS

-----------------------------------------------------------------------------
(* The inductive invariant *)

\* The mutations are counted, and the runs that finished are.
Counted ==
  /\ IsFiniteSet(open)
  /\ finished = Cardinality({r \in 1..Len(runs) : runs[r].status # "running"})

\* A check under way owns the row of its run until its step has ended.
HasRun == {"running", "ended", "measured", "recording", "recorded"}

Owns(now) ==
  /\ now.pc \in HasRun => now.run \in 1..Len(runs) /\ runs[now.run].step = "running"
  /\ now.pc \in HasRun \ {"recorded"} => runs[now.run].status = "running"
  /\ now.pc \in HasRun \ {"running"} => now.outcome # "running"

CheckerInv(k) == checker[k] # NULL => Owns(checker[k])

OwnRuns ==
  \A k, l \in Checkers :
    (k # l /\ checker[k] # NULL /\ checker[l] # NULL /\ checker[k].pc \in HasRun /\ checker[l].pc \in HasRun) =>
      checker[k].run # checker[l].run

\* A run that has ended, passed, and was made on these inputs from beginning to end.
PassedOn(r, fp) ==
  /\ r \in 1..Len(runs)
  /\ runs[r].status = "passed" /\ runs[r].step = "ended"
  /\ runs[r].startFp = fp /\ runs[r].finishFp = fp

\* A gate that passed rests on a run, the last one as long as the watermark stands.
GateInv(g) ==
  /\ gates[g].wm <= Watermark
  /\ gates[g].status = "passed" =>
       /\ PassedOn(gates[g].run, gates[g].fp)
       /\ Watermark = gates[g].wm => gates[g].run = Len(runs)

\* What an evaluation has read is so still, or the watermark tells.
Selecting == {"capture", "epoch"}
Verifying == {"recapture", "reepoch", "rewatermark", "create"}

ReadsInv(now) ==
  /\ now.pc \in {"runs"} \cup Selecting \cup Verifying => now.wm <= Watermark
  /\ now.pc \in Selecting /\ now.snapshot # NULL =>
       /\ Watermark = now.wm => now.run = Len(runs)
       /\ now.snapshot.step = "ended" => now.run \in 1..Len(runs) /\ runs[now.run] = now.snapshot
  /\ now.pc \in Verifying /\ now.verdict = "passed" =>
       /\ PassedOn(now.run, now.fp)
       /\ Watermark = now.wm => now.run = Len(runs)

\* A call that asserts its gate has seen the workspace quiet in the gate's
\* generation, and then the files as the gate has them.
WithGate == {"examine", "asserting", "capturing", "asserted", "applying", "consenting", "consented",
             "stamping", "completing"}

AssertsInv(now) ==
  /\ now.pc \in {"asserting", "capturing", "asserted"} =>
       now.then \in {"applying", "consenting", "stamping", "completing"}
  /\ now.pc = "closing" => 1 <= Len(gates)
  /\ now.pc \in WithGate => now.gate \in 1..Len(gates)
  /\ now.pc \in {"capturing", "asserted", "completing"} =>
       /\ gates[now.gate].fp # NULL
       /\ gates[now.gate].gen <= generation
       /\ generation = gates[now.gate].gen => open = {}
  /\ now.pc \in {"asserted", "completing"} =>
       /\ now.since <= gates[now.gate].fp
       /\ generation = gates[now.gate].gen => written <= gates[now.gate].fp

CallInv(c) == call[c] # NULL => ReadsInv(call[c]) /\ AssertsInv(call[c]) /\ call[c].since <= files

IInv ==
  /\ TypeOK
  /\ Counted
  /\ written <= files
  /\ \A k \in Checkers : CheckerInv(k)
  /\ OwnRuns
  /\ \A g \in 1..Len(gates) : GateInv(g)
  /\ \A c \in Callers : CallInv(c)

-----------------------------------------------------------------------------
(* The direction every step goes *)

\* What the invariant says of the types, without the records' fields.
LEMMA Typed ==
  ASSUME IInv
  PROVE  /\ task \in TaskStatus /\ files \in Nat /\ generation \in Nat /\ written \in Nat
         /\ open \subseteq Writers /\ active = Cardinality(open) /\ IsFiniteSet(open)
         /\ runs \in Seq(Run) /\ Len(runs) \in Nat /\ finished \in 0..Len(runs) /\ finished \in Nat
         /\ gates \in Seq(Gate) /\ Len(gates) \in Nat
         /\ consents \subseteq Nat /\ lost \in BOOLEAN
         /\ checker \in [Checkers -> Checker \cup {NULL}] /\ call \in [Callers -> Call \cup {NULL}]
         /\ active \in Nat /\ (active = 0 <=> open = {})
         /\ Watermark \in Nat
<1>1. active \in Nat /\ (active = 0 <=> open = {})
  BY FS_CardinalityType, FS_EmptySet DEF IInv, TypeOK, Counted
<1>2. Len(runs) \in Nat /\ finished \in Nat /\ Len(gates) \in Nat
  BY DEF IInv, TypeOK
<1> QED
  BY <1>1, <1>2 DEF IInv, TypeOK, Counted, Watermark

Onward ==
  /\ files <= files' /\ generation <= generation'
  /\ generation' = generation /\ open = {} => open' = {} /\ written' = written
  /\ Watermark <= Watermark' /\ Len(runs) <= Len(runs')
  /\ Watermark' = Watermark => Len(runs') = Len(runs)
  /\ \A r \in 1..Len(runs) : runs[r].step = "ended" => runs'[r] = runs[r]
  /\ Len(gates) <= Len(gates')
  /\ \A g \in 1..Len(gates) : gates'[g] = gates[g]

\* What ended in the direction of a step stays a ground for a pass.
LEMMA PassStays ==
  ASSUME IInv, Onward, NEW r, NEW fp, PassedOn(r, fp)
  PROVE  PassedOn(r, fp)'
<1>1. Len(runs) \in Nat /\ Len(runs) <= Len(runs')
  BY Typed DEF Onward
<1> QED
  BY <1>1 DEF PassedOn, Onward

\* A gate keeps what it rests on.
LEMMA GateStays ==
  ASSUME IInv, Onward, Watermark' \in Nat, Len(runs') \in Nat, NEW g \in 1..Len(gates)
  PROVE  GateInv(g)'
<1>1. GateInv(g) /\ gates'[g] = gates[g] /\ gates[g] \in Gate
  BY Typed DEF IInv, Onward
<1>2. gates[g].wm \in Nat /\ Watermark \in Nat /\ Watermark <= Watermark'
  BY <1>1, Typed DEF Onward, Gate
<1>3. gates[g].wm <= Watermark'
  BY <1>1, <1>2 DEF GateInv
<1>4. ASSUME gates[g].status = "passed"
      PROVE  /\ PassedOn(gates[g].run, gates[g].fp)'
             /\ Watermark' = gates[g].wm => gates[g].run = Len(runs')
  <2>1. PassedOn(gates[g].run, gates[g].fp)
    BY <1>1, <1>4 DEF GateInv
  <2>2. \A r, fp : PassedOn(r, fp) => PassedOn(r, fp)'
    BY PassStays
  <2>3. PassedOn(gates[g].run, gates[g].fp)'
    BY <2>1, <2>2, <1>1 DEF PassedOn, Onward
  <2> QED
    BY <1>1, <1>2, <1>4, <2>3 DEF GateInv, Onward
<1> QED
  BY <1>1, <1>3, <1>4 DEF GateInv

\* A call keeps what it knows.
LEMMA KnowsStill ==
  ASSUME IInv, Onward, Watermark' \in Nat, Len(runs') \in Nat, Len(gates') \in Nat, files' \in Nat, generation' \in Nat,
         NEW now \in Call, ReadsInv(now), AssertsInv(now), now.since <= files
  PROVE  ReadsInv(now)' /\ AssertsInv(now)' /\ now.since <= files'
<1>1. now.wm \in Nat /\ now.since \in Nat /\ now.run \in Nat /\ now.gate \in Nat
  BY DEF Call
<1>2. now.since <= files'
  BY SMTT(30), <1>1, Typed DEF Onward
<1>3. ReadsInv(now)'
  <2>1. Watermark \in Nat /\ Watermark <= Watermark' /\ (Watermark' = Watermark => Len(runs') = Len(runs))
        /\ Len(runs) \in Nat /\ Len(runs) <= Len(runs')
    BY Typed DEF Onward
  <2>2. now.pc \in {"runs"} \cup Selecting \cup Verifying => now.wm <= Watermark'
    BY <1>1, <2>1 DEF ReadsInv
  <2>3. now.pc \in {"runs"} \cup Selecting \cup Verifying /\ Watermark' = now.wm =>
          Watermark = now.wm /\ Len(runs') = Len(runs)
    BY <1>1, <2>1 DEF ReadsInv
  <2>4. now.pc \in Selecting /\ now.snapshot # NULL =>
          /\ Watermark' = now.wm => now.run = Len(runs')
          /\ now.snapshot.step = "ended" => now.run \in 1..Len(runs') /\ runs'[now.run] = now.snapshot
    BY <2>1, <2>3 DEF ReadsInv, Onward
  <2>5. PassedOn(now.run, now.fp) => PassedOn(now.run, now.fp)'
    BY PassStays
  <2>6. now.pc \in Verifying /\ now.verdict = "passed" =>
          PassedOn(now.run, now.fp)' /\ (Watermark' = now.wm => now.run = Len(runs'))
    BY <2>3, <2>5 DEF ReadsInv
  <2> QED
    BY <2>2, <2>4, <2>6 DEF ReadsInv
<1>4. AssertsInv(now)'
  <2>1. Len(gates) \in Nat /\ Len(gates) <= Len(gates') /\ generation \in Nat /\ generation <= generation'
    BY Typed DEF Onward
  <2>a. ASSUME NEW g \in 1..Len(gates) PROVE gates[g].gen \in Nat
    <3>1. gates[g] \in Gate
      BY Typed
    <3> QED
      BY <3>1 DEF Gate
  <2>2. now.pc \in WithGate =>
          /\ now.gate \in 1..Len(gates) /\ now.gate \in 1..Len(gates')
          /\ gates'[now.gate] = gates[now.gate] /\ gates[now.gate].gen \in Nat
    BY SMTT(30), <2>a, <2>1 DEF AssertsInv, Onward
  <2>3. now.pc \in {"capturing", "asserted", "completing"} =>
          gates[now.gate].gen <= generation /\ gates[now.gate].gen \in Nat
    BY <2>2 DEF AssertsInv, WithGate
  <2>4. now.pc \in {"capturing", "asserted", "completing"} /\ generation' = gates[now.gate].gen =>
          generation = gates[now.gate].gen /\ generation' = generation
    BY <2>1, <2>3
  <2> QED
    BY SMTT(30), <2>1, <2>2, <2>3, <2>4 DEF AssertsInv, Onward, WithGate
<1> QED
  BY <1>2, <1>3, <1>4

-----------------------------------------------------------------------------
(* Steps of one call and of one check *)

\* A step that only moves a call on needs a look at what the call then knows.
LEMMA CallMoves ==
  ASSUME IInv, NEW c \in Callers, NEW now \in Call \cup {NULL}, Become(c, now),
         UNCHANGED <<files, generation, active, open, runs, finished, gates, lost, checker, written>>,
         task' \in TaskStatus, consents' \subseteq Nat,
         now # NULL => ReadsInv(now) /\ AssertsInv(now) /\ now.since <= files
  PROVE  IInv'
<1>1. call' = [call EXCEPT ![c] = now] /\ call \in [Callers -> Call \cup {NULL}]
  BY Typed DEF Become
<1>2. call' \in [Callers -> Call \cup {NULL}]
  BY <1>1
<1>3. TypeOK'
  BY <1>2 DEF IInv, TypeOK
<1>4. ASSUME NEW d \in Callers PROVE CallInv(d)'
  <2>1. CASE d = c
    BY <1>1, <2>1 DEF CallInv, ReadsInv, AssertsInv, PassedOn, Watermark
  <2>2. CASE d # c
    <3>1. call'[d] = call[d]
      BY <1>1, <2>2
    <3> QED
      BY <3>1 DEF IInv, CallInv, ReadsInv, AssertsInv, PassedOn, Watermark
  <2> QED
    BY <2>1, <2>2
<1>5. Counted' /\ written' <= files' /\ OwnRuns' /\ (\A k \in Checkers : CheckerInv(k)')
  BY DEF IInv, Counted, OwnRuns, CheckerInv, Owns
<1>6. \A g \in 1..Len(gates') : GateInv(g)'
  BY DEF IInv, GateInv, PassedOn, Watermark
<1> QED
  BY <1>3, <1>4, <1>5, <1>6 DEF IInv

\* A step that only moves a check on, with the run it has.
LEMMA CheckMoves ==
  ASSUME IInv, NEW k \in Checkers, NEW now \in Checker \cup {NULL}, checker' = [checker EXCEPT ![k] = now],
         UNCHANGED <<task, files, generation, active, open, runs, finished, gates, consents, lost, call, written>>,
         now # NULL => Owns(now),
         now # NULL /\ now.pc \in HasRun => checker[k] # NULL /\ checker[k].pc \in HasRun /\ checker[k].run = now.run
  PROVE  IInv'
<1>1. checker' \in [Checkers -> Checker \cup {NULL}] /\ checker'[k] = now
      /\ \A l \in Checkers : l # k => checker'[l] = checker[l]
  BY Typed
<1>2. TypeOK'
  BY <1>1 DEF IInv, TypeOK
<1>3. \A l \in Checkers : CheckerInv(l)'
  BY <1>1 DEF IInv, CheckerInv, Owns
<1>4. OwnRuns'
  BY <1>1 DEF IInv, OwnRuns
<1>5. Counted' /\ written' <= files' /\ (\A c \in Callers : CallInv(c)')
  BY DEF IInv, Counted, CallInv, ReadsInv, AssertsInv, PassedOn, Watermark
<1>6. \A g \in 1..Len(gates') : GateInv(g)'
  BY DEF IInv, GateInv, PassedOn, Watermark
<1> QED
  BY <1>2, <1>3, <1>4, <1>5, <1>6 DEF IInv

\* Any other step goes onward; what a call that does not move knows stays so.
LEMMA OtherStays ==
  ASSUME IInv, Onward, TypeOK', NEW c \in Callers, call'[c] = NULL \/ call'[c] = call[c]
  PROVE  CallInv(c)'
<1>1. Watermark' \in Nat /\ Len(runs') \in Nat /\ Len(gates') \in Nat /\ files' \in Nat /\ generation' \in Nat
  BY DEF TypeOK, Watermark
<1>2. CASE call'[c] = NULL
  BY <1>2 DEF CallInv
<1>3. CASE call'[c] # NULL
  <2>1. PICK now \in Call : now = call[c] /\ call'[c] = now
    BY <1>3, Typed
  <2>2. ReadsInv(now) /\ AssertsInv(now) /\ now.since <= files
    BY <1>3, <2>1 DEF IInv, CallInv
  <2>3. ReadsInv(now)' /\ AssertsInv(now)' /\ now.since <= files'
    BY <1>1, <2>2, KnowsStill
  <2> QED
    BY <2>1, <2>3 DEF CallInv
<1> QED
  BY <1>2, <1>3

\* ... and so do the gates there are.
LEMMA GatesStay ==
  ASSUME IInv, Onward, TypeOK'
  PROVE  \A g \in 1..Len(gates) : GateInv(g)'
<1>1. Watermark' \in Nat /\ Len(runs') \in Nat
  BY DEF TypeOK, Watermark
<1> QED
  BY <1>1, GateStays

-----------------------------------------------------------------------------
(* An evaluation *)

\* What is known of a call under way.
LEMMA Called ==
  ASSUME IInv, NEW c \in Callers, call[c] # NULL
  PROVE  /\ call[c] \in Call
         /\ ReadsInv(call[c]) /\ AssertsInv(call[c]) /\ call[c].since <= files
BY Typed DEF IInv, CallInv

Fingerprints == NULL \in Fingerprint /\ Nat \subseteq Fingerprint /\ files \in Fingerprint

LEMMA Captured == ASSUME IInv PROVE Fingerprints /\ Captures \subseteq Fingerprint
BY Typed DEF Fingerprint, Fingerprints, Captures

\* A call that has read nothing.
LEMMA Begins ==
  ASSUME NEW op \in {"auto", "evaluate", "review", "risks", "done"}, NEW pc \in {"watermark", "examine", "asserting", "closing"}
  PROVE  /\ NewCall(op, pc) \in Call
         /\ NewCall(op, pc).pc = pc /\ NewCall(op, pc).since = 0
<1>1. NULL \in Fingerprint
  BY DEF Fingerprint
<1> QED
  BY <1>1 DEF NewCall, Call

LEMMA JudgeKeeps ==
  ASSUME IInv, NEW c \in Callers, Judge(c)
  PROVE  IInv'
<1>1. Fingerprints /\ Captures \subseteq Fingerprint
  BY Captured
<1>2. Watermark \in Nat /\ Len(runs) \in Nat /\ runs \in Seq(Run) /\ files \in Nat /\ generation \in Nat /\ active \in Nat
  BY Typed
<1>3. ASSUME NEW now \in Call \cup {NULL}, Become(c, now),
             UNCHANGED <<task, files, workspace, ledger, gates, consents, lost, checker, written>>,
             now # NULL => ReadsInv(now) /\ AssertsInv(now) /\ now.since <= files
      PROVE  IInv'
  BY <1>3, CallMoves, Typed DEF workspace, ledger
<1>4. ASSUME NEW op \in Ops[c], Evaluate(c, op) PROVE IInv'
  <2>1. NewCall(op, "watermark") \in Call /\ NewCall(op, "watermark").pc = "watermark" /\ NewCall(op, "watermark").since = 0
    BY <1>4, Begins DEF Evaluate
  <2>2. ReadsInv(NewCall(op, "watermark")) /\ AssertsInv(NewCall(op, "watermark"))
    BY <2>1 DEF ReadsInv, AssertsInv, Selecting, Verifying, WithGate
  <2> QED
    BY <1>2, <1>3, <1>4, <2>1, <2>2 DEF Evaluate
<1>5. ASSUME ReadWatermark(c) PROVE IInv'
  <2> DEFINE now == [call[c] EXCEPT !.pc = "runs", !.wm = Watermark]
  <2>1. call[c] \in Call /\ call[c].since <= files
    BY <1>5, Called DEF ReadWatermark, Calling
  <2>2. now \in Call /\ now.pc = "runs" /\ now.wm = Watermark /\ now.since = call[c].since
    BY <1>2, <2>1 DEF Call
  <2>3. ReadsInv(now) /\ AssertsInv(now)
    BY <1>2, <2>2 DEF ReadsInv, AssertsInv, Selecting, Verifying, WithGate
  <2> QED
    BY <1>3, <1>5, <2>1, <2>2, <2>3 DEF ReadWatermark
<1>6. ASSUME ReadRuns(c) PROVE IInv'
  <2> DEFINE now == [call[c] EXCEPT !.pc = "capture", !.run = Len(runs),
                       !.snapshot = IF runs = <<>> THEN NULL ELSE runs[Len(runs)]]
  <2>1. call[c] \in Call /\ call[c].since <= files /\ call[c].wm <= Watermark
    BY <1>6, Called DEF ReadRuns, Calling, ReadsInv
  <2>2. runs # <<>> => Len(runs) \in 1..Len(runs) /\ runs[Len(runs)] \in Run
    BY <1>2
  <2>3. now \in Call /\ now.pc = "capture" /\ now.wm = call[c].wm /\ now.since = call[c].since
        /\ now.run = Len(runs) /\ now.snapshot = IF runs = <<>> THEN NULL ELSE runs[Len(runs)]
    BY <1>2, <2>1, <2>2 DEF Call
  <2>4. ReadsInv(now) /\ AssertsInv(now)
    BY <1>2, <2>1, <2>2, <2>3 DEF ReadsInv, AssertsInv, Selecting, Verifying, WithGate
  <2> QED
    BY <1>3, <1>6, <2>1, <2>3, <2>4 DEF ReadRuns
<1>7. ASSUME Capture(c) PROVE IInv'
  <2>1. PICK fp \in Captures : Become(c, [call[c] EXCEPT !.pc = "epoch", !.fp = fp])
    BY <1>7 DEF Capture
  <2> DEFINE now == [call[c] EXCEPT !.pc = "epoch", !.fp = fp]
  <2>2. call[c] \in Call /\ call[c].since <= files /\ ReadsInv(call[c]) /\ call[c].pc = "capture"
    BY <1>7, Called DEF Capture, Calling
  <2>3. now \in Call /\ now.pc = "epoch" /\ now.wm = call[c].wm /\ now.since = call[c].since
        /\ now.run = call[c].run /\ now.snapshot = call[c].snapshot
    BY <1>1, <2>2 DEF Call
  <2>4. ReadsInv(now) /\ AssertsInv(now)
    BY <2>2, <2>3 DEF ReadsInv, AssertsInv, Selecting, Verifying, WithGate
  <2> QED
    BY <1>3, <1>7, <2>1, <2>2, <2>3, <2>4 DEF Capture
<1>8. ASSUME ReadEpoch(c) PROVE IInv'
  <2> DEFINE selected == Selected(call[c].snapshot, call[c].fp, generation, active)
             now == [call[c] EXCEPT !.pc = "recapture", !.gen = generation, !.active = active,
                      !.snapshot = NULL,
                      !.run = IF selected THEN @ ELSE 0,
                      !.verdict = IF selected THEN call[c].snapshot.status ELSE "warning"]
  <2>1. call[c] \in Call /\ call[c].since <= files /\ ReadsInv(call[c]) /\ call[c].pc = "epoch"
    BY <1>8, Called DEF ReadEpoch, Calling
  <2>2. selected => call[c].snapshot # NULL /\ call[c].snapshot.status \in {"passed", "failed"}
                    /\ call[c].snapshot.step = "ended"
                    /\ call[c].snapshot.startFp = call[c].fp /\ call[c].snapshot.finishFp = call[c].fp
    BY DEF Selected
  <2> HIDE DEF selected
  <2>3. now \in Call /\ now.pc = "recapture" /\ now.wm = call[c].wm /\ now.since = call[c].since /\ now.fp = call[c].fp
        /\ now.run = (IF selected THEN call[c].run ELSE 0)
        /\ now.verdict = (IF selected THEN call[c].snapshot.status ELSE "warning")
    BY <1>2, <2>1, <2>2 DEF Call
  <2>4. ReadsInv(now) /\ AssertsInv(now)
    BY <2>1, <2>2, <2>3 DEF ReadsInv, AssertsInv, Selecting, Verifying, WithGate, PassedOn
  <2>5. Become(c, now)
    BY <1>8 DEF ReadEpoch, selected
  <2> QED
    BY <1>3, <1>8, <2>1, <2>3, <2>4, <2>5 DEF ReadEpoch
<1>9. ASSUME NEW same \in BOOLEAN, NEW pc \in Verifying, call[c] # NULL, call[c].pc \in Verifying, Recheck(c, pc, same),
             UNCHANGED <<task, files, workspace, ledger, gates, consents, lost, checker, written>>
      PROVE  IInv'
  <2> DEFINE now == IF same THEN [call[c] EXCEPT !.pc = pc]
                    ELSE [call[c] EXCEPT !.pc = pc, !.run = 0, !.verdict = "warning"]
  <2>1. call[c] \in Call /\ call[c].since <= files /\ ReadsInv(call[c])
    BY <1>9, Called
  <2>2. now \in Call /\ now.pc = pc /\ now.wm = call[c].wm /\ now.since = call[c].since /\ now.fp = call[c].fp
        /\ (now.verdict = "passed" => call[c].verdict = "passed" /\ now.run = call[c].run)
    BY ZenonT(40), <1>9, <2>1 DEF Call, Verifying
  <2>3. ReadsInv(now) /\ AssertsInv(now)
    BY <1>9, <2>1, <2>2 DEF ReadsInv, AssertsInv, Selecting, Verifying, WithGate
  <2> QED
    BY <1>3, <1>9, <2>1, <2>2, <2>3 DEF Recheck
<1>10. ASSUME Recapture(c) PROVE IInv'
  BY <1>9, <1>10 DEF Recapture, Calling, Verifying
<1>11. ASSUME ReadEpochAgain(c) PROVE IInv'
  BY <1>9, <1>11 DEF ReadEpochAgain, Calling, Verifying
<1>12. ASSUME ReadWatermarkAgain(c) PROVE IInv'
  BY <1>9, <1>12 DEF ReadWatermarkAgain, Calling, Verifying
<1>13. ASSUME CreateGate(c) PROVE IInv'
  <2> DEFINE was == call[c]
             demoted == was.verdict = "passed" /\ ~(was.fp # NULL /\ Current(was))
             gate == [status |-> IF demoted THEN "warning" ELSE was.verdict,
                      fp |-> was.fp, gen |-> was.gen, wm |-> was.wm,
                      run |-> IF demoted THEN 0 ELSE was.run]
  <2>1. call[c] \in Call /\ ReadsInv(call[c]) /\ call[c].pc = "create"
    BY <1>13, Called DEF CreateGate, Calling
  <2>2. gate \in Gate /\ gate.wm = was.wm /\ gate.fp = was.fp
        /\ (gate.status = "passed" => was.verdict = "passed" /\ gate.run = was.run)
    BY <2>1 DEF Call, Gate
  <2>3. gates' = Append(gates, gate)
    BY <1>13 DEF CreateGate
  <2>4. gates' \in Seq(Gate) /\ Len(gates') = Len(gates) + 1 /\ gates'[Len(gates) + 1] = gate
        /\ Len(gates) \in Nat
        /\ \A g \in 1..Len(gates) : gates'[g] = gates[g]
    BY <2>2, <2>3, Typed
  <2> HIDE DEF gate
  <2>5. PICK now \in Call : call' = [call EXCEPT ![c] = now] /\ now.pc = "examine" /\ now.since = 0 /\ now.gate = Len(gates')
    <3>1. was.op \in {"auto", "evaluate", "review", "risks", "done"}
      BY <2>1 DEF Call
    <3>2. NewCall(was.op, "examine") \in Call /\ NewCall(was.op, "examine").pc = "examine" /\ NewCall(was.op, "examine").since = 0
      BY <3>1, Begins
    <3>3. PICK blank \in Call : blank = NewCall(was.op, "examine") /\ blank.pc = "examine" /\ blank.since = 0
      BY <3>2
    <3>4. Len(gates') \in Nat
      BY <2>4
    <3>5. /\ [blank EXCEPT !.gate = Len(gates')] \in Call
          /\ [blank EXCEPT !.gate = Len(gates')].pc = "examine"
          /\ [blank EXCEPT !.gate = Len(gates')].since = 0
          /\ [blank EXCEPT !.gate = Len(gates')].gate = Len(gates')
      BY <3>3, <3>4 DEF Call
    <3> QED
      BY <1>13, <3>3, <3>5 DEF CreateGate, Become
  <2>6. UNCHANGED <<task, files, generation, active, open, runs, finished, consents, lost, checker, written>>
    BY <1>13 DEF CreateGate, workspace, ledger
  <2>7. TypeOK'
    BY <2>4, <2>5, <2>6 DEF IInv, TypeOK
  <2>8. Onward
    BY <1>2, <2>4, <2>6 DEF Onward, Watermark
  <2>9. ASSUME NEW g \in 1..Len(gates') PROVE GateInv(g)'
    <3>1. CASE g = Len(gates) + 1
      <4>1. gates'[g] = gate
        BY <2>4, <3>1
      <4> QED
        BY <2>1, <2>2, <2>6, <4>1 DEF GateInv, ReadsInv, Verifying, PassedOn, Watermark
    <3>2. CASE g \in 1..Len(gates)
      BY <2>7, <2>8, <3>2, GatesStay
    <3> QED
      BY <2>4, <3>1, <3>2
  <2>10. ASSUME NEW d \in Callers PROVE CallInv(d)'
    <3>1. CASE d = c
      <4>1. call'[d] = now
        BY <2>5, <3>1, Typed
      <4>2. ReadsInv(now)' /\ AssertsInv(now)' /\ now.since <= files'
        BY <1>2, <2>4, <2>5, <2>6 DEF ReadsInv, AssertsInv, Selecting, Verifying, WithGate
      <4> QED
        BY <4>1, <4>2 DEF CallInv
    <3>2. CASE d # c
      BY <2>5, <2>7, <2>8, <3>2, OtherStays, Typed
    <3> QED
      BY <3>1, <3>2
  <2>11. Counted' /\ written' <= files' /\ OwnRuns' /\ (\A k \in Checkers : CheckerInv(k)')
    BY <2>6 DEF IInv, Counted, OwnRuns, CheckerInv, Owns
  <2> QED
    BY <2>7, <2>9, <2>10, <2>11 DEF IInv
<1> QED
  BY <1>4, <1>5, <1>6, <1>7, <1>8, <1>10, <1>11, <1>12, <1>13 DEF Judge

-----------------------------------------------------------------------------
(* The use of a gate *)

LEMMA FinishKeeps ==
  ASSUME IInv, NEW c \in Callers, Finish(c)
  PROVE  IInv'
<1>1. Fingerprints /\ Captures \subseteq Fingerprint
  BY Captured
<1>2. /\ files \in Nat /\ generation \in Nat /\ active \in Nat /\ (active = 0 <=> open = {}) /\ written <= files
      /\ Len(gates) \in Nat /\ gates \in Seq(Gate) /\ written \in Nat /\ task \in TaskStatus /\ consents \subseteq Nat
      /\ gates # <<>> => 1 <= Len(gates)
  BY Typed DEF IInv
<1>3. ASSUME NEW now \in Call \cup {NULL}, Become(c, now), task' \in TaskStatus, consents' \subseteq Nat,
             UNCHANGED <<files, workspace, ledger, gates, lost, checker, written>>,
             now # NULL => ReadsInv(now) /\ AssertsInv(now) /\ now.since <= files
      PROVE  IInv'
  BY <1>3, CallMoves DEF workspace, ledger
<1>4. ASSUME NEW now \in Call, now.pc \notin {"runs"} \cup Selecting \cup Verifying PROVE ReadsInv(now)
  BY <1>4 DEF ReadsInv, Selecting, Verifying
<1>5. ASSUME call[c] # NULL, NEW pc \in WithGate \cup {"closing"}
      PROVE  /\ [call[c] EXCEPT !.pc = pc] \in Call
             /\ [call[c] EXCEPT !.pc = pc].pc = pc
             /\ [call[c] EXCEPT !.pc = pc].gate = call[c].gate
             /\ [call[c] EXCEPT !.pc = pc].since = call[c].since
             /\ [call[c] EXCEPT !.pc = pc].then = call[c].then
             /\ call[c].since <= files /\ AssertsInv(call[c])
  <2>1. call[c] \in Call /\ AssertsInv(call[c]) /\ call[c].since <= files
    BY <1>5, Called
  <2> QED
    BY <1>5, <2>1 DEF Call, WithGate
<1>6. ASSUME call[c] # NULL, NEW then \in {"applying", "consenting", "stamping", "completing"}
      PROVE  /\ AssertFor(c, then) \in Call
             /\ AssertFor(c, then).pc = "asserting"
             /\ AssertFor(c, then).then = then
             /\ AssertFor(c, then).gate = call[c].gate
             /\ AssertFor(c, then).since = call[c].since
  <2>1. call[c] \in Call
    BY <1>6, Called
  <2> QED
    BY <1>6, <2>1 DEF Call, AssertFor
<1>7. ASSUME call[c] # NULL, call[c].pc \in WithGate, AfterEvaluation(c), task' \in TaskStatus, consents' \subseteq Nat,
             UNCHANGED <<files, workspace, ledger, gates, lost, checker, written>>
      PROVE  IInv'
  <2>1. CASE End(c)
    BY <1>3, <1>7, <2>1 DEF End
  <2>2. CASE Continue(c, "closing")
    <3> DEFINE now == [call[c] EXCEPT !.pc = "closing"]
    <3>1. now \in Call /\ now.pc = "closing" /\ now.since <= files /\ ReadsInv(now)
      BY ZenonT(40), <1>4, <1>5, <1>7 DEF Selecting, Verifying
    <3>2. 1 <= Len(gates)
      BY <1>2, <1>7, Called DEF AssertsInv
    <3>3. AssertsInv(now)
      BY <3>1, <3>2 DEF AssertsInv, WithGate
    <3> QED
      BY <1>3, <1>7, <2>2, <3>1, <3>3 DEF Continue
  <2> QED
    BY <1>7, <2>1, <2>2 DEF AfterEvaluation
<1>8. ASSUME NEW op \in Ops[c], Review(c, op) PROVE IInv'
  <2>1. PICK blank \in Call : blank = NewCall(op, "asserting") /\ blank.pc = "asserting" /\ blank.since = 0
    BY <1>8, Begins DEF Review
  <2>2. PICK then \in {"applying", "consenting"} : then = IF op = "review" THEN "applying" ELSE "consenting"
    OBVIOUS
  <2> DEFINE now == [blank EXCEPT !.gate = Len(gates), !.then = then]
  <2>3. now \in Call /\ now.pc = "asserting" /\ now.since = 0 /\ now.gate = Len(gates) /\ now.then = then
    BY ZenonT(40), <1>2, <2>1, <2>2 DEF Call
  <2>4. Len(gates) \in 1..Len(gates)
    BY <1>2, <1>8 DEF Review
  <2>5. AssertsInv(now) /\ ReadsInv(now)
    BY <1>4, <2>3, <2>4 DEF AssertsInv, WithGate, Selecting, Verifying
  <2>6. Become(c, now)
    BY <1>8, <2>1, <2>2 DEF Review, Become
  <2>7. task' \in TaskStatus /\ consents' \subseteq Nat /\ now.since <= files
        /\ UNCHANGED <<files, workspace, ledger, gates, lost, checker, written>>
    BY <1>2, <1>8, <2>3 DEF Review
  <2> HIDE DEF now
  <2> QED
    BY <1>3, <2>3, <2>5, <2>6, <2>7
<1>9. ASSUME AssertState(c) PROVE IInv'
  <2>1. call[c] # NULL /\ call[c].pc = "asserting"
    BY <1>9 DEF AssertState, Calling
  <2>2. CASE End(c)
    BY <1>2, <1>3, <1>9, <2>2 DEF End, AssertState
  <2>3. CASE Continue(c, "capturing") /\ gates[call[c].gate].fp # NULL /\ Current(gates[call[c].gate])
    <3> DEFINE now == [call[c] EXCEPT !.pc = "capturing"]
    <3>1. /\ now \in Call /\ now.pc = "capturing" /\ now.since <= files /\ ReadsInv(now)
          /\ now.gate = call[c].gate /\ now.then = call[c].then
      BY ZenonT(40), <1>4, <1>5, <2>1 DEF Selecting, Verifying, WithGate
    <3>2. AssertsInv(now)
      BY <1>2, <1>5, <2>1, <2>3, <3>1 DEF AssertsInv, WithGate, Current
    <3> QED
      BY <1>2, <1>3, <1>9, <2>3, <3>1, <3>2 DEF Continue, AssertState
  <2> QED
    BY <1>9, <2>2, <2>3 DEF AssertState
<1>10. ASSUME AssertCapture(c) PROVE IInv'
  <2>1. call[c] # NULL /\ call[c].pc = "capturing"
    BY <1>10 DEF AssertCapture, Calling
  <2>2. CASE End(c)
    BY <1>2, <1>3, <1>10, <2>2 DEF End, AssertCapture
  <2>3. CASE Continue(c, "asserted") /\ \E fp \in Captures : fp = gates[call[c].gate].fp
    <3> DEFINE now == [call[c] EXCEPT !.pc = "asserted"]
    <3>1. /\ now \in Call /\ now.pc = "asserted" /\ now.since <= files /\ ReadsInv(now)
          /\ now.gate = call[c].gate /\ now.then = call[c].then
      BY ZenonT(40), <1>4, <1>5, <2>1 DEF Selecting, Verifying, WithGate
    <3>2. gates[call[c].gate].fp = files
      BY <1>5, <2>1, <2>3 DEF AssertsInv, Captures
    <3>3. AssertsInv(now)
      BY <1>2, <1>5, <2>1, <3>1, <3>2 DEF AssertsInv, WithGate
    <3> QED
      BY <1>2, <1>3, <1>10, <2>3, <3>1, <3>3 DEF Continue, AssertCapture
  <2> QED
    BY <1>10, <2>2, <2>3 DEF AssertCapture
<1>11. ASSUME AssertAgain(c) PROVE IInv'
  <2>1. call[c] \in Call /\ call[c].pc = "asserted" /\ AssertsInv(call[c]) /\ call[c].since <= files
    BY <1>11, Called DEF AssertAgain, Calling
  <2>2. CASE End(c)
    BY <1>2, <1>3, <1>11, <2>2 DEF End, AssertAgain
  <2>3. CASE Become(c, [call[c] EXCEPT !.pc = call[c].then, !.then = "none"])
    <3> DEFINE now == [call[c] EXCEPT !.pc = call[c].then, !.then = "none"]
    <3>1. PICK then \in {"applying", "consenting", "stamping", "completing"} : then = call[c].then
      BY <2>1 DEF AssertsInv
    <3>2. /\ now \in Call /\ now.pc = then /\ now.since = call[c].since /\ now.gate = call[c].gate
      BY <2>1, <3>1 DEF Call
    <3>3. AssertsInv(now) /\ ReadsInv(now)
      BY <1>4, <2>1, <3>1, <3>2 DEF AssertsInv, WithGate, Selecting, Verifying
    <3> QED
      BY <1>2, <1>3, <1>11, <2>1, <2>3, <3>2, <3>3 DEF AssertAgain
  <2> QED
    BY <1>11, <2>2, <2>3 DEF AssertAgain
<1>12. ASSUME call[c] # NULL, call[c].pc \in WithGate, Continue(c, "applying"),
              UNCHANGED <<task, files, workspace, ledger, gates, consents, lost, checker, written>>
       PROVE  IInv'
  <2> DEFINE now == [call[c] EXCEPT !.pc = "applying"]
  <2>1. now \in Call /\ now.pc = "applying" /\ now.since <= files /\ ReadsInv(now) /\ now.gate = call[c].gate
    BY ZenonT(40), <1>4, <1>5, <1>12 DEF Selecting, Verifying, WithGate
  <2>2. AssertsInv(now)
    BY <1>5, <1>12, <2>1 DEF AssertsInv, WithGate
  <2> QED
    BY <1>2, <1>3, <1>12, <2>1, <2>2 DEF Continue
<1>13. ASSUME call[c] # NULL, call[c].pc \in WithGate, NEW then \in {"applying", "consenting", "stamping", "completing"}, Become(c, AssertFor(c, then)),
              UNCHANGED <<task, files, workspace, ledger, gates, consents, lost, checker, written>>
       PROVE  IInv'
  <2>1. PICK now \in Call : now = AssertFor(c, then) /\ now.pc = "asserting" /\ now.then = then /\ now.gate = call[c].gate /\ now.since = call[c].since
    BY <1>6, <1>13
  <2>2. call[c].since <= files /\ AssertsInv(call[c])
    BY <1>13, Called
  <2>3. AssertsInv(now) /\ ReadsInv(now)
    BY <1>4, <1>13, <2>1, <2>2 DEF AssertsInv, WithGate, Selecting, Verifying
  <2> QED
    BY <1>2, <1>3, <1>13, <2>1, <2>2, <2>3
<1>14. ASSUME Examine(c) PROVE IInv'
  <2>1. call[c] # NULL /\ call[c].pc \in WithGate
    BY <1>14 DEF Examine, Calling, WithGate
  <2> QED
    BY <1>2, <1>7, <1>12, <1>13, <1>14, <2>1 DEF Examine
<1>15. ASSUME Apply(c) PROVE IInv'
  <2>1. call[c] # NULL /\ call[c].pc \in WithGate
    BY <1>15 DEF Apply, Calling, WithGate
  <2>2. task' \in TaskStatus
    BY <1>2, <1>15 DEF Apply, TaskStatus
  <2> QED
    BY <1>2, <1>7, <1>15, <2>1, <2>2 DEF Apply
<1>16. ASSUME Consent(c) PROVE IInv'
  <2>1. call[c] # NULL /\ call[c].pc = "consenting"
    BY <1>16 DEF Consent, Calling
  <2> DEFINE now == [call[c] EXCEPT !.pc = "consented"]
  <2>2. now \in Call /\ now.pc = "consented" /\ now.since <= files /\ ReadsInv(now) /\ now.gate = call[c].gate
    BY ZenonT(40), <1>4, <1>5, <2>1 DEF Selecting, Verifying, WithGate
  <2>3. AssertsInv(now) /\ call[c].gate \in Nat
    BY <1>2, <1>5, <2>1, <2>2 DEF AssertsInv, WithGate
  <2>4. consents' \subseteq Nat
    BY <1>2, <1>16, <2>3 DEF Consent
  <2> QED
    BY <1>2, <1>3, <1>16, <2>2, <2>3, <2>4 DEF Continue, Consent
<1>17. ASSUME Consented(c) PROVE IInv'
  BY <1>13, <1>17 DEF Consented, Calling, WithGate
<1>18. ASSUME AskDone(c) PROVE IInv'
  <2>1. PICK now \in Call : now = NewCall("done", "closing") /\ now.pc = "closing" /\ now.since = 0
    BY Begins
  <2>2. AssertsInv(now) /\ ReadsInv(now)
    BY <1>2, <1>4, <1>18, <2>1 DEF AssertsInv, WithGate, Selecting, Verifying, AskDone
  <2> QED
    BY <1>2, <1>3, <1>18, <2>1, <2>2 DEF AskDone
<1>19. ASSUME MarkDone(c) PROVE IInv'
  <2>1. call[c] # NULL /\ call[c].pc = "closing"
    BY <1>19 DEF MarkDone, Calling
  <2>2. CASE End(c)
    BY <1>2, <1>3, <1>19, <2>2 DEF End, MarkDone
  <2>3. CASE Become(c, [AssertFor(c, "stamping") EXCEPT !.gate = Len(gates), !.since = files])
    <3>1. PICK asks \in Call : asks = AssertFor(c, "stamping") /\ asks.pc = "asserting" /\ asks.then = "stamping"
      BY <1>6, <2>1
    <3> DEFINE now == [asks EXCEPT !.gate = Len(gates), !.since = files]
    <3>2. now \in Call /\ now.pc = "asserting" /\ now.then = "stamping" /\ now.gate = Len(gates) /\ now.since = files
      BY <1>2, <3>1 DEF Call
    <3>3. Len(gates) \in 1..Len(gates)
      BY <1>2, <2>1, Called DEF AssertsInv
    <3>4. AssertsInv(now) /\ ReadsInv(now)
      BY <1>4, <3>2, <3>3 DEF AssertsInv, WithGate, Selecting, Verifying
    <3>5. Become(c, now)
      BY <2>3, <3>1
    <3>6. task' \in TaskStatus /\ consents' \subseteq Nat /\ now.since <= files
          /\ UNCHANGED <<files, workspace, ledger, gates, lost, checker, written>>
      BY <1>2, <1>19, <3>2 DEF MarkDone
    <3> HIDE DEF now
    <3> QED
      BY <1>3, <3>2, <3>4, <3>5, <3>6
  <2> QED
    BY <1>19, <2>2, <2>3 DEF MarkDone
<1>20. ASSUME Stamp(c) PROVE IInv'
  <2>1. call[c] # NULL /\ call[c].pc \in WithGate
    BY <1>20 DEF Stamp, Calling, WithGate
  <2>2. CASE End(c)
    BY <1>2, <1>3, <1>20, <2>2 DEF End, Stamp
  <2>3. CASE Become(c, AssertFor(c, "completing"))
    BY <1>13, <1>20, <2>1, <2>3 DEF Stamp
  <2> QED
    BY <1>20, <2>2, <2>3 DEF Stamp
<1>21. ASSUME CompleteTaskRun(c) PROVE IInv'
  <2>1. task' \in TaskStatus
    BY <1>2, <1>21 DEF CompleteTaskRun, TaskStatus
  <2> QED
    BY <1>2, <1>3, <1>21, <2>1 DEF CompleteTaskRun, End
<1> QED
  BY <1>8, <1>9, <1>10, <1>11, <1>14, <1>15, <1>16, <1>17, <1>18, <1>19, <1>20, <1>21 DEF Finish

-----------------------------------------------------------------------------
(* The execution of a check *)

\* What is known of a check under way, and how its row goes on.
LEMMA Checked ==
  ASSUME IInv, NEW k \in Checkers, checker[k] # NULL
  PROVE  checker[k] \in Checker /\ Owns(checker[k])
BY Typed DEF IInv, CheckerInv

LEMMA CheckKeeps ==
  ASSUME IInv, NEW k \in Checkers, Check(k)
  PROVE  IInv'
<1>1. Fingerprints /\ Captures \subseteq Fingerprint
  BY Captured
<1>2. /\ files \in Nat /\ generation \in Nat /\ active \in Nat /\ (active = 0 <=> open = {}) /\ task \in TaskStatus
      /\ Len(runs) \in Nat /\ runs \in Seq(Run) /\ finished \in 0..Len(runs) /\ Watermark \in Nat
      /\ checker \in [Checkers -> Checker \cup {NULL}]
  BY Typed
<1>3. ASSUME NEW now \in Checker \cup {NULL}, checker' = [checker EXCEPT ![k] = now],
             UNCHANGED <<task, files, workspace, ledger, gates, consents, lost, call, written>>,
             now # NULL => Owns(now),
             now # NULL /\ now.pc \in HasRun => checker[k] # NULL /\ checker[k].pc \in HasRun /\ checker[k].run = now.run
      PROVE  IInv'
  BY <1>3, CheckMoves DEF workspace, ledger
<1>4. ASSUME Prepare(k) PROVE IInv'
  <2> DEFINE now == [pc |-> "before", fp |-> NULL, gen |-> generation, quiet |-> active = 0, run |-> 0,
                     outcome |-> "running"]
  <2>1. now \in Checker /\ now.pc = "before"
    BY <1>1, <1>2 DEF Checker, Fingerprints
  <2>2. Owns(now)
    BY <2>1 DEF Owns, HasRun
  <2>3. checker' = [checker EXCEPT ![k] = now] /\ UNCHANGED <<task, files, workspace, ledger, gates, consents, lost, call, written>>
    BY <1>4 DEF Prepare
  <2> HIDE DEF now
  <2> QED
    BY <1>3, <2>1, <2>2, <2>3 DEF HasRun
<1>5. ASSUME CaptureStart(k) PROVE IInv'
  <2>1. PICK fp \in Captures : checker' = [checker EXCEPT ![k] = [@ EXCEPT !.pc = "captured", !.fp = fp]]
    BY <1>5 DEF CaptureStart
  <2> DEFINE now == [checker[k] EXCEPT !.pc = "captured", !.fp = fp]
  <2>2. now \in Checker /\ now.pc = "captured"
    BY <1>1, <1>5, Checked DEF Checker, CaptureStart, At
  <2>3. Owns(now)
    BY <2>2 DEF Owns, HasRun
  <2>4. checker' = [checker EXCEPT ![k] = now] /\ UNCHANGED <<task, files, workspace, ledger, gates, consents, lost, call, written>>
    BY <1>2, <1>5, <2>1 DEF CaptureStart
  <2> HIDE DEF now
  <2> QED
    BY <1>3, <2>2, <2>3, <2>4 DEF HasRun
<1>6. ASSUME EpochAfter(k) PROVE IInv'
  <2> DEFINE now == [checker[k] EXCEPT !.pc = "prepared",
                       !.fp = IF checker[k].quiet /\ active = 0 /\ generation = checker[k].gen
                              THEN checker[k].fp ELSE NULL]
  <2>1. checker[k] \in Checker
    BY <1>6, Checked DEF EpochAfter, At
  <2>2. now \in Checker /\ now.pc = "prepared"
    BY <1>1, <2>1 DEF Checker, Fingerprints
  <2>3. Owns(now)
    BY <2>2 DEF Owns, HasRun
  <2>4. checker' = [checker EXCEPT ![k] = now] /\ UNCHANGED <<task, files, workspace, ledger, gates, consents, lost, call, written>>
    BY <1>2, <1>6, <2>1 DEF EpochAfter
  <2> HIDE DEF now
  <2> QED
    BY <1>3, <2>2, <2>3, <2>4 DEF HasRun
<1>7. ASSUME NEW outcome \in {"passed", "failed", "cancelled"}, ProcessEnds(k, outcome) PROVE IInv'
  <2> DEFINE now == [checker[k] EXCEPT !.pc = "ended", !.outcome = outcome]
  <2>1. checker[k] # NULL /\ checker[k] \in Checker /\ checker[k].pc = "running" /\ Owns(checker[k])
    BY <1>7, Checked DEF ProcessEnds, At
  <2>2. now \in Checker /\ now.pc = "ended" /\ now.run = checker[k].run /\ now.outcome = outcome
    BY <2>1 DEF Checker
  <2>3. Owns(now)
    BY <2>1, <2>2 DEF Owns, HasRun
  <2>4. checker' = [checker EXCEPT ![k] = now] /\ UNCHANGED <<task, files, workspace, ledger, gates, consents, lost, call, written>>
    BY <1>2, <1>7 DEF ProcessEnds
  <2> HIDE DEF now
  <2> QED
    BY <1>3, <2>1, <2>2, <2>3, <2>4 DEF HasRun
<1>8. ASSUME CaptureFinish(k) PROVE IInv'
  <2>1. PICK fp \in Captures : checker' = [checker EXCEPT ![k] = [@ EXCEPT !.pc = "measured", !.fp = fp]]
    BY <1>8 DEF CaptureFinish
  <2> DEFINE now == [checker[k] EXCEPT !.pc = "measured", !.fp = fp]
  <2>2. checker[k] # NULL /\ checker[k] \in Checker /\ checker[k].pc = "ended" /\ Owns(checker[k])
    BY <1>8, Checked DEF CaptureFinish, At
  <2>3. now \in Checker /\ now.pc = "measured" /\ now.run = checker[k].run /\ now.outcome = checker[k].outcome
    BY <1>1, <2>1, <2>2 DEF Checker
  <2>4. Owns(now)
    BY <2>2, <2>3 DEF Owns, HasRun
  <2>5. checker' = [checker EXCEPT ![k] = now] /\ UNCHANGED <<task, files, workspace, ledger, gates, consents, lost, call, written>>
    BY <1>2, <1>8, <2>1 DEF CaptureFinish
  <2> HIDE DEF now
  <2> QED
    BY <1>3, <2>2, <2>3, <2>4, <2>5 DEF HasRun
<1>9. ASSUME EpochFinish(k) PROVE IInv'
  <2> DEFINE now == [checker[k] EXCEPT !.pc = "recording", !.gen = generation, 
                     !.fp = IF active = 0 THEN checker[k].fp ELSE NULL]
  <2>1. checker[k] # NULL /\ checker[k] \in Checker /\ checker[k].pc = "measured" /\ Owns(checker[k])
    BY <1>9, Checked DEF EpochFinish, At
  <2>2. now \in Checker /\ now.pc = "recording" /\ now.run = checker[k].run /\ now.outcome = checker[k].outcome
    BY <1>1, <1>2, <2>1 DEF Checker, Fingerprints
  <2>3. Owns(now)
    BY <2>1, <2>2 DEF Owns, HasRun
  <2>4. checker' = [checker EXCEPT ![k] = now] /\ UNCHANGED <<task, files, workspace, ledger, gates, consents, lost, call, written>>
    BY <1>2, <1>9 DEF EpochFinish
  <2> HIDE DEF now
  <2> QED
    BY <1>3, <2>1, <2>2, <2>3, <2>4 DEF HasRun
<1>10. ASSUME BeginRun(k), task \in Closed PROVE IInv'
  BY <1>3, <1>10 DEF BeginRun, workspace, ledger
<1>11. ASSUME BeginRun(k), task \notin Closed PROVE IInv'
  <2> DEFINE n == Len(runs) + 1
             run == [startFp |-> checker[k].fp, startGen |-> checker[k].gen, finishFp |-> NULL, finishGen |-> 0,
                     status |-> "running", step |-> "running"]
             now == [checker[k] EXCEPT !.pc = "running", !.run = n]
  <2>1. checker[k] # NULL /\ checker[k] \in Checker
    BY <1>11, Checked DEF BeginRun, At
  <2>2. run \in Run /\ run.status = "running"
    BY <1>1, <2>1 DEF Checker, Run, Fingerprints
  <2>3. /\ runs' = Append(runs, run) /\ task' = "running"
        /\ UNCHANGED <<files, generation, active, open, finished, gates, consents, lost, call, written>>
    BY <1>11 DEF BeginRun, workspace
  <2> HIDE DEF run
  <2>4. /\ runs' \in Seq(Run) /\ Len(runs') = n /\ n \in Nat /\ runs'[n] = run
        /\ \A r \in 1..Len(runs) : runs'[r] = runs[r]
    BY <1>2, <2>2, <2>3
  <2>5. checker' = [checker EXCEPT ![k] = now]
    BY <1>2, <1>11, <2>4 DEF BeginRun
  <2>6. now \in Checker /\ now.pc = "running" /\ now.run = n
    BY <2>1, <2>4 DEF Checker
  <2> HIDE DEF now
  <2>7. checker' \in [Checkers -> Checker \cup {NULL}] /\ checker'[k] = now
        /\ \A l \in Checkers : l # k => checker'[l] = checker[l]
    BY <1>2, <2>5, <2>6
  <2>8. TypeOK'
    BY <1>2, <2>3, <2>4, <2>7 DEF IInv, TypeOK, TaskStatus
  <2>9. Onward
    BY <1>2, <2>3, <2>4, Typed DEF Onward, Watermark
  <2>10. Counted'
    <3>1. {r \in 1..Len(runs') : runs'[r].status # "running"} = {r \in 1..Len(runs) : runs[r].status # "running"}
      BY <1>2, <2>2, <2>4
    <3> QED
      BY <2>3, <3>1 DEF IInv, Counted
  <2>11. run.step = "running"
    BY DEF run
  <2>12. ASSUME NEW l \in Checkers PROVE CheckerInv(l)'
    BY SMTT(30), <1>2, <2>2, <2>4, <2>6, <2>7, <2>11 DEF IInv, CheckerInv, Owns, HasRun
  <2>13. OwnRuns'
    <3>1. \A l \in Checkers : checker[l] # NULL /\ checker[l].pc \in HasRun => checker[l].run \in 1..Len(runs)
      BY DEF IInv, CheckerInv, Owns
    <3> QED
      BY <1>2, <2>6, <2>7, <3>1 DEF IInv, OwnRuns
  <2>14. (\A c \in Callers : CallInv(c)') /\ \A g \in 1..Len(gates) : GateInv(g)'
    BY <2>3, <2>8, <2>9, OtherStays, GatesStay
  <2>15. written' <= files' /\ Len(gates') = Len(gates)
    BY <2>3 DEF IInv
  <2> QED
    BY <2>8, <2>10, <2>12, <2>13, <2>14, <2>15 DEF IInv
<1>12. ASSUME checker[k] # NULL, checker[k].pc \in HasRun, Owns(checker[k]),
              NEW row \in Run, runs' = [runs EXCEPT ![checker[k].run] = row],
              NEW now \in Checker \cup {NULL}, checker' = [checker EXCEPT ![k] = now],
              now # NULL => now.pc = "recorded" /\ now.run = checker[k].run /\ now.outcome # "running"
                            /\ row.step = "running",
              \/ finished' = finished /\ checker[k].pc = "recorded" /\ (row.status = "running" <=> runs[checker[k].run].status = "running")
              \/ finished' = finished + 1 /\ checker[k].pc = "recording" /\ row.status # "running",
              task' \in TaskStatus,
              UNCHANGED <<files, workspace, gates, consents, lost, call, written>>
       PROVE  IInv'
  <2> DEFINE r0 == checker[k].run
             Over == {r \in 1..Len(runs) : runs[r].status # "running"}
  <2>1. r0 \in 1..Len(runs) /\ runs[r0].step = "running" /\ (checker[k].pc = "recording" => runs[r0].status = "running")
    BY <1>12 DEF Owns, HasRun
  <2>2. /\ runs' \in Seq(Run) /\ Len(runs') = Len(runs) /\ runs'[r0] = row
        /\ \A r \in 1..Len(runs) : r # r0 => runs'[r] = runs[r]
    BY <1>2, <1>12, <2>1
  <2>3. checker' \in [Checkers -> Checker \cup {NULL}] /\ checker'[k] = now
        /\ \A l \in Checkers : l # k => checker'[l] = checker[l]
    BY <1>2, <1>12
  <2>4. UNCHANGED <<files, generation, active, open, gates, consents, lost, call, written>>
    BY <1>12 DEF workspace
  <2>5. IsFiniteSet(1..Len(runs)) /\ Cardinality(1..Len(runs)) = Len(runs) /\ IsFiniteSet(open)
    <3>1. Len(runs) \in Int /\ 1 \in Int /\ Len(runs) >= 0
      BY <1>2
    <3>2. IsFiniteSet(1..Len(runs)) /\ Cardinality(1..Len(runs)) = IF 1 > Len(runs) THEN 0 ELSE Len(runs) - 1 + 1
      BY <3>1, FS_Interval
    <3> QED
      BY <3>1, <3>2, Typed
  <2>6. Counted'
    <3>1. CASE finished' = finished /\ (row.status = "running" <=> runs[r0].status = "running")
      <4>1. {r \in 1..Len(runs') : runs'[r].status # "running"} = Over
        BY <2>1, <2>2, <3>1
      <4> QED
        BY <2>4, <2>5, <3>1, <4>1 DEF IInv, Counted
    <3>2. CASE finished' = finished + 1 /\ checker[k].pc = "recording" /\ row.status # "running"
      <4>1. {r \in 1..Len(runs') : runs'[r].status # "running"} = Over \cup {r0}
        BY <2>1, <2>2, <3>2
      <4>2. r0 \notin Over /\ IsFiniteSet(Over)
        BY <2>1, <2>5, <3>2, FS_Subset
      <4>3. Cardinality(Over \cup {r0}) = Cardinality(Over) + 1
        BY <4>2, FS_AddElement
      <4> QED
        BY <2>4, <2>5, <3>2, <4>1, <4>3 DEF IInv, Counted
    <3> QED
      BY <1>12, <3>1, <3>2
  <2>7. finished' \in 0..Len(runs')
    <3>1. finished' = Cardinality({r \in 1..Len(runs) : runs'[r].status # "running"})
      BY <2>2, <2>6 DEF Counted
    <3>2. {r \in 1..Len(runs) : runs'[r].status # "running"} \subseteq 1..Len(runs)
      OBVIOUS
    <3>3. Cardinality({r \in 1..Len(runs) : runs'[r].status # "running"}) <= Cardinality(1..Len(runs))
      BY <2>5, <3>2, FS_Subset
    <3>4. finished' \in Nat
      BY <1>2, <1>12
    <3> QED
      BY <1>2, <2>2, <2>5, <3>1, <3>3, <3>4
  <2>8. TypeOK'
    BY <1>12, <2>2, <2>3, <2>4, <2>7 DEF IInv, TypeOK
  <2>9. Onward
    <3>1. files \in Nat /\ generation \in Nat /\ Len(gates) \in Nat
      BY Typed
    <3>2. Watermark <= Watermark' /\ (Watermark' = Watermark => Len(runs') = Len(runs)) /\ Len(runs) <= Len(runs')
      BY <1>2, <1>12, <2>2 DEF Watermark
    <3>3. \A r \in 1..Len(runs) : runs[r].step = "ended" => runs'[r] = runs[r]
      BY <2>1, <2>2
    <3> QED
      BY <2>4, <3>1, <3>2, <3>3 DEF Onward
  <2>10. ASSUME NEW l \in Checkers PROVE CheckerInv(l)'
    <3>1. CASE l = k
      BY <1>12, <2>1, <2>2, <2>3, <3>1 DEF CheckerInv, Owns, HasRun
    <3>2. CASE l # k
      <4>1. checker[l] # NULL /\ checker[l].pc \in HasRun => checker[l].run # r0
        BY <1>12, <3>2 DEF IInv, OwnRuns
      <4>2. CheckerInv(l) /\ checker'[l] = checker[l]
        BY <2>3, <3>2 DEF IInv
      <4> QED
        BY <2>2, <4>1, <4>2 DEF CheckerInv, Owns, HasRun
    <3> QED
      BY <3>1, <3>2
  <2>11. OwnRuns'
    BY <1>12, <2>3 DEF IInv, OwnRuns
  <2>12. (\A c \in Callers : CallInv(c)') /\ \A g \in 1..Len(gates) : GateInv(g)'
    BY <2>4, <2>8, <2>9, OtherStays, GatesStay
  <2>13. written' <= files' /\ Len(gates') = Len(gates)
    BY <2>4 DEF IInv
  <2> QED
    BY <2>6, <2>8, <2>10, <2>11, <2>12, <2>13 DEF IInv
<1>13. ASSUME FinishRun(k) PROVE IInv'
  <2> DEFINE was == checker[k]
             row == [runs[was.run] EXCEPT !.status = was.outcome, !.finishFp = was.fp, !.finishGen = was.gen]
             now == [was EXCEPT !.pc = "recorded"]
  <2>1. was # NULL /\ was \in Checker /\ Owns(was) /\ was.pc = "recording"
    BY <1>13, Checked DEF FinishRun, At
  <2>2. was.run \in 1..Len(runs) /\ runs[was.run] \in Run /\ runs[was.run].step = "running" /\ was.outcome # "running"
    BY <1>2, <2>1 DEF Owns, HasRun
  <2>3. row \in Run /\ row.step = "running" /\ row.status # "running"
    BY <2>1, <2>2 DEF Run, Checker
  <2>4. now \in Checker /\ now.pc = "recorded" /\ now.run = was.run /\ now.outcome = was.outcome
    BY <2>1 DEF Checker
  <2>5. /\ runs' = [runs EXCEPT ![was.run] = row] /\ checker' = [checker EXCEPT ![k] = now] /\ finished' = finished + 1
        /\ UNCHANGED <<task, files, workspace, gates, consents, lost, call, written>>
    BY <1>2, <1>13, <2>2 DEF FinishRun
  <2> HIDE DEF row, now
  <2> QED
    BY <1>2, <1>12, <2>1, <2>2, <2>3, <2>4, <2>5 DEF HasRun
<1>14. ASSUME StepEnds(k) PROVE IInv'
  <2> DEFINE was == checker[k]
             row == [runs[was.run] EXCEPT !.step = "ended"]
  <2>1. was # NULL /\ was \in Checker /\ Owns(was) /\ was.pc = "recorded"
    BY <1>14, Checked DEF StepEnds, At
  <2>2. was.run \in 1..Len(runs) /\ runs[was.run] \in Run /\ was.outcome \in {"passed", "failed", "cancelled"}
    BY <1>2, <2>1 DEF Owns, HasRun, Checker
  <2>3. row \in Run /\ row.status = runs[was.run].status
    BY <2>2 DEF Run
  <2>4. StatusAfter(k) \in TaskStatus
    BY <2>2 DEF StatusAfter, TaskStatus
  <2>5. /\ runs' = [runs EXCEPT ![was.run] = row] /\ checker' = [checker EXCEPT ![k] = NULL] /\ finished' = finished
        /\ UNCHANGED <<files, workspace, gates, consents, lost, call, written>>
        /\ task' \in TaskStatus
    BY <1>2, <1>14, <2>2, <2>4 DEF StepEnds
  <2> HIDE DEF row
  <2> QED
    BY <1>2, <1>12, <2>1, <2>3, <2>5 DEF HasRun
<1> QED
  BY <1>4, <1>5, <1>6, <1>7, <1>8, <1>9, <1>10, <1>11, <1>13, <1>14 DEF Check

-----------------------------------------------------------------------------
(* The workspace, the other services and a restart *)

\* A step that touches neither runs nor gates.
LEMMA WorldKeeps ==
  ASSUME IInv, Onward, TypeOK', IsFiniteSet(open'), written' <= files',
         UNCHANGED <<runs, finished, gates>>,
         checker' = checker \/ (\A k \in Checkers : checker'[k] = NULL),
         call' = call \/ (\A c \in Callers : call'[c] = NULL)
  PROVE  IInv'
<1>1. Counted'
  BY DEF IInv, Counted
<1>2. OwnRuns' /\ \A k \in Checkers : CheckerInv(k)'
  <2>1. CASE checker' = checker
    BY <2>1 DEF IInv, CheckerInv, Owns, OwnRuns
  <2>2. CASE \A k \in Checkers : checker'[k] = NULL
    BY <2>2 DEF CheckerInv, OwnRuns
  <2> QED
    BY <2>1, <2>2
<1>3. \A c \in Callers : CallInv(c)'
  BY OtherStays
<1>4. \A g \in 1..Len(gates') : GateInv(g)'
  BY GatesStay
<1> QED
  BY <1>1, <1>2, <1>3, <1>4 DEF IInv

LEMMA WorkspaceKeeps ==
  ASSUME IInv, Workspace \/ Restart \/ \E status \in Moves : MoveTask(status)
  PROVE  IInv'
<1>1. /\ files \in Nat /\ generation \in Nat /\ written \in Nat /\ written <= files /\ Watermark \in Nat
      /\ open \subseteq Writers /\ active = Cardinality(open) /\ IsFiniteSet(open) /\ active \in Nat
      /\ (active = 0 <=> open = {}) /\ Len(runs) \in Nat /\ Len(gates) \in Nat
  BY Typed DEF IInv
<1>2. ASSUME UNCHANGED <<runs, finished, gates>>, files <= files', generation <= generation',
             generation' = generation /\ open = {} => open' = {} /\ written' = written
      PROVE  Onward
  BY <1>1, <1>2 DEF Onward, Watermark
<1>3. CASE Edit
  <2>1. files' \in Nat /\ files' = files + 1 /\ UNCHANGED <<task, generation, active, open, runs, finished, gates, consents, lost, checker, call, written>>
    BY <1>1, <1>3 DEF Edit, workspace, ledger
  <2>2. TypeOK'
    BY <2>1 DEF IInv, TypeOK
  <2> QED
    BY <1>1, <1>2, <2>1, <2>2, WorldKeeps
<1>4. ASSUME NEW w \in Writers, BeginMutation(w) PROVE IInv'
  <2>1. /\ w \notin open /\ open' = open \cup {w} /\ generation' = generation + 1 /\ active' = active + 1
        /\ UNCHANGED <<task, files, runs, finished, gates, consents, lost, checker, call, written>>
    BY <1>4 DEF BeginMutation, ledger
  <2>2. IsFiniteSet(open') /\ active' = Cardinality(open')
    BY <1>1, <2>1, FS_AddElement
  <2>3. TypeOK'
    BY <1>1, <2>1, <2>2 DEF IInv, TypeOK
  <2> QED
    BY <1>1, <1>2, <2>1, <2>2, <2>3, WorldKeeps
<1>5. ASSUME NEW w \in Writers, Write(w) PROVE IInv'
  <2>1. /\ w \in open /\ files' = files + 1 /\ written' = files' /\ files' \in Nat
        /\ UNCHANGED <<task, generation, active, open, runs, finished, gates, consents, lost, checker, call>>
    BY <1>1, <1>5 DEF Write, workspace, ledger
  <2>2. TypeOK'
    BY <2>1 DEF IInv, TypeOK
  <2> QED
    BY <1>1, <1>2, <2>1, <2>2, WorldKeeps
<1>6. ASSUME NEW w \in Writers, EndMutation(w) PROVE IInv'
  <2>1. /\ w \in open /\ open' = open \ {w} /\ generation' = generation + 1 /\ active' = active - 1
        /\ UNCHANGED <<task, files, runs, finished, gates, consents, lost, checker, call, written>>
    BY <1>6 DEF EndMutation, ledger
  <2>2. IsFiniteSet(open') /\ active' = Cardinality(open')
    BY <1>1, <2>1, FS_RemoveElement
  <2>3. TypeOK'
    BY <1>1, <2>1, <2>2 DEF IInv, TypeOK
  <2> QED
    BY <1>1, <1>2, <2>1, <2>2, <2>3, WorldKeeps
<1>7. ASSUME NEW status \in Moves, MoveTask(status) PROVE IInv'
  <2>1. /\ task' = status /\ task' \in TaskStatus
        /\ UNCHANGED <<files, generation, active, open, runs, finished, gates, consents, lost, checker, call, written>>
    BY <1>7, EvidenceAssumption DEF MoveTask, workspace, ledger
  <2>2. TypeOK'
    BY <2>1 DEF IInv, TypeOK
  <2> QED
    BY <1>1, <1>2, <2>1, <2>2, WorldKeeps
<1>8. CASE Restart
  <2>1. /\ open' = {} /\ active' = 0 /\ generation' \in {generation, generation + 1} /\ lost' \in BOOLEAN
        /\ checker' = [k \in Checkers |-> NULL] /\ call' = [c \in Callers |-> NULL]
        /\ UNCHANGED <<task, files, runs, finished, gates, consents, written>>
    BY <1>8 DEF Restart, ledger
  <2>2. IsFiniteSet(open') /\ active' = Cardinality(open')
    BY <2>1, FS_EmptySet
  <2>3. TypeOK'
    BY <1>1, <2>1, <2>2 DEF IInv, TypeOK
  <2> QED
    BY <1>1, <1>2, <2>1, <2>2, <2>3, WorldKeeps
<1> QED
  BY <1>3, <1>4, <1>5, <1>6, <1>7, <1>8 DEF Workspace

-----------------------------------------------------------------------------
(* The theorems *)

LEMMA InitKeeps == Init => IInv
<1> SUFFICES ASSUME Init PROVE IInv
  OBVIOUS
<1>1. IsFiniteSet(open) /\ active = Cardinality(open)
  BY FS_EmptySet DEF Init
<1>2. runs = <<>> /\ Len(runs) = 0 /\ gates = <<>> /\ Len(gates) = 0 /\ 1..Len(runs) = {} /\ 1..Len(gates) = {}
  BY DEF Init
<1>3. {r \in 1..Len(runs) : runs[r].status # "running"} = {}
  BY <1>2
<1>4. TypeOK
  <2>1. runs \in Seq(Run) /\ gates \in Seq(Gate) /\ finished \in 0..Len(runs)
    BY <1>2 DEF Init
  <2>2. open \subseteq Writers /\ consents \subseteq Nat /\ task \in TaskStatus /\ lost \in BOOLEAN
    BY DEF Init, TaskStatus
  <2>3. files \in Nat /\ generation \in Nat /\ written \in Nat
    BY DEF Init
  <2>4. checker \in [Checkers -> Checker \cup {NULL}] /\ call \in [Callers -> Call \cup {NULL}]
    BY DEF Init
  <2> QED
    BY <1>1, <2>1, <2>2, <2>3, <2>4 DEF TypeOK
<1>5. Counted
  BY <1>1, <1>3, FS_EmptySet DEF Init, Counted
<1>6. (\A k \in Checkers : CheckerInv(k)) /\ OwnRuns /\ (\A c \in Callers : CallInv(c)) /\ written <= files
  BY DEF Init, CheckerInv, OwnRuns, CallInv
<1> QED
  BY <1>2, <1>4, <1>5, <1>6 DEF IInv

LEMMA StepKeeps == IInv /\ [Next]_vars => IInv'
<1> SUFFICES ASSUME IInv, [Next]_vars PROVE IInv'
  OBVIOUS
<1>1. CASE UNCHANGED vars
  <2>1. UNCHANGED <<task, files, generation, active, open, runs, finished, gates, consents, lost, checker, call, written>>
    BY <1>1 DEF vars, workspace, ledger
  <2>2. TypeOK' /\ Onward
    BY <2>1, Typed DEF IInv, TypeOK, Onward, Watermark
  <2> QED
    BY <2>1, <2>2, WorldKeeps DEF IInv, Counted
<1>2. CASE Next
  BY <1>2, WorkspaceKeeps, CheckKeeps, JudgeKeeps, FinishKeeps DEF Next
<1> QED
  BY <1>1, <1>2

THEOREM Invariant == Spec => []IInv
BY InitKeeps, StepKeeps, PTL DEF Spec

\* A task is completed by completeTaskRun alone, on what the call asserted.
LEMMA Completion ==
  ASSUME IInv, [Next]_vars, Completes
  PROVE  \E c \in Callers :
           /\ CompleteTaskRun(c)
           /\ Latest = gates[call[c].gate] /\ Len(gates) \in 1..Len(gates)
           /\ open = {}
           /\ written <= Latest.fp /\ call[c].since <= Latest.fp
           /\ Watermark = Latest.wm
<1>1. task # "done" /\ task' = "done"
  BY DEF Completes
<1>2. \E c \in Callers : CompleteTaskRun(c)
  <2>1. ASSUME NEW k \in Checkers, Check(k) PROVE FALSE
    <3>1. CASE StepEnds(k)
      <4>1. checker[k].outcome \in {"passed", "failed", "cancelled"}
        BY <3>1, Checked DEF StepEnds, At, Owns, HasRun, Checker
      <4> QED
        BY <1>1, <3>1, <4>1 DEF StepEnds, StatusAfter
    <3> QED
      BY <1>1, <2>1, <3>1 DEF Check, Prepare, CaptureStart, EpochAfter, BeginRun, ProcessEnds, CaptureFinish,
         EpochFinish, FinishRun
  <2>2. ~Workspace /\ ~Restart
    BY <1>1 DEF Workspace, Edit, BeginMutation, Write, EndMutation, Restart
  <2>3. ASSUME NEW status \in Moves, MoveTask(status) PROVE FALSE
    BY <1>1, <2>3, EvidenceAssumption DEF MoveTask
  <2>4. ASSUME NEW c \in Callers, Judge(c) PROVE FALSE
    BY <1>1, <2>4 DEF Judge, Evaluate, ReadWatermark, ReadRuns, Capture, ReadEpoch, Recapture, ReadEpochAgain,
       ReadWatermarkAgain, CreateGate
  <2>5. ASSUME NEW c \in Callers, Finish(c) PROVE CompleteTaskRun(c)
    BY <1>1, <2>5 DEF Finish, Review, AssertState, AssertCapture, AssertAgain, Examine, Apply, Consent, Consented,
       AskDone, MarkDone, Stamp
  <2>6. ~UNCHANGED vars
    BY <1>1 DEF vars
  <2> QED
    BY <2>1, <2>2, <2>3, <2>4, <2>5, <2>6 DEF Next
<1>3. PICK c \in Callers : CompleteTaskRun(c)
  BY <1>2
<1>4. call[c] # NULL /\ call[c].pc = "completing" /\ IsLatest(call[c].gate) /\ Current(gates[call[c].gate])
  BY <1>1, <1>3 DEF CompleteTaskRun, Calling, Completable
<1>5. AssertsInv(call[c]) /\ call[c] \in Call
  BY <1>4, Called
<1> QED
  BY <1>3, <1>4, <1>5, Typed DEF AssertsInv, WithGate, IsLatest, Current, Latest

\* A completed task's verdict speaks of files nobody has announced a write to
\* since, however many writers, checks and calls interleave with the captures.
THEOREM CompletionIsUntouched == Spec => CompletedUntouched
<1>1. IInv /\ [Next]_vars => [Completes => open = {} /\ written <= Latest.fp]_vars
  BY Completion
<1> QED
  BY <1>1, Invariant, PTL DEF Spec, CompletedUntouched

\* An edit nobody announced is noticed when it came before the completion was
\* asked for: the assertions compare the inputs after they were read.
THEOREM EarlierEditsAreNoticed == Spec => EditsNoticed
<1>1. IInv /\ [Next]_vars =>
        [Completes => \A c \in Callers : call'[c] # call[c] => call[c].since <= Latest.fp]_vars
  <2> SUFFICES ASSUME IInv, [Next]_vars, Completes, NEW d \in Callers, call'[d] # call[d]
               PROVE  call[d].since <= Latest.fp
    OBVIOUS
  <2>1. PICK c \in Callers : CompleteTaskRun(c) /\ call[c].since <= Latest.fp
    BY Completion
  <2>2. c = d
    BY <2>1, Typed DEF CompleteTaskRun, End, Become
  <2> QED
    BY <2>1, <2>2
<1> QED
  BY <1>1, Invariant, PTL DEF Spec, EditsNoticed

\* A pass a task is completed on is that of the last check begun, on the
\* verdict's own inputs from its beginning to its end.
THEOREM CompletedPassesAreChecked == Spec => PassesRestOnChecks
<1>1. IInv /\ [Next]_vars =>
        [Completes /\ Latest.status = "passed" =>
           /\ Latest.run = Len(runs)
           /\ runs[Latest.run].status = "passed"
           /\ runs[Latest.run].startFp = Latest.fp /\ runs[Latest.run].finishFp = Latest.fp]_vars
  <2> SUFFICES ASSUME IInv, [Next]_vars, Completes, Latest.status = "passed"
               PROVE  /\ Latest.run = Len(runs)
                      /\ runs[Latest.run].status = "passed"
                      /\ runs[Latest.run].startFp = Latest.fp /\ runs[Latest.run].finishFp = Latest.fp
    OBVIOUS
  <2>1. Len(gates) \in 1..Len(gates) /\ Watermark = Latest.wm
    BY Completion
  <2>2. GateInv(Len(gates))
    BY <2>1 DEF IInv
  <2> QED
    BY <2>1, <2>2 DEF GateInv, PassedOn, Latest
<1> QED
  BY <1>1, Invariant, PTL DEF Spec, PassesRestOnChecks

\* TypeOK, the run's type invariant, whatever the bounds.
THEOREM TypeCorrect == Spec => []TypeOK
<1>1. IInv => TypeOK
  BY DEF IInv
<1> QED
  BY <1>1, Invariant, PTL
=============================================================================
