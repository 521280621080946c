------------------------ MODULE ApprovalLedgerProofs ------------------------
(***************************************************************************)
(* What holds of the approval ledger for any number of approvals, actions, *)
(* clients and revisions, what its steps may never do (nothing takes       *)
(* effect while the task is done, a replaced approval does not change),    *)
(* and that the ledger implements the consent protocol.                    *)
(***************************************************************************)
EXTENDS ApprovalLedger, TLAPS

-----------------------------------------------------------------------------
(* Types of the rows the SQL statements leave behind *)

\* A fresh row is a row.
LEMMA NewRowType ==
  ASSUME NEW action \in Actions \cup {NULL}, NEW manual \in BOOLEAN
  PROVE  NewRow(action, manual) \in Approval
BY DEF NewRow, Approval, Decision, Granted, Outcome

\* A decision keeps the type of the row.
LEMMA DecidedType ==
  ASSUME NEW row \in Approval, NEW decision \in Decision
  PROVE  Decided(row, decision) \in Approval
BY DEF Decided, Approval, Decision, Granted

\* A revision keeps the type of the row.
LEMMA RevisedType ==
  ASSUME NEW row \in Approval, NEW action \in Actions \cup {NULL}
  PROVE  Revised(row, action) \in Approval
<1>1. \A manual \in BOOLEAN, n \in Nat :
        [row EXCEPT !.proposedAction = action, !.actionRevision = n,
                    !.requiresManual = manual, !.status = "pending",
                    !.approvedRevision = 0, !.approvedAction = NULL] \in Approval
  BY DEF Approval
<1>2. (row.requiresManual \/ row.status \in Granted) \in BOOLEAN
  OBVIOUS
<1>3. row.actionRevision + 1 \in Nat
  BY DEF Approval
<1>4. QED
  BY <1>1, <1>2, <1>3, Zenon DEF Revised

\* A claim keeps the type of the row.
LEMMA ClaimedType ==
  ASSUME NEW row \in Approval, NEW token \in Tokens
  PROVE  Claimed(row, token) \in Approval
BY DEF Claimed, Approval, Outcome

\* An outcome keeps the type of the row.
LEMMA FinishedType ==
  ASSUME NEW row \in Approval, NEW outcome \in Outcome
  PROVE  Finished(row, outcome) \in Approval
BY ZenonT(40) DEF Finished, Approval, Decision, Granted, Outcome

-----------------------------------------------------------------------------
(* Types of the calls *)

\* A call that remembers nothing is a call.
LEMMA NewCallType ==
  ASSUME NEW pc \in PC \ {"checked", "deciding"}, NEW a \in Approvals
  PROVE  NewCall(pc, a) \in Call
BY DEF NewCall, Call

\* An approval under way is a call.
LEMMA ApprovingType ==
  ASSUME TypeOK, NEW a \in Approvals, NEW decision \in Decision, NEW auto \in BOOLEAN
  PROVE  Approving(a, decision, auto) \in Call
<1>1. rows[a].actionRevision \in Nat /\ rows[a].proposedAction \in Actions \cup {NULL}
  BY DEF TypeOK, Approval
<1>2. decision # NULL
  BY NullIsNoDecision
<1>3. QED
  BY <1>1, <1>2 DEF Approving, NewCall, Call, PC

\* What the loop of run_action_class continues with is a call, or none.
LEMMA ContinueType ==
  ASSUME NEW now \in Call, now.decision # NULL, NEW next \in Continue(now)
  PROVE  next \in Call \cup {NULL}
<1>1. CASE now.rest = {}
  BY <1>1 DEF Continue
<1>2. CASE now.rest # {}
  <2>1. PICK x \in now.rest :
          next = [now EXCEPT !.pc = "checked", !.id = x.id, !.revision = x.revision,
                             !.action = x.action, !.status = "pending",
                             !.rest = now.rest \ {x}]
    BY <1>2 DEF Continue
  <2>2. /\ x.id \in Approvals /\ x.revision \in Nat /\ x.action \in Actions \cup {NULL}
        /\ now.rest \ {x} \subseteq now.rest
    BY DEF Call
  <2>3. QED
    BY <2>1, <2>2 DEF Call, PC
<1>3. QED
  BY <1>1, <1>2

-----------------------------------------------------------------------------
(* Type correctness *)

\* Initially every variable has its type.
LEMMA InitType == Init => TypeOK
<1> SUFFICES ASSUME Init PROVE TypeOK
  OBVIOUS
<1>1. NewRow(NULL, FALSE) \in Approval
  BY NewRowType
<1>2. QED
  BY <1>1 DEF Init, TypeOK, TaskStatus

\* The calls that arrive keep the types.
LEMMA RequestType ==
  ASSUME TypeOK, NEW c \in Clients, Request(c)
  PROVE  TypeOK'
<1> USE DEF ghosts
<1>1. PICK a \in Approvals :
        \/ \E auto \in BOOLEAN : Approve(c, a, auto) \/ ApproveClass(c, a, auto)
        \/ RejectApproval(c, a)
        \/ \E action \in Actions : ReviseRead(c, a, action)
        \/ ExecuteApproved(c, a)
  BY DEF Request
<1>2. rows[a] \in Approval
  BY DEF TypeOK
<1>3. ASSUME NEW auto \in BOOLEAN, Approve(c, a, auto) PROVE TypeOK'
  <2>1. Approving(a, "approved", auto) \in Call
    BY ApprovingType DEF Decision, Granted
  <2>2. QED
    BY <1>3, <2>1 DEF Approve, TypeOK
<1>4. ASSUME NEW auto \in BOOLEAN, ApproveClass(c, a, auto) PROVE TypeOK'
  <2> DEFINE class == {a} \cup {b \in ids : rows[b].status = "pending" /\ ~ManualOnly(b)}
             waiting(b) == [id |-> b, revision |-> rows[b].actionRevision,
                            action |-> rows[b].proposedAction]
  <2>1. PICK first \in class :
          call' = [call EXCEPT ![c] =
            [Approving(first, "always_approved_for_run", auto) EXCEPT !.rest =
               {waiting(b) : b \in class \ {first}}]]
    BY <1>4 DEF ApproveClass
  <2>2. class \subseteq Approvals
    BY DEF TypeOK
  <2>3. {waiting(b) : b \in class \ {first}} \subseteq
          [id : Approvals, revision : Nat, action : Actions \cup {NULL}]
    BY <2>2 DEF TypeOK, Approval
  <2>4. Approving(first, "always_approved_for_run", auto) \in Call
    BY <2>2, ApprovingType DEF Decision, Granted
  <2> HIDE DEF class, waiting
  <2>5. [Approving(first, "always_approved_for_run", auto) EXCEPT !.rest =
           {waiting(b) : b \in class \ {first}}] \in Call
    BY <2>3, <2>4 DEF Call
  <2>6. QED
    BY <1>4, <2>1, <2>5 DEF ApproveClass, TypeOK
<1>5. ASSUME RejectApproval(c, a) PROVE TypeOK'
  <2>2. rows[a].status # "executed"
    BY <1>5 DEF RejectApproval, Decidable
  <2>3. rows[a].status \in Decision \cup {"pending"} /\ rows[a].actionRevision \in Nat
    BY <1>2 DEF Approval
  <2>4. [NewCall("deciding", a) EXCEPT !.decision = "rejected",
           !.revision = rows[a].actionRevision, !.status = rows[a].status] \in Call
    BY <2>3, NullIsNoDecision DEF NewCall, Call, Decision, PC
  <2>5. QED
    BY <1>5, <2>4 DEF RejectApproval, TypeOK
<1>6. ASSUME NEW action \in Actions, ReviseRead(c, a, action) PROVE TypeOK'
  <2>1. NewCall("revising", a) \in Call
    BY NewCallType DEF PC
  <2>2. [NewCall("revising", a) EXCEPT
           !.revision = rows[a].actionRevision, !.action = action] \in Call
    BY <1>2, <2>1 DEF Call, Approval
  <2>3. QED
    BY <1>6, <2>2 DEF ReviseRead, TypeOK
<1>7. ASSUME ExecuteApproved(c, a) PROVE TypeOK'
  <2>1. NewCall("found", a) \in Call
    BY NewCallType DEF PC
  <2>2. [NewCall("found", a) EXCEPT !.revision = rows[a].actionRevision] \in Call
    BY <1>2, <2>1 DEF Call, Approval
  <2>3. QED
    BY <1>7, <2>2 DEF ExecuteApproved, TypeOK
<1>8. QED
  BY <1>1, <1>3, <1>4, <1>5, <1>6, <1>7

\* The steps of a call under way keep the types.
LEMMA ProceedType ==
  ASSUME TypeOK, NEW c \in Clients, Proceed(c)
  PROVE  TypeOK'
<1> USE DEF ghosts
<1>1. call[c] \in Call /\ call[c] # NULL
  BY DEF Proceed, DecideRead, DecideWrite, ReviseWrite, ClaimExecution, LoadClaimed, Perform,
         RecordRead, RecordWrite, FailExecution, ConfirmFailure, FinishExecution, At, TypeOK
<1> DEFINE a == call[c].id
<1>2. a \in Approvals /\ rows[a] \in Approval
  BY <1>1 DEF TypeOK, Call
<1>3. \A pc \in PC \ {"checked", "deciding"} : NewCall(pc, a) \in Call
  BY <1>2, NewCallType
<1>4. CASE DecideRead(c)
  <2>1. [call[c] EXCEPT !.pc = "deciding", !.status = rows[a].status] \in Call
    BY <1>1, <1>2, <1>4 DEF Call, Approval, PC, DecideRead, At
  <2>2. QED
    BY <1>1, <1>4, <2>1 DEF DecideRead, TypeOK
<1>5. CASE DecideWrite(c)
  <2>1. CASE DecideMatches(rows[a], call[c].revision, call[c].status, call[c].decision, task)
    <3>1. call[c].decision \in Decision
      BY <1>1, <1>5 DEF DecideWrite, At, Call
    <3>2. Decided(rows[a], call[c].decision) \in Approval
      BY <1>2, <3>1, DecidedType
    <3>3. PICK next \in Continue(call[c]) : call' = [call EXCEPT ![c] = next]
      BY <1>5, <2>1 DEF DecideWrite
    <3>4. next \in Call \cup {NULL}
      BY <1>1, <3>1, <3>3, ContinueType, NullIsNoDecision
    <3>5. [action |-> call[c].action, auto |-> call[c].auto] \in Consents
      BY <1>1 DEF Call, Consents
    <3>6. rows' = [rows EXCEPT ![a] = Decided(rows[a], call[c].decision)]
      BY <1>5, <2>1 DEF DecideWrite
    <3>7. consent' \in [Approvals -> Consents \cup {NULL}]
      BY <1>5, <2>1, <3>5 DEF DecideWrite, TypeOK
    <3>8. QED
      BY <1>5, <3>2, <3>3, <3>4, <3>6, <3>7 DEF DecideWrite, TypeOK
  <2>2. CASE ~DecideMatches(rows[a], call[c].revision, call[c].status, call[c].decision, task)
    BY <1>5, <2>2 DEF DecideWrite, TypeOK
  <2>3. QED
    BY <2>1, <2>2
<1>6. CASE ReviseWrite(c)
  <2>1. Revised(rows[a], call[c].action) \in Approval
    BY <1>1, <1>2, RevisedType DEF Call
  <2>2. QED
    BY <1>2, <1>6, <2>1 DEF ReviseWrite, TypeOK
<1>7. CASE ClaimExecution(c)
  <2>1. Claimed(rows[a], c) \in Approval
    BY <1>2, ClaimedType DEF Clients
  <2>2. QED
    BY <1>2, <1>3, <1>7, <2>1 DEF ClaimExecution, TypeOK, PC
<1>8. CASE LoadClaimed(c)
  <2>1. [NewCall("loaded", a) EXCEPT !.action = rows[a].proposedAction] \in Call
    BY <1>2, <1>3 DEF Call, Approval, PC
  <2>2. QED
    BY <1>3, <1>8, <2>1 DEF LoadClaimed, TypeOK, PC
<1>9. CASE Perform(c)
  <2>1. call[c].action \in Actions \cup {NULL} /\ ran[a] + 1 \in Nat
    BY <1>1, <1>2 DEF Call, TypeOK
  <2>2. QED
    BY <1>3, <1>9, <2>1 DEF Perform, TypeOK, PC
<1>10. CASE RecordRead(c)
  <2>1. [call[c] EXCEPT !.pc = "recording", !.status = rows[a].status,
                        !.revision = rows[a].actionRevision] \in Call
    BY <1>1, <1>2 DEF Call, Approval, PC
  <2>2. QED
    BY <1>3, <1>10, <2>1 DEF RecordRead, TypeOK, PC
<1>11. CASE RecordWrite(c)
  <2>1. Decided(rows[a], "executed") \in Approval
    BY <1>2, DecidedType DEF Decision
  <2>2. QED
    BY <1>2, <1>3, <1>11, <2>1 DEF RecordWrite, TypeOK, PC
<1>12. CASE FailExecution(c)
  BY <1>3, <1>12 DEF FailExecution, TypeOK, PC
<1>13. CASE ConfirmFailure(c)
  BY <1>3, <1>13 DEF ConfirmFailure, TypeOK, PC
<1>14. CASE FinishExecution(c)
  <2>1. OutcomeOf(call[c].pc) \in Outcome
    BY <1>14 DEF FinishExecution, At, OutcomeOf, Outcome
  <2>2. Finished(rows[a], OutcomeOf(call[c].pc)) \in Approval
    BY <1>2, <2>1, FinishedType
  <2>3. QED
    BY <1>2, <1>14, <2>2 DEF FinishExecution, TypeOK
<1>15. QED
  BY <1>4, <1>5, <1>6, <1>7, <1>8, <1>9, <1>10, <1>11, <1>12, <1>13, <1>14 DEF Proceed

\* Rows coming and going, the task's moves, a crash and a startup keep the types.
LEMMA EnvironmentType ==
  ASSUME TypeOK,
         \/ \E a \in Approvals : \E action \in Actions \cup {NULL} : CreateApproval(a, action)
         \/ \E a, next \in Approvals : PrepareApprovalRetry(a, next)
         \/ \E status \in Moves : MoveTask(status)
         \/ PauseForShutdown \/ CompleteTaskRun \/ Crash \/ Startup
  PROVE  TypeOK'
<1> USE DEF ghosts
<1>1. ASSUME NEW a \in Approvals, NEW action \in Actions \cup {NULL}, CreateApproval(a, action)
      PROVE  TypeOK'
  <2>1. NewRow(action, FALSE) \in Approval
    BY NewRowType
  <2>2. QED
    BY <1>1, <2>1 DEF CreateApproval, TypeOK
<1>2. ASSUME NEW a \in Approvals, NEW next \in Approvals, PrepareApprovalRetry(a, next)
      PROVE  TypeOK'
  <2>1. NewRow(rows[a].proposedAction, TRUE) \in Approval
    BY NewRowType DEF TypeOK, Approval
  <2>2. a # next
    BY <1>2 DEF PrepareApprovalRetry
  <2>3. [rows[a] EXCEPT !.retryApprovalId = next] \in Approval
    BY DEF TypeOK, Approval
  <2>4. rows' = [rows EXCEPT ![next] = NewRow(rows[a].proposedAction, TRUE),
                             ![a] = [rows[a] EXCEPT !.retryApprovalId = next]]
    BY <1>2, <2>2 DEF PrepareApprovalRetry, TypeOK
  <2>5. rows' \in [Approvals -> Approval]
    BY <2>1, <2>3, <2>4 DEF TypeOK
  <2>6. ids' \subseteq Approvals /\ task' \in TaskStatus
    BY <1>2 DEF PrepareApprovalRetry, TypeOK, TaskStatus
  <2>7. UNCHANGED <<call, up, consent, effect, ran>>
    BY <1>2 DEF PrepareApprovalRetry
  <2>8. QED
    BY <2>5, <2>6, <2>7 DEF TypeOK
<1>3. ASSUME NEW status \in Moves, MoveTask(status) PROVE TypeOK'
  BY <1>3, LedgerAssumption DEF MoveTask, TypeOK
<1>4. CASE PauseForShutdown
  BY <1>4 DEF PauseForShutdown, TypeOK, TaskStatus
<1>5. CASE CompleteTaskRun
  BY <1>5 DEF CompleteTaskRun, TypeOK, TaskStatus
<1>6. CASE Crash
  BY <1>6 DEF Crash, TypeOK
<1>7. CASE Startup
  <2>1. \A a \in Approvals : [rows[a] EXCEPT !.executionState = "uncertain"] \in Approval
    BY DEF TypeOK, Approval, Outcome
  <2>2. QED
    BY <1>7, <2>1 DEF Startup, TypeOK
<1>8. QED
  BY <1>1, <1>2, <1>3, <1>4, <1>5, <1>6, <1>7

\* Every step keeps the types.
LEMMA NextType == TypeOK /\ [Next]_vars => TypeOK'
<1> SUFFICES ASSUME TypeOK, [Next]_vars PROVE TypeOK'
  OBVIOUS
<1>1. CASE UNCHANGED vars
  BY <1>1 DEF vars, TypeOK
<1>2. CASE Next
  BY <1>2, ProceedType, RequestType, EnvironmentType DEF Next
<1>3. QED
  BY <1>1, <1>2

\* The rows of the approvals table and what the calls remember of them keep
\* their types, for any number of approvals, actions, clients and revisions.
THEOREM TypeCorrect == Spec => []TypeOK
BY InitType, NextType, PTL DEF Spec

-----------------------------------------------------------------------------
(* The inductive invariant *)

\* Statements never take a row back to an earlier revision, and what a
\* revision says does not change.
Later(old, new) ==
  /\ old.actionRevision <= new.actionRevision
  /\ new.actionRevision = old.actionRevision =>
       /\ new.proposedAction = old.proposedAction
       /\ new.requiresManual = old.requiresManual

\* Every statement of the ledger leaves a later row.
LEMMA StatementsLater ==
  ASSUME NEW row \in Approval
  PROVE  /\ \A decision : Later(row, Decided(row, decision))
         /\ \A action : Later(row, Revised(row, action))
         /\ \A token : Later(row, Claimed(row, token))
         /\ \A outcome : Later(row, Finished(row, outcome))
<1>1. row.actionRevision \in Nat
  BY DEF Approval
<1>2. \A decision : Later(row, Decided(row, decision))
  BY <1>1 DEF Later, Decided, Approval
<1>3. \A action : Later(row, Revised(row, action))
  <2> TAKE action
  <2>1. Revised(row, action).actionRevision = row.actionRevision + 1
    BY DEF Revised, Approval
  <2>2. QED
    BY <1>1, <2>1 DEF Later
<1>4. \A token : Later(row, Claimed(row, token))
  BY <1>1 DEF Later, Claimed, Approval
<1>5. \A outcome : Later(row, Finished(row, outcome))
  BY <1>1 DEF Later, Finished, Approval
<1>6. QED
  BY <1>2, <1>3, <1>4, <1>5

\* What was shown stays shown while the rows get later.
LEMMA ShownStays ==
  ASSUME TypeOK, TypeOK',
         NEW a \in Approvals, NEW revision \in Nat, NEW action, NEW auto \in BOOLEAN,
         Shown(a, revision, action, auto), Later(rows[a], rows'[a])
  PROVE  Shown(a, revision, action, auto)'
<1>1. rows[a].actionRevision \in Nat /\ rows'[a].actionRevision \in Nat
  BY DEF TypeOK, Approval
<1>2. revision <= rows'[a].actionRevision
  BY <1>1 DEF Shown, Later
<1>3. ASSUME revision = rows'[a].actionRevision
      PROVE  action = rows'[a].proposedAction /\ (auto => ~ManualOnly(a)')
  <2>1. revision = rows[a].actionRevision /\ rows'[a].actionRevision = rows[a].actionRevision
    BY <1>1, <1>3 DEF Shown, Later
  <2>2. QED
    BY <2>1 DEF Shown, Later, ManualOnly
<1>4. QED
  BY <1>2, <1>3 DEF Shown

\* A call keeps its part of the invariant while it does nothing, the rows get
\* later, and the claim it may hold is left to it.
LEMMA CallStays ==
  ASSUME TypeOK, TypeOK', NEW c \in Clients, CallInv(c), call'[c] = call[c],
         ids \subseteq ids', \A a \in ids : Later(rows[a], rows'[a]),
         call[c] # NULL /\ call[c].pc \in Executing =>
           LET a == call[c].id IN
           /\ rows'[a].executionState = "running" /\ rows'[a].executionToken = c
           /\ ran'[a] = ran[a] /\ rows'[a].proposedAction = rows[a].proposedAction
  PROVE  CallInv(c)'
<1> SUFFICES ASSUME call[c] # NULL PROVE CallInv(c)'
  BY DEF CallInv
<1> DEFINE now == call[c]
<1>1. now \in Call /\ now.id \in ids /\ ids \subseteq Approvals
  BY DEF TypeOK, CallInv, CallOK
<1>2. /\ now.revision \in Nat /\ now.auto \in BOOLEAN
      /\ \A x \in now.rest : x.revision \in Nat
  BY <1>1 DEF Call
<1>3. ASSUME now.decision \in Granted
      PROVE  /\ Shown(now.id, now.revision, now.action, now.auto)'
             /\ \A x \in now.rest : x.id \in ids' /\ Shown(x.id, x.revision, x.action, TRUE)'
  <2>1. Shown(now.id, now.revision, now.action, now.auto)
    BY <1>3 DEF CallInv, CallOK
  <2>2. Shown(now.id, now.revision, now.action, now.auto)'
    BY <1>1, <1>2, <2>1, ShownStays
  <2>3. ASSUME NEW x \in now.rest
        PROVE  x.id \in ids' /\ Shown(x.id, x.revision, x.action, TRUE)'
    <3>1. x.id \in ids /\ Shown(x.id, x.revision, x.action, TRUE)
      BY <1>3 DEF CallInv, CallOK
    <3>2. QED
      BY <1>1, <1>2, <3>1, ShownStays
  <2>4. QED
    BY <2>2, <2>3
<1>4. now.pc \in {"claimed", "loaded"} => now.pc \in Executing
  BY DEF Executing
<1>5. QED
  BY <1>1, <1>3, <1>4 DEF CallInv, CallOK

\* An approval nothing happens to keeps its part of the invariant.
LEMMA RowStays ==
  ASSUME NEW a \in Approvals, RowInv(a), ids \subseteq ids', rows'[a] = rows[a],
         consent'[a] = consent[a], effect'[a] = effect[a], ran'[a] = ran[a]
  PROVE  RowInv(a)'
BY DEF RowInv, ManualOnly, NewRow

\* A step in which a call changes the row of one approval, and nothing of
\* other calls, keeps the invariant if it keeps the parts of the two, makes
\* the row later and leaves the claims of others alone.
LEMMA RowStep ==
  ASSUME TypeOK, TypeOK', LedgerInv, up, up', NEW c \in Clients, NEW a \in ids, NEW row, NEW next,
         rows' = [rows EXCEPT ![a] = row], Later(rows[a], row),
         call' = [call EXCEPT ![c] = next],
         ids' = ids, ran' = ran, effect' = effect,
         \A b \in Approvals \ {a} : consent'[b] = consent[b],
         rows[a].executionState = "running" /\ rows[a].executionToken # c =>
           /\ row.executionState = "running" /\ row.executionToken = rows[a].executionToken
           /\ row.proposedAction = rows[a].proposedAction,
         RowInv(a)', next # NULL => CallOK(c, next)'
  PROVE  LedgerInv'
<1>1. a \in Approvals /\ rows'[a] = row
  BY DEF TypeOK
<1>2. \A b \in Approvals \ {a} : rows'[b] = rows[b]
  BY DEF TypeOK
<1>3. \A b \in Approvals : RowInv(b)'
  <2> TAKE b \in Approvals
  <2>1. CASE b = a
    BY <2>1
  <2>2. CASE b # a
    BY <1>2, <2>2, RowStays DEF LedgerInv
  <2>3. QED
    BY <2>1, <2>2
<1>4. \A b \in ids : Later(rows[b], rows'[b])
  <2> TAKE b \in ids
  <2>1. b \in Approvals /\ rows[b].actionRevision \in Nat
    BY DEF TypeOK, Approval
  <2>2. QED
    BY <1>1, <1>2, <2>1 DEF Later
<1>5. \A d \in Clients : CallInv(d)'
  <2> TAKE d \in Clients
  <2>1. CASE d = c
    BY <2>1 DEF TypeOK, CallInv
  <2>2. CASE d # c
    <3>1. call'[d] = call[d]
      BY <2>2 DEF TypeOK
    <3>2. ASSUME call[d] # NULL, call[d].pc \in Executing
          PROVE  LET b == call[d].id IN
                 /\ rows'[b].executionState = "running" /\ rows'[b].executionToken = d
                 /\ ran'[b] = ran[b] /\ rows'[b].proposedAction = rows[b].proposedAction
      <4>1. /\ rows[call[d].id].executionState = "running"
            /\ rows[call[d].id].executionToken = d
            /\ call[d].id \in Approvals
        BY <3>2 DEF LedgerInv, CallInv, CallOK, TypeOK
      <4>2. QED
        BY <1>1, <1>2, <2>2, <4>1
    <3>3. QED
      BY <1>4, <3>1, <3>2, CallStays DEF LedgerInv
  <2>3. QED
    BY <2>1, <2>2
<1>6. QED
  BY <1>3, <1>5 DEF LedgerInv

\* A step that only moves a call on keeps the invariant if it keeps the call's part.
LEMMA CallStep ==
  ASSUME TypeOK, TypeOK', LedgerInv, up, up', NEW c \in Clients, NEW next,
         call' = [call EXCEPT ![c] = next], UNCHANGED <<ids, rows, ghosts>>,
         next # NULL => CallOK(c, next)
  PROVE  LedgerInv'
<1>0. ids' = ids /\ rows' = rows /\ consent' = consent /\ effect' = effect /\ ran' = ran
  BY DEF ghosts
<1>1. \A b \in Approvals : RowInv(b)'
  BY <1>0, RowStays DEF LedgerInv
<1>2. \A b \in ids : Later(rows[b], rows'[b])
  BY <1>0 DEF Later, TypeOK, Approval
<1>3. ASSUME NEW d \in Clients PROVE CallInv(d)'
  <2>1. CASE d = c
    <3>1. next # NULL => CallOK(c, next)'
      BY <1>0 DEF CallOK, Shown, ManualOnly
    <3>2. call'[c] = next
      BY DEF TypeOK
    <3>3. QED
      BY <2>1, <3>1, <3>2 DEF CallInv
  <2>2. CASE d # c
    <3>1. call'[d] = call[d]
      BY <2>2 DEF TypeOK
    <3>2. call[d] # NULL /\ call[d].pc \in Executing =>
            rows[call[d].id].executionState = "running" /\ rows[call[d].id].executionToken = d
      BY DEF LedgerInv, CallInv, CallOK
    <3>3. QED
      BY <1>0, <1>2, <3>1, <3>2, CallStays DEF LedgerInv
  <2>3. QED
    BY <2>1, <2>2
<1>4. QED
  BY <1>1, <1>3 DEF LedgerInv

\* Initially no approval exists and no call is under way.
LEMMA InitInv == Init => LedgerInv
<1> SUFFICES ASSUME Init PROVE LedgerInv
  OBVIOUS
<1>1. ASSUME NEW a \in Approvals PROVE RowInv(a)
  BY <1>1 DEF Init, RowInv, NewRow, Granted
<1>2. QED
  BY <1>1 DEF Init, LedgerInv, CallInv

\* A call that remembers nothing shows nothing.
LEMMA FreshCall ==
  ASSUME NEW pc, NEW a
  PROVE  /\ NewCall(pc, a).id = a /\ NewCall(pc, a).pc = pc
         /\ NewCall(pc, a).decision = NULL /\ NewCall(pc, a).rest = {}
BY DEF NewCall

\* NULL grants nothing.
LEMMA NullGrantsNothing == NULL \notin Granted
BY NullIsNoDecision DEF Decision

\* The calls that arrive keep the invariant.
LEMMA RequestInv ==
  ASSUME TypeOK, TypeOK', LedgerInv, NEW c \in Clients, Request(c)
  PROVE  LedgerInv'
<1>1. PICK a \in Approvals :
        \/ \E auto \in BOOLEAN : Approve(c, a, auto) \/ ApproveClass(c, a, auto)
        \/ RejectApproval(c, a)
        \/ \E action \in Actions : ReviseRead(c, a, action)
        \/ ExecuteApproved(c, a)
  BY DEF Request
<1>2. \A b \in Approvals, auto \in BOOLEAN : (auto => ~ManualOnly(b)) =>
        Shown(b, rows[b].actionRevision, rows[b].proposedAction, auto)
  BY DEF Shown, TypeOK, Approval
<1>3. ASSUME NEW auto \in BOOLEAN, Approve(c, a, auto) PROVE LedgerInv'
  <2>1. PICK next : next = Approving(a, "approved", auto)
    OBVIOUS
  <2>2. /\ up /\ up' /\ UNCHANGED <<ids, rows, ghosts>> /\ a \in ids
        /\ call' = [call EXCEPT ![c] = next]
        /\ auto => ~ManualOnly(a)
    BY <1>3, <2>1 DEF Approve
  <2>3. /\ next.id = a /\ next.pc = "checked" /\ next.auto = auto /\ next.rest = {}
        /\ next.revision = rows[a].actionRevision /\ next.action = rows[a].proposedAction
    BY <2>1 DEF Approving, NewCall
  <2>4. Shown(a, next.revision, next.action, next.auto)
    BY <1>2, <2>2, <2>3
  <2>5. CallOK(c, next)
    BY <2>2, <2>3, <2>4 DEF CallOK, Executing
  <2>6. QED
    BY <2>2, <2>5, CallStep
<1>4. ASSUME NEW auto \in BOOLEAN, ApproveClass(c, a, auto) PROVE LedgerInv'
  <2> DEFINE class == {a} \cup {b \in ids : rows[b].status = "pending" /\ ~ManualOnly(b)}
             waiting(b) == [id |-> b, revision |-> rows[b].actionRevision,
                            action |-> rows[b].proposedAction]
  <2>1. PICK first \in class :
          call' = [call EXCEPT ![c] =
            [Approving(first, "always_approved_for_run", auto) EXCEPT !.rest =
               {waiting(b) : b \in class \ {first}}]]
    BY <1>4 DEF ApproveClass
  <2>2. PICK rest : rest = {waiting(b) : b \in class \ {first}}
    OBVIOUS
  <2>3. PICK next : next = [Approving(first, "always_approved_for_run", auto) EXCEPT !.rest = rest]
    OBVIOUS
  <2>4. class \subseteq Approvals /\ class \subseteq ids /\ \A b \in class : ~ManualOnly(b)
    BY <1>4 DEF ApproveClass, TypeOK
  <2>5. /\ next.id = first /\ next.pc = "checked" /\ next.auto = auto /\ next.rest = rest
        /\ next.revision = rows[first].actionRevision /\ next.action = rows[first].proposedAction
    BY <2>3 DEF Approving, NewCall
  <2>6. /\ up /\ up' /\ UNCHANGED <<ids, rows, ghosts>>
        /\ call' = [call EXCEPT ![c] = next]
    BY <1>4, <2>1, <2>2, <2>3 DEF ApproveClass
  <2>7. Shown(first, next.revision, next.action, next.auto)
    BY <1>2, <2>4, <2>5
  <2>8. ASSUME NEW x \in rest
        PROVE  x.id \in ids /\ Shown(x.id, x.revision, x.action, TRUE)
    <3>1. PICK b \in class : x = waiting(b)
      BY <2>2
    <3>2. Shown(b, rows[b].actionRevision, rows[b].proposedAction, TRUE)
      BY <1>2, <2>4
    <3>3. QED
      BY <2>4, <3>1, <3>2
  <2>9. CallOK(c, next)
    BY <2>4, <2>5, <2>7, <2>8 DEF CallOK, Executing
  <2>10. QED
    BY <2>6, <2>9, CallStep
<1>5. CASE RejectApproval(c, a)
  <2>1. PICK next : next = [NewCall("deciding", a) EXCEPT !.decision = "rejected",
                              !.revision = rows[a].actionRevision, !.status = rows[a].status]
    OBVIOUS
  <2>2. /\ up /\ up' /\ UNCHANGED <<ids, rows, ghosts>> /\ a \in ids
        /\ call' = [call EXCEPT ![c] = next]
    BY <1>5, <2>1 DEF RejectApproval
  <2>3. next.id = a /\ next.pc = "deciding" /\ next.decision = "rejected" /\ next.rest = {}
    BY <2>1 DEF NewCall
  <2>4. CallOK(c, next)
    BY <2>2, <2>3 DEF CallOK, Executing, Granted
  <2>5. QED
    BY <2>2, <2>4, CallStep
<1>6. ASSUME NEW action \in Actions, ReviseRead(c, a, action) PROVE LedgerInv'
  <2>1. PICK next : next = [NewCall("revising", a) EXCEPT
                              !.revision = rows[a].actionRevision, !.action = action]
    OBVIOUS
  <2>2. /\ up /\ up' /\ UNCHANGED <<ids, rows, ghosts>> /\ a \in ids
        /\ call' = [call EXCEPT ![c] = next]
    BY <1>6, <2>1 DEF ReviseRead
  <2>3. next.id = a /\ next.pc = "revising" /\ next.decision = NULL /\ next.rest = {}
    BY <2>1 DEF NewCall
  <2>4. CallOK(c, next)
    BY <2>2, <2>3, NullGrantsNothing DEF CallOK, Executing
  <2>5. QED
    BY <2>2, <2>4, CallStep
<1>7. CASE ExecuteApproved(c, a)
  <2>1. PICK next : next = [NewCall("found", a) EXCEPT !.revision = rows[a].actionRevision]
    OBVIOUS
  <2>2. /\ up /\ up' /\ UNCHANGED <<ids, rows, ghosts>> /\ a \in ids
        /\ call' = [call EXCEPT ![c] = next]
    BY <1>7, <2>1 DEF ExecuteApproved
  <2>3. next.id = a /\ next.pc = "found" /\ next.decision = NULL /\ next.rest = {}
    BY <2>1 DEF NewCall
  <2>4. CallOK(c, next)
    BY <2>2, <2>3, NullGrantsNothing DEF CallOK, Executing
  <2>5. QED
    BY <2>2, <2>4, CallStep
<1>8. QED
  BY <1>1, <1>3, <1>4, <1>5, <1>6, <1>7

\* The UPDATE of decide keeps the invariant.
LEMMA DecideWriteInv ==
  ASSUME TypeOK, TypeOK', LedgerInv, NEW c \in Clients, DecideWrite(c)
  PROVE  LedgerInv'
<1>0. PICK now, a : now = call[c] /\ a = now.id
  OBVIOUS
<1>1. /\ up /\ up' /\ now # NULL /\ now.pc = "deciding" /\ now \in Call
      /\ ids' = ids /\ effect' = effect /\ ran' = ran
  BY <1>0 DEF DecideWrite, At, TypeOK
<1>2. CallOK(c, now) /\ a \in ids /\ a \in Approvals /\ RowInv(a) /\ rows[a] \in Approval
  BY <1>0, <1>1 DEF LedgerInv, CallInv, CallOK, TypeOK
<1>3. CASE ~DecideMatches(rows[a], now.revision, now.status, now.decision, task)
  <2>1. call' = [call EXCEPT ![c] = NULL] /\ UNCHANGED <<ids, rows, ghosts>>
    BY <1>0, <1>1, <1>3 DEF DecideWrite, ghosts
  <2>2. QED
    BY <1>1, <2>1, CallStep
<1>4. CASE DecideMatches(rows[a], now.revision, now.status, now.decision, task)
  <2>1. PICK row : row = Decided(rows[a], now.decision)
    OBVIOUS
  <2>2. PICK next \in Continue(now) : call' = [call EXCEPT ![c] = next]
    BY <1>0, <1>4 DEF DecideWrite
  <2>3. /\ rows' = [rows EXCEPT ![a] = row]
        /\ consent' = IF now.decision \in Granted
                      THEN [consent EXCEPT ![a] = [action |-> now.action, auto |-> now.auto]]
                      ELSE consent
    BY <1>0, <1>4, <2>1 DEF DecideWrite
  <2>4. Later(rows[a], row)
    BY <1>2, <2>1, StatementsLater
  <2>5. /\ row.status = now.decision
        /\ row.executionState = rows[a].executionState
        /\ row.executionToken = rows[a].executionToken
        /\ row.proposedAction = rows[a].proposedAction
        /\ row.actionRevision = rows[a].actionRevision
        /\ row.requiresManual = rows[a].requiresManual
        /\ row.retryApprovalId = rows[a].retryApprovalId
        /\ now.decision \in Granted =>
             row.approvedRevision = row.actionRevision /\ row.approvedAction = row.proposedAction
        /\ now.decision \notin Granted =>
             row.approvedRevision = rows[a].approvedRevision /\ row.approvedAction = rows[a].approvedAction
    BY <1>2, <2>1 DEF Decided, Approval
  <2>6. rows'[a] = row /\ (\A b \in Approvals \ {a} : rows'[b] = rows[b] /\ consent'[b] = consent[b])
    BY <1>2, <2>3 DEF TypeOK
  <2>7. RowInv(a)'
    <3>1. CASE now.decision \in Granted
      <4>1. /\ now.action = rows[a].proposedAction
            /\ now.auto => ~(a \in HostActions \/ rows[a].requiresManual)
            /\ rows[a].executionState = "none"
        <5>1. now.revision = rows[a].actionRevision /\ rows[a].executionState = "none"
          BY <1>4, <3>1 DEF DecideMatches
        <5>2. Shown(a, now.revision, now.action, now.auto)
          BY <1>0, <1>2, <3>1 DEF CallOK
        <5>3. QED
          BY <5>1, <5>2, Zenon DEF Shown, ManualOnly
      <4>2. consent'[a] = [action |-> now.action, auto |-> now.auto] /\ consent'[a] # NULL
        <5>1. consent'[a] = [action |-> now.action, auto |-> now.auto]
          BY <1>2, <2>3, <3>1 DEF TypeOK
        <5>2. now.action \in Actions \cup {NULL} /\ now.auto \in BOOLEAN
          BY <1>1 DEF Call
        <5>3. QED
          BY <5>1, <5>2, NullIsNoConsent DEF Consents
      <4>3. consent'[a].action = now.action /\ consent'[a].auto = now.auto
        BY <4>2
      <4>4. QED
        BY <1>1, <1>2, <2>5, <2>6, <4>1, <4>2, <4>3 DEF RowInv, ManualOnly
    <3>2. CASE now.decision \notin Granted
      BY ZenonT(40), <1>1, <1>2, <2>3, <2>5, <2>6, <3>2 DEF RowInv, ManualOnly
    <3>3. QED
      BY <3>1, <3>2
  <2>8. ASSUME next # NULL PROVE CallOK(c, next)'
    <3>1. PICK x \in now.rest :
            next = [now EXCEPT !.pc = "checked", !.id = x.id, !.revision = x.revision,
                               !.action = x.action, !.status = "pending",
                               !.rest = now.rest \ {x}]
      BY <2>2, <2>8 DEF Continue
    <3>2. /\ next.id = x.id /\ next.pc = "checked" /\ next.decision = now.decision
          /\ next.revision = x.revision /\ next.action = x.action
          /\ next.auto = now.auto /\ next.rest = now.rest \ {x}
      BY <1>1, <3>1 DEF Call
    <3>3. CASE now.decision \in Granted
      <4>1. ASSUME NEW y \in now.rest, NEW auto \in BOOLEAN
            PROVE  y.id \in ids /\ Shown(y.id, y.revision, y.action, auto)'
        <5>1. y.id \in ids /\ Shown(y.id, y.revision, y.action, TRUE)
          BY <1>2, <3>3 DEF CallOK
        <5>2. Shown(y.id, y.revision, y.action, auto)
          BY <5>1 DEF Shown
        <5>3. y.id \in Approvals /\ y.revision \in Nat
          BY <1>1 DEF Call
        <5>4. Later(rows[y.id], rows'[y.id])
          <6>1. rows[y.id].actionRevision \in Nat
            BY <5>3 DEF TypeOK, Approval
          <6>2. QED
            BY <2>4, <2>6, <5>3, <6>1 DEF Later
        <5>5. QED
          BY <5>1, <5>2, <5>3, <5>4, ShownStays
      <4>2. now.auto \in BOOLEAN
        BY <1>1 DEF Call
      <4>3. QED
        BY <1>1, <3>2, <4>1, <4>2 DEF CallOK, Executing
    <3>4. CASE now.decision \notin Granted
      <4>1. x.id \in ids
        BY <1>2, <3>4 DEF CallOK
      <4>2. QED
        <5>1. \A y \in now.rest : y.id \in ids
          BY <1>2 DEF CallOK
        <5>2. QED
          BY <1>1, <3>2, <3>4, <4>1, <5>1 DEF CallOK, Executing
    <3>5. QED
      BY <3>3, <3>4
  <2>9. QED
    BY <1>1, <1>2, <2>2, <2>3, <2>4, <2>5, <2>6, <2>7, <2>8, RowStep
<1>5. QED
  BY <1>3, <1>4

\* The UPDATE of setProposedAction keeps the invariant: the consent is gone.
LEMMA ReviseWriteInv ==
  ASSUME TypeOK, TypeOK', LedgerInv, NEW c \in Clients, ReviseWrite(c)
  PROVE  LedgerInv'
<1>0. PICK now, a : now = call[c] /\ a = now.id
  OBVIOUS
<1>1. /\ up /\ up' /\ now # NULL /\ ids' = ids /\ UNCHANGED ghosts
      /\ call' = [call EXCEPT ![c] = NULL]
  BY <1>0 DEF ReviseWrite, At
<1>2. a \in ids /\ a \in Approvals /\ RowInv(a) /\ rows[a] \in Approval
  BY <1>0, <1>1 DEF LedgerInv, CallInv, CallOK, TypeOK
<1>3. CASE ~ReviseMatches(rows[a], now.revision, task)
  <2>1. rows' = rows
    BY <1>0, <1>3 DEF ReviseWrite
  <2>2. QED
    BY <1>1, <2>1, CallStep
<1>4. CASE ReviseMatches(rows[a], now.revision, task)
  <2>1. PICK row : row = Revised(rows[a], now.action)
    OBVIOUS
  <2>2. rows' = [rows EXCEPT ![a] = row]
    BY <1>0, <1>4, <2>1 DEF ReviseWrite
  <2>3. Later(rows[a], row)
    BY <1>2, <2>1, StatementsLater
  <2>4. rows[a].executionState = "none"
    BY <1>4 DEF ReviseMatches, Revisable
  <2>5. /\ row.status = "pending" /\ row.executionState = rows[a].executionState
        /\ row.executionToken = rows[a].executionToken
    BY <1>2, <2>1 DEF Revised, Approval
  <2>6. rows'[a] = row
    BY <1>2, <2>2 DEF TypeOK
  <2>7. RowInv(a)'
    BY <1>1, <1>2, <2>4, <2>5, <2>6 DEF RowInv, Granted, ghosts
  <2>8. ids' = ids /\ ran' = ran /\ effect' = effect /\ consent' = consent
    BY <1>1 DEF ghosts
  <2>9. QED
    BY <1>1, <1>2, <2>2, <2>3, <2>4, <2>7, <2>8, RowStep
<1>5. QED
  BY <1>3, <1>4

\* The UPDATE of claimExecution keeps the invariant: only what was granted is
\* claimed, and by nobody else.
LEMMA ClaimInv ==
  ASSUME TypeOK, TypeOK', LedgerInv, NEW c \in Clients, ClaimExecution(c)
  PROVE  LedgerInv'
<1>0. PICK now, a : now = call[c] /\ a = now.id
  OBVIOUS
<1>1. /\ up /\ up' /\ now # NULL /\ ids' = ids /\ UNCHANGED ghosts
  BY <1>0 DEF ClaimExecution, At
<1>2. a \in ids /\ a \in Approvals /\ RowInv(a) /\ rows[a] \in Approval
  BY <1>0, <1>1 DEF LedgerInv, CallInv, CallOK, TypeOK
<1>3. CASE ~ClaimMatches(rows[a], now.revision, task)
  <2>1. rows' = rows /\ call' = [call EXCEPT ![c] = NULL]
    BY <1>0, <1>3 DEF ClaimExecution
  <2>2. QED
    BY <1>1, <2>1, CallStep
<1>4. CASE ClaimMatches(rows[a], now.revision, task)
  <2>1. PICK row, next : row = Claimed(rows[a], c) /\ next = NewCall("claimed", a)
    OBVIOUS
  <2>2. rows' = [rows EXCEPT ![a] = row] /\ call' = [call EXCEPT ![c] = next]
    BY <1>0, <1>4, <2>1 DEF ClaimExecution
  <2>3. Later(rows[a], row)
    BY <1>2, <2>1, StatementsLater
  <2>4. /\ rows[a].executionState = "none" /\ rows[a].retryApprovalId = NULL
        /\ rows[a].status \in Granted /\ rows[a].proposedAction # NULL
    BY <1>4 DEF ClaimMatches
  <2>5. /\ row.executionState = "running" /\ row.executionToken = c
        /\ row.status = rows[a].status /\ row.proposedAction = rows[a].proposedAction
        /\ row.actionRevision = rows[a].actionRevision
        /\ row.approvedRevision = rows[a].approvedRevision
        /\ row.approvedAction = rows[a].approvedAction
        /\ row.requiresManual = rows[a].requiresManual
        /\ row.retryApprovalId = rows[a].retryApprovalId
    BY <1>2, <2>1 DEF Claimed, Approval
  <2>6. rows'[a] = row /\ c # NULL
    BY <1>2, <2>2, NullIsFresh DEF TypeOK, Clients
  <2>7. ids' = ids /\ ran' = ran /\ effect' = effect /\ consent' = consent
    BY <1>1 DEF ghosts
  <2>8. RowInv(a)'
    BY <1>2, <2>4, <2>5, <2>6, <2>7 DEF RowInv, ManualOnly
  <2>9. CallOK(c, next)'
    <3>1. /\ next.id = a /\ next.pc = "claimed" /\ next.decision = NULL /\ next.rest = {}
          /\ ran'[a] = 0
      BY <1>2, <2>1, <2>4, <2>7 DEF NewCall, RowInv
    <3>2. QED
      BY <1>2, <2>5, <2>6, <2>7, <3>1, NullGrantsNothing DEF CallOK
  <2>10. QED
    BY <1>1, <1>2, <2>2, <2>3, <2>4, <2>7, <2>8, <2>9, RowStep
<1>5. QED
  BY <1>3, <1>4

\* Recording the decision "executed" keeps the invariant.
LEMMA RecordWriteInv ==
  ASSUME TypeOK, TypeOK', LedgerInv, NEW c \in Clients, RecordWrite(c)
  PROVE  LedgerInv'
<1>0. PICK now, a : now = call[c] /\ a = now.id
  OBVIOUS
<1>1. /\ up /\ up' /\ now # NULL /\ now.pc = "recording" /\ ids' = ids /\ UNCHANGED ghosts
  BY <1>0 DEF RecordWrite, At
<1>2. /\ a \in ids /\ a \in Approvals /\ RowInv(a) /\ rows[a] \in Approval
      /\ rows[a].executionState = "running" /\ rows[a].executionToken = c
  BY <1>0, <1>1 DEF LedgerInv, CallInv, CallOK, TypeOK, Executing
<1>3. CASE ~DecideMatches(rows[a], now.revision, now.status, "executed", task)
  <2>1. PICK next : next = NewCall("failed", a)
    OBVIOUS
  <2>2. rows' = rows /\ call' = [call EXCEPT ![c] = next]
    BY <1>0, <1>3, <2>1 DEF RecordWrite
  <2>3. CallOK(c, next)
    BY <1>2, <2>1, NullGrantsNothing DEF CallOK, NewCall
  <2>4. QED
    BY <1>1, <2>2, <2>3, CallStep
<1>4. CASE DecideMatches(rows[a], now.revision, now.status, "executed", task)
  <2>1. PICK row, next : row = Decided(rows[a], "executed") /\ next = NewCall("recorded", a)
    OBVIOUS
  <2>2. rows' = [rows EXCEPT ![a] = row] /\ call' = [call EXCEPT ![c] = next]
    BY <1>0, <1>4, <2>1 DEF RecordWrite
  <2>3. Later(rows[a], row)
    BY <1>2, <2>1, StatementsLater
  <2>4. /\ row.executionState = "running" /\ row.executionToken = c
        /\ row.status = "executed" /\ row.proposedAction = rows[a].proposedAction
        /\ row.actionRevision = rows[a].actionRevision
        /\ row.approvedRevision = rows[a].approvedRevision
        /\ row.approvedAction = rows[a].approvedAction
        /\ row.requiresManual = rows[a].requiresManual
        /\ row.retryApprovalId = rows[a].retryApprovalId
    BY <1>2, <2>1 DEF Decided, Approval, Granted
  <2>5. rows'[a] = row
    BY <1>2, <2>2 DEF TypeOK
  <2>6. ids' = ids /\ ran' = ran /\ effect' = effect /\ consent' = consent
    BY <1>1 DEF ghosts
  <2>7. RowInv(a)'
    BY <1>2, <2>4, <2>5, <2>6 DEF RowInv, ManualOnly
  <2>8. CallOK(c, next)'
    BY <1>2, <2>1, <2>4, <2>5, <2>6, NullGrantsNothing DEF CallOK, NewCall
  <2>9. QED
    BY <1>1, <1>2, <2>2, <2>3, <2>4, <2>6, <2>7, <2>8, RowStep
<1>5. QED
  BY <1>3, <1>4

\* finishExecution keeps the invariant: the claim becomes its outcome.
LEMMA FinishInv ==
  ASSUME TypeOK, TypeOK', LedgerInv, NEW c \in Clients, FinishExecution(c)
  PROVE  LedgerInv'
<1>0. PICK now, a, row : now = call[c] /\ a = now.id /\ row = Finished(rows[a], OutcomeOf(now.pc))
  OBVIOUS
<1>1. /\ up /\ up' /\ now # NULL /\ now.pc \in {"recorded", "confirmed", "failed"}
      /\ ids' = ids /\ UNCHANGED ghosts /\ call' = [call EXCEPT ![c] = NULL]
  BY <1>0 DEF FinishExecution, At
<1>2. /\ a \in ids /\ a \in Approvals /\ RowInv(a) /\ rows[a] \in Approval
      /\ rows[a].executionState = "running" /\ rows[a].executionToken = c
  BY <1>0, <1>1 DEF LedgerInv, CallInv, CallOK, TypeOK, Executing
<1>3. rows' = [rows EXCEPT ![a] = row]
  BY <1>0, <1>2 DEF FinishExecution, FinishMatches
<1>4. Later(rows[a], row)
  BY <1>0, <1>2, StatementsLater
<1>5. OutcomeOf(now.pc) \in Outcome
  BY <1>1 DEF OutcomeOf, Outcome
<1>6. /\ row.executionState \in Outcome
      /\ row.executionToken = c /\ row.proposedAction = rows[a].proposedAction
      /\ row.actionRevision = rows[a].actionRevision
      /\ row.approvedRevision = rows[a].approvedRevision
      /\ row.approvedAction = rows[a].approvedAction
      /\ row.requiresManual = rows[a].requiresManual
      /\ row.retryApprovalId = rows[a].retryApprovalId
  BY <1>0, <1>2, <1>5 DEF Finished, Approval
<1>7. row.executionState # "none" /\ row.executionState # "running"
  BY <1>6 DEF Outcome
<1>8. rows'[a] = row
  BY <1>2, <1>3 DEF TypeOK
<1>9. ids' = ids /\ ran' = ran /\ effect' = effect /\ consent' = consent
  BY <1>1 DEF ghosts
<1>10. RowInv(a)'
  BY <1>2, <1>6, <1>7, <1>8, <1>9 DEF RowInv, ManualOnly
<1>11. QED
  BY <1>1, <1>2, <1>3, <1>4, <1>9, <1>10, RowStep

\* The steps of a call that write nothing keep the invariant.
LEMMA ReadInv ==
  ASSUME TypeOK, TypeOK', LedgerInv, NEW c \in Clients,
         \/ DecideRead(c) \/ LoadClaimed(c) \/ FailExecution(c)
         \/ ConfirmFailure(c) \/ RecordRead(c)
  PROVE  LedgerInv'
<1>0. PICK now, a : now = call[c] /\ a = now.id
  OBVIOUS
<1>1. up /\ up' /\ now # NULL /\ UNCHANGED <<ids, rows, ghosts>>
  BY <1>0 DEF DecideRead, LoadClaimed, FailExecution, ConfirmFailure, RecordRead, At
<1>2. CallOK(c, now) /\ a \in ids /\ RowInv(a) /\ now \in Call
  BY ZenonT(40), <1>0, <1>1 DEF LedgerInv, CallInv, CallOK, TypeOK
<1>3. CASE DecideRead(c)
  <2>1. PICK next : next = IF Decidable(rows[a], now.decision) /\ rows[a].actionRevision = now.revision
                           THEN [now EXCEPT !.pc = "deciding", !.status = rows[a].status]
                           ELSE NULL
    OBVIOUS
  <2>2. call' = [call EXCEPT ![c] = next]
    BY <1>0, <1>3, <2>1 DEF DecideRead
  <2>3. ASSUME next # NULL PROVE CallOK(c, next)
    <3>1. /\ next.pc = "deciding" /\ next.id = now.id /\ next.decision = now.decision
          /\ next.auto = now.auto /\ next.revision = now.revision
          /\ next.action = now.action /\ next.rest = now.rest
      BY <1>2, <2>1, <2>3 DEF Call
    <3>2. QED
      BY <1>2, <3>1 DEF CallOK, Executing
  <2>4. QED
    BY <1>1, <2>2, <2>3, CallStep
<1>4. CASE ~DecideRead(c)
  <2>1. now.pc \in Executing
    BY <1>0, <1>4 DEF LoadClaimed, FailExecution, ConfirmFailure, RecordRead, At, Executing
  <2>2. rows[a].executionState = "running" /\ rows[a].executionToken = c /\ now.decision = NULL
    BY <1>0, <1>2, <2>1 DEF CallOK
  <2>3. ASSUME NEW pc \in {"failed", "confirmed"} PROVE CallOK(c, NewCall(pc, a))
    BY <1>2, <2>2, NullGrantsNothing DEF CallOK, NewCall
  <2>4. CASE FailExecution(c) \/ ConfirmFailure(c)
    <3>1. \E pc \in {"failed", "confirmed"} : call' = [call EXCEPT ![c] = NewCall(pc, a)]
      BY <1>0, <2>4 DEF FailExecution, ConfirmFailure
    <3>2. QED
      BY <1>1, <2>3, <3>1, CallStep
  <2>5. CASE LoadClaimed(c)
    <3>1. PICK next : next = IF rows[a].status \in Granted
                             THEN [NewCall("loaded", a) EXCEPT !.action = rows[a].proposedAction]
                             ELSE NewCall("failed", a)
      OBVIOUS
    <3>2. call' = [call EXCEPT ![c] = next] /\ now.pc = "claimed"
      BY <1>0, <2>5, <3>1 DEF LoadClaimed, At
    <3>3. ran[a] = 0
      BY <1>0, <1>2, <3>2 DEF CallOK
    <3>4. CASE rows[a].status \in Granted
      <4>1. /\ next.pc = "loaded" /\ next.id = a /\ next.decision = NULL /\ next.rest = {}
            /\ next.action = rows[a].proposedAction
        BY <3>1, <3>4 DEF NewCall
      <4>2. CallOK(c, next)
        BY <1>2, <2>2, <3>3, <4>1, NullGrantsNothing DEF CallOK
      <4>3. QED
        BY <1>1, <3>2, <4>2, CallStep
    <3>5. CASE rows[a].status \notin Granted
      BY <1>1, <2>3, <3>1, <3>2, <3>5, CallStep
    <3>6. QED
      BY <3>4, <3>5
  <2>6. CASE RecordRead(c)
    <3>1. PICK next : next = IF Decidable(rows[a], "executed")
                             THEN [now EXCEPT !.pc = "recording", !.status = rows[a].status,
                                              !.revision = rows[a].actionRevision]
                             ELSE NewCall("failed", a)
      OBVIOUS
    <3>2. call' = [call EXCEPT ![c] = next]
      BY <1>0, <2>6, <3>1 DEF RecordRead
    <3>3. CASE Decidable(rows[a], "executed")
      <4>1. /\ next.pc = "recording" /\ next.id = a /\ next.decision = NULL
            /\ next.rest = now.rest
        BY <1>0, <1>2, <2>2, <3>1, <3>3 DEF Call
      <4>2. CallOK(c, next)
        BY <1>2, <2>2, <4>1, NullGrantsNothing DEF CallOK
      <4>3. QED
        BY <1>1, <3>2, <4>2, CallStep
    <3>4. CASE ~Decidable(rows[a], "executed")
      BY <1>1, <2>3, <3>1, <3>2, <3>4, CallStep
    <3>5. QED
      BY <3>3, <3>4
  <2>7. QED
    BY <1>4, <2>4, <2>5, <2>6
<1>5. QED
  BY <1>3, <1>4

\* A side effect keeps the invariant: it is the first of its approval, and of
\* the content that was granted; every other call executes another approval.
LEMMA PerformInv ==
  ASSUME TypeOK, TypeOK', LedgerInv, NEW c \in Clients, Perform(c)
  PROVE  LedgerInv'
<1>0. PICK now, a, next : now = call[c] /\ a = now.id /\ next = NewCall("performed", a)
  OBVIOUS
<1>1. /\ up /\ up' /\ now # NULL /\ now.pc = "loaded" /\ now \in Call
      /\ ids' = ids /\ rows' = rows /\ consent' = consent
      /\ call' = [call EXCEPT ![c] = next]
      /\ effect' = [effect EXCEPT ![a] = now.action]
      /\ ran' = [ran EXCEPT ![a] = @ + 1]
  BY <1>0 DEF Perform, At, TypeOK
<1>2. /\ a \in ids /\ a \in Approvals /\ RowInv(a)
      /\ rows[a].executionState = "running" /\ rows[a].executionToken = c
      /\ ran[a] = 0 /\ now.action = rows[a].proposedAction
  BY <1>0, <1>1 DEF LedgerInv, CallInv, CallOK, TypeOK, Executing
<1>3. /\ ran'[a] = 1 /\ effect'[a] = rows'[a].proposedAction
      /\ \A b \in Approvals \ {a} : ran'[b] = ran[b] /\ effect'[b] = effect[b]
  BY <1>1, <1>2 DEF TypeOK
<1>4. ASSUME NEW b \in Approvals PROVE RowInv(b)'
  <2>1. CASE b = a
    <3>0. /\ rows[a].executionState # "none" /\ ran'[a] <= 1 /\ ran'[a] # 0
          /\ effect'[a] = rows[a].proposedAction
      BY <1>1, <1>2, <1>3
    <3>1. RowInv(a)'
      BY <1>1, <1>2, <3>0, Zenon DEF RowInv, ManualOnly
    <3>2. QED
      BY <2>1, <3>1
  <2>2. CASE b # a
    BY <1>1, <1>3, <2>2, RowStays DEF LedgerInv
  <2>3. QED
    BY <2>1, <2>2
<1>5. ASSUME NEW b \in Approvals PROVE Later(rows[b], rows'[b])
  BY <1>1 DEF Later, TypeOK, Approval
<1>6. ASSUME NEW d \in Clients PROVE CallInv(d)'
  <2>1. CASE d = c
    <3>1. CallOK(c, next)'
      BY <1>0, <1>1, <1>2, NullGrantsNothing DEF CallOK, NewCall
    <3>2. call'[c] = next
      BY <1>1 DEF TypeOK
    <3>3. QED
      BY <2>1, <3>1, <3>2 DEF CallInv
  <2>2. CASE d # c
    <3>1. call'[d] = call[d]
      BY <1>1, <2>2 DEF TypeOK
    <3>2. ASSUME call[d] # NULL, call[d].pc \in Executing
          PROVE  LET b == call[d].id IN
                 /\ rows'[b].executionState = "running" /\ rows'[b].executionToken = d
                 /\ ran'[b] = ran[b] /\ rows'[b].proposedAction = rows[b].proposedAction
      <4>1. /\ rows[call[d].id].executionState = "running"
            /\ rows[call[d].id].executionToken = d
            /\ call[d].id \in Approvals
        BY <3>2 DEF LedgerInv, CallInv, CallOK, TypeOK
      <4>2. QED
        BY <1>1, <1>2, <1>3, <2>2, <4>1
    <3>3. ids \subseteq Approvals
      BY DEF TypeOK
    <3>4. QED
      BY <1>1, <1>5, <3>1, <3>2, <3>3, CallStays DEF LedgerInv
  <2>3. QED
    BY <2>1, <2>2
<1>7. QED
  BY <1>1, <1>4, <1>6 DEF LedgerInv

\* The steps of a call under way keep the invariant.
LEMMA ProceedInv ==
  ASSUME TypeOK, TypeOK', LedgerInv, NEW c \in Clients, Proceed(c)
  PROVE  LedgerInv'
BY ReadInv, DecideWriteInv, ReviseWriteInv, ClaimInv, PerformInv, RecordWriteInv,
   FinishInv DEF Proceed

\* A proposed action enters as a pending approval nobody was asked about yet.
LEMMA CreateInv ==
  ASSUME TypeOK, TypeOK', LedgerInv,
         NEW a \in Approvals, NEW action \in Actions \cup {NULL}, CreateApproval(a, action)
  PROVE  LedgerInv'
<1>1. /\ a \notin ids /\ up /\ up' /\ ids' = ids \cup {a} /\ call' = call
      /\ rows' = [rows EXCEPT ![a] = NewRow(action, FALSE)]
      /\ consent' = consent /\ effect' = effect /\ ran' = ran
  BY DEF CreateApproval, ghosts
<1>2. \A b \in Approvals \ {a} : rows'[b] = rows[b]
  BY <1>1 DEF TypeOK
<1>3. rows'[a] = NewRow(action, FALSE)
  BY <1>1 DEF TypeOK
<1>4. ran[a] = 0 /\ effect[a] = NULL
  BY <1>1 DEF LedgerInv, RowInv, NewRow
<1>5. RowInv(a)'
  BY <1>1, <1>3, <1>4 DEF RowInv, NewRow, Granted
<1>6. ASSUME NEW b \in Approvals PROVE RowInv(b)'
  <2>1. CASE b # a
    BY <1>1, <1>2, <2>1, RowStays DEF LedgerInv
  <2>2. QED
    BY <1>5, <2>1
<1>7. ASSUME NEW d \in Clients PROVE CallInv(d)'
  <2>1. \A b \in ids : b \in Approvals \ {a} /\ rows'[b] = rows[b]
    BY <1>1, <1>2 DEF TypeOK
  <2>2. \A b \in ids : Later(rows[b], rows'[b])
    BY <2>1 DEF Later, TypeOK, Approval
  <2>3. call[d] # NULL /\ call[d].pc \in Executing =>
          /\ call[d].id \in ids
          /\ rows[call[d].id].executionState = "running" /\ rows[call[d].id].executionToken = d
    BY DEF LedgerInv, CallInv, CallOK
  <2>4. QED
    BY <1>1, <2>1, <2>2, <2>3, CallStays DEF LedgerInv
<1>8. QED
  BY <1>1, <1>6, <1>7 DEF LedgerInv

\* A replaced approval has no claim under way, and its replacement is new.
LEMMA RetryInv ==
  ASSUME TypeOK, TypeOK', LedgerInv,
         NEW a \in Approvals, NEW next \in Approvals, PrepareApprovalRetry(a, next)
  PROVE  LedgerInv'
<1>0. PICK row, old : /\ row = NewRow(rows[a].proposedAction, TRUE)
                      /\ old = [rows[a] EXCEPT !.retryApprovalId = next]
  OBVIOUS
<1>1. /\ up /\ up' /\ a \in ids /\ next \notin ids /\ ids' = ids \cup {next} /\ call' = call
      /\ consent' = consent /\ effect' = effect /\ ran' = ran
  BY DEF PrepareApprovalRetry, ghosts
<1>2. \A b \in ids : rows[b].executionState # "running"
  BY DEF PrepareApprovalRetry
<1>3. rows' = [rows EXCEPT ![next] = row, ![a] = old]
  <2>1. rows' = [rows EXCEPT ![next] = NewRow(rows[a].proposedAction, TRUE),
                             ![a].retryApprovalId = next]
    BY DEF PrepareApprovalRetry
  <2>2. a # next
    BY <1>1
  <2>3. QED
    BY <1>0, <2>1, <2>2 DEF TypeOK
<1>4. /\ rows'[a] = old /\ rows'[next] = row /\ a # next
      /\ \A b \in Approvals \ {a, next} : rows'[b] = rows[b]
  BY <1>1, <1>3 DEF TypeOK
<1>5. /\ old.status = rows[a].status /\ old.proposedAction = rows[a].proposedAction
      /\ old.actionRevision = rows[a].actionRevision
      /\ old.approvedRevision = rows[a].approvedRevision
      /\ old.approvedAction = rows[a].approvedAction
      /\ old.requiresManual = rows[a].requiresManual
      /\ old.executionState = rows[a].executionState
      /\ old.executionToken = rows[a].executionToken
  BY <1>0 DEF TypeOK, Approval
<1>6. ran[next] = 0 /\ effect[next] = NULL
  BY <1>1 DEF LedgerInv, RowInv, NewRow
<1>7. RowInv(next)'
  BY <1>0, <1>1, <1>4, <1>6 DEF RowInv, NewRow, Granted
<1>8. RowInv(a)'
  <2>1. RowInv(a) /\ rows[a].executionState # "running"
    BY <1>1, <1>2 DEF LedgerInv
  <2>2. QED
    BY <1>1, <1>4, <1>5, <2>1 DEF RowInv, ManualOnly
<1>9. ASSUME NEW b \in Approvals PROVE RowInv(b)'
  <2>1. CASE b \notin {a, next}
    BY <1>1, <1>4, <2>1, RowStays DEF LedgerInv
  <2>2. QED
    BY <1>7, <1>8, <2>1
<1>10. ASSUME NEW d \in Clients PROVE CallInv(d)'
  <2>1. \A b \in ids : Later(rows[b], rows'[b])
    <3> TAKE b \in ids
    <3>1. b \in Approvals /\ b # next /\ rows[b].actionRevision \in Nat
      BY <1>1 DEF TypeOK, Approval
    <3>2. QED
      BY <1>4, <1>5, <3>1 DEF Later
  <2>2. ~(call[d] # NULL /\ call[d].pc \in Executing)
    BY <1>2 DEF LedgerInv, CallInv, CallOK
  <2>3. QED
    BY <1>1, <2>1, <2>2, CallStays DEF LedgerInv
<1>11. QED
  BY <1>1, <1>9, <1>10 DEF LedgerInv

\* The task's moves, a crash and a startup keep the invariant: no claim
\* survives the call that holds it.
LEMMA ProcessInv ==
  ASSUME TypeOK, TypeOK', LedgerInv,
         \/ \E status \in Moves : MoveTask(status)
         \/ PauseForShutdown \/ CompleteTaskRun \/ Crash \/ Startup
  PROVE  LedgerInv'
<1>1. ids' = ids /\ consent' = consent /\ effect' = effect /\ ran' = ran
  BY DEF MoveTask, PauseForShutdown, CompleteTaskRun, Crash, Startup, ghosts
<1>2. CASE (\E status \in Moves : MoveTask(status)) \/ PauseForShutdown \/ CompleteTaskRun
  <2>1. rows' = rows /\ call' = call /\ up' = up
    BY <1>2 DEF MoveTask, PauseForShutdown, CompleteTaskRun
  <2>2. \A b \in Approvals : RowInv(b)'
    BY <1>1, <2>1, RowStays DEF LedgerInv
  <2>3. ASSUME NEW d \in Clients PROVE CallInv(d)'
    <3>1. CallInv(d)
      BY DEF LedgerInv
    <3>2. QED
      BY <1>1, <2>1, <3>1 DEF CallInv, CallOK, Shown, ManualOnly
  <2>4. QED
    BY <2>1, <2>2, <2>3 DEF LedgerInv
<1>3. CASE Crash
  <2>1. rows' = rows /\ \A d \in Clients : call'[d] = NULL
    BY <1>3 DEF Crash
  <2>2. \A b \in Approvals : RowInv(b)'
    BY <1>1, <2>1, RowStays DEF LedgerInv
  <2>3. QED
    BY <2>1, <2>2 DEF LedgerInv, CallInv
<1>4. CASE Startup
  <2>1. /\ up' /\ call' = call /\ \A d \in Clients : call[d] = NULL
    BY <1>4 DEF Startup, LedgerInv
  <2>2. ASSUME NEW b \in Approvals PROVE RowInv(b)'
    <3>1. CASE rows[b].executionState # "running"
      <4>1. rows'[b] = rows[b]
        BY <1>4, <3>1 DEF Startup
      <4>2. QED
        BY <1>1, <4>1, RowStays DEF LedgerInv
    <3>2. CASE rows[b].executionState = "running"
      <4>1. PICK row : row = [rows[b] EXCEPT !.executionState = "uncertain"]
        OBVIOUS
      <4>2. rows'[b] = row
        BY <1>4, <3>2, <4>1 DEF Startup
      <4>3. /\ row.status = rows[b].status /\ row.proposedAction = rows[b].proposedAction
            /\ row.actionRevision = rows[b].actionRevision
            /\ row.approvedRevision = rows[b].approvedRevision
            /\ row.approvedAction = rows[b].approvedAction
            /\ row.requiresManual = rows[b].requiresManual
            /\ row.retryApprovalId = rows[b].retryApprovalId
            /\ row.executionState = "uncertain"
            /\ row.executionToken = rows[b].executionToken
        BY <4>1 DEF TypeOK, Approval
      <4>4. RowInv(b) /\ b \in ids
        BY <3>2 DEF LedgerInv, RowInv, NewRow
      <4>5. QED
        BY <1>1, <3>2, <4>2, <4>3, <4>4 DEF RowInv, ManualOnly
    <3>3. QED
      BY <3>1, <3>2
  <2>3. QED
    BY <2>1, <2>2 DEF LedgerInv, CallInv
<1>5. QED
  BY <1>2, <1>3, <1>4

\* Every step keeps the invariant.
LEMMA NextInv == TypeOK /\ TypeOK' /\ LedgerInv /\ [Next]_vars => LedgerInv'
<1> SUFFICES ASSUME TypeOK, TypeOK', LedgerInv, [Next]_vars PROVE LedgerInv'
  OBVIOUS
<1>1. CASE Next
  BY <1>1, ProceedInv, RequestInv, CreateInv, RetryInv, ProcessInv DEF Next
<1>2. CASE UNCHANGED vars
  <2>1. /\ ids' = ids /\ rows' = rows /\ call' = call /\ up' = up
        /\ consent' = consent /\ effect' = effect /\ ran' = ran
    BY <1>2 DEF vars
  <2>2. \A b \in Approvals : RowInv(b)'
    BY <2>1, RowStays DEF LedgerInv
  <2>3. ASSUME NEW d \in Clients PROVE CallInv(d)'
    <3>1. CallInv(d)
      BY DEF LedgerInv
    <3>2. QED
      BY <2>1, <3>1 DEF CallInv, CallOK, Shown, ManualOnly
  <2>4. QED
    BY <2>1, <2>2, <2>3 DEF LedgerInv
<1>3. QED
  BY <1>1, <1>2

-----------------------------------------------------------------------------
(* What the ledger guarantees *)

\* The rows and the calls under way always agree: a granted or claimed row
\* records what its approver was shown, a claim belongs to one call, and a
\* call that approves still knows what it was shown (decide, setProposedAction,
\* claimExecution, finishExecution and the startup of main.ts).
THEOREM LedgerConsistent == Spec => []LedgerInv
<1>1. Init => LedgerInv
  BY InitInv
<1>2. TypeOK /\ TypeOK' /\ LedgerInv /\ [Next]_vars => LedgerInv'
  BY NextInv
<1>3. Spec => []TypeOK
  BY TypeCorrect
<1>4. QED
  BY <1>1, <1>2, <1>3, PTL DEF Spec

\* What took effect is what an approver was shown and granted: from approve
\* over decide and claimExecution to the runner's second read of the row.
THEOREM ConsentedEffects == Spec => []EffectsWereConsented
<1>1. LedgerInv => EffectsWereConsented
  <2> SUFFICES ASSUME LedgerInv, NEW a \in Approvals, effect[a] # NULL
               PROVE  /\ consent[a] # NULL
                      /\ consent[a].action = effect[a]
                      /\ consent[a].auto => ~ManualOnly(a)
    BY DEF EffectsWereConsented
  <2>1. RowInv(a)
    BY DEF LedgerInv
  <2>2. rows[a].executionState # "none"
    BY <2>1 DEF RowInv
  <2>3. QED
    BY <2>1, <2>2 DEF RowInv
<1>2. QED
  BY <1>1, LedgerConsistent, PTL

\* One approval, one side effect, whatever calls race for its claim and
\* however often the process dies (claimExecution and main.ts's startup).
THEOREM SingleEffect == Spec => []RanAtMostOnce
<1>1. LedgerInv => RanAtMostOnce
  BY DEF LedgerInv, RowInv, RanAtMostOnce
<1>2. QED
  BY <1>1, LedgerConsistent, PTL

-----------------------------------------------------------------------------
(* Quiet while done *)

\* While the task is done no claim is under way.
QuietInv == task = "done" => \A a \in Approvals : rows[a].executionState # "running"

\* Only a claim makes a row run.
LEMMA StatementStates ==
  ASSUME NEW row \in Approval
  PROVE  /\ \A decision : Decided(row, decision).executionState = row.executionState
         /\ \A action : Revised(row, action).executionState = row.executionState
         /\ \A outcome : Finished(row, outcome).executionState = outcome
BY DEF Decided, Revised, Finished, Approval

\* A call under way starts no execution while the task is done.
LEMMA QuietProceed ==
  ASSUME TypeOK, NEW c \in Clients, Proceed(c), task = "done",
         \A a \in Approvals : rows[a].executionState # "running",
         NEW a \in Approvals
  PROVE  rows'[a].executionState # "running"
<1> DEFINE now == call[c]
           b == now.id
<1>1. rows[a].executionState # "running" /\ \A d \in Approvals : rows[d] \in Approval
  BY DEF TypeOK
<1>2. CASE rows'[a] = rows[a]
  BY <1>1, <1>2
<1>3. CASE DecideRead(c) \/ LoadClaimed(c) \/ Perform(c) \/ RecordRead(c)
           \/ FailExecution(c) \/ ConfirmFailure(c)
  BY <1>2, <1>3 DEF DecideRead, LoadClaimed, Perform, RecordRead, FailExecution, ConfirmFailure
<1>4. CASE DecideWrite(c)
  <2>1. rows' = rows \/ rows' = [rows EXCEPT ![b] = Decided(rows[b], now.decision)]
    BY <1>4 DEF DecideWrite
  <2>2. QED
    BY <1>1, <1>2, <2>1, StatementStates DEF TypeOK
<1>5. CASE RecordWrite(c)
  <2>1. rows' = rows \/ rows' = [rows EXCEPT ![b] = Decided(rows[b], "executed")]
    BY <1>5 DEF RecordWrite
  <2>2. QED
    BY <1>1, <1>2, <2>1, StatementStates DEF TypeOK
<1>6. CASE ReviseWrite(c)
  <2>1. rows' = rows \/ rows' = [rows EXCEPT ![b] = Revised(rows[b], now.action)]
    BY <1>6 DEF ReviseWrite
  <2>2. QED
    BY <1>1, <1>2, <2>1, StatementStates DEF TypeOK
<1>7. CASE ClaimExecution(c)
  BY <1>2, <1>7 DEF ClaimExecution, ClaimMatches, Closed
<1>8. CASE FinishExecution(c)
  <2>1. PICK outcome : /\ outcome \in Outcome
                       /\ rows' = rows \/ rows' = [rows EXCEPT ![b] = Finished(rows[b], outcome)]
    <3>1. now.pc \in {"recorded", "confirmed", "failed"}
      BY <1>8 DEF FinishExecution, At
    <3>2. OutcomeOf(now.pc) \in Outcome
      BY <3>1 DEF OutcomeOf, Outcome
    <3>3. QED
      BY <1>8, <3>2 DEF FinishExecution
  <2>2. outcome # "running"
    BY <2>1 DEF Outcome
  <2>3. QED
    BY <1>1, <1>2, <2>1, <2>2, StatementStates DEF TypeOK
<1>9. QED
  BY <1>3, <1>4, <1>5, <1>6, <1>7, <1>8 DEF Proceed

\* No step breaks the quiet, and the task becomes done only in quiet.
LEMMA QuietStep == TypeOK /\ LedgerInv /\ QuietInv /\ [Next]_vars => QuietInv'
<1> SUFFICES ASSUME TypeOK, LedgerInv, QuietInv, [Next]_vars, task' = "done",
                    NEW a \in Approvals
             PROVE  rows'[a].executionState # "running"
  BY DEF QuietInv
<1>1. CASE UNCHANGED vars
  BY <1>1 DEF vars, QuietInv
<1>2. CASE CompleteTaskRun
  <2>1. rows' = rows /\ \A b \in ids : ~Unsettled(rows[b])
    BY <1>2 DEF CompleteTaskRun
  <2>2. RowInv(a)
    BY DEF LedgerInv
  <2>3. QED
    BY <2>1, <2>2 DEF Unsettled, RowInv, NewRow
<1>3. ASSUME task = "done", NEW c \in Clients, Proceed(c)
      PROVE  rows'[a].executionState # "running"
  BY <1>3, QuietProceed DEF QuietInv
<1>4. ASSUME task = "done",
             \/ \E c \in Clients : Request(c)
             \/ \E b \in Approvals : \E action \in Actions \cup {NULL} : CreateApproval(b, action)
             \/ Crash \/ Startup
      PROVE  rows'[a].executionState # "running"
  <2>1. rows[a].executionState # "running"
    BY <1>4 DEF QuietInv
  <2>2. CASE \E c \in Clients : Request(c)
    BY <2>1, <2>2 DEF Request, Approve, ApproveClass, RejectApproval, ReviseRead, ExecuteApproved
  <2>3. CASE \E b \in Approvals : \E action \in Actions \cup {NULL} : CreateApproval(b, action)
    BY <2>1, <2>3 DEF CreateApproval, NewRow, TypeOK
  <2>4. CASE Crash
    BY <2>1, <2>4 DEF Crash
  <2>5. CASE Startup
    BY <2>1, <2>5 DEF Startup
  <2>6. QED
    BY <1>4, <2>2, <2>3, <2>4, <2>5
<1>5. ASSUME ~(UNCHANGED vars), ~CompleteTaskRun
      PROVE  task = "done"
  <2>1. Next
    BY <1>5
  <2>2. ASSUME NEW status \in Moves, MoveTask(status) PROVE FALSE
    BY <2>2, LedgerAssumption DEF MoveTask
  <2>3. ASSUME NEW b \in Approvals, NEW next \in Approvals, PrepareApprovalRetry(b, next)
        PROVE  FALSE
    BY <2>3 DEF PrepareApprovalRetry
  <2>4. ~PauseForShutdown
    BY DEF PauseForShutdown
  <2>5. ASSUME NEW c \in Clients, Proceed(c) \/ Request(c) PROVE task' = task
    BY <2>5 DEF Proceed, Request, DecideRead, DecideWrite, ReviseWrite, ClaimExecution,
                LoadClaimed, Perform, RecordRead, RecordWrite, FailExecution, ConfirmFailure,
                FinishExecution, Approve, ApproveClass, RejectApproval, ReviseRead, ExecuteApproved
  <2>6. ASSUME \/ \E b \in Approvals : \E action \in Actions \cup {NULL} : CreateApproval(b, action)
               \/ Crash \/ Startup
        PROVE  task' = task
    BY <2>6 DEF CreateApproval, Crash, Startup
  <2>7. QED
    BY <1>5, <2>1, <2>2, <2>3, <2>4, <2>5, <2>6 DEF Next
<1>6. ASSUME NEW status \in Moves, MoveTask(status) PROVE FALSE
  BY <1>6, LedgerAssumption DEF MoveTask
<1>7. ASSUME NEW b \in Approvals, NEW next \in Approvals, PrepareApprovalRetry(b, next)
      PROVE  FALSE
  BY <1>7 DEF PrepareApprovalRetry
<1>8. ~PauseForShutdown
  BY DEF PauseForShutdown
<1>9. QED
  BY <1>1, <1>2, <1>3, <1>4, <1>5, <1>6, <1>7, <1>8 DEF Next

\* Nothing is carried out while the task is done: completeTaskRun refuses a
\* task with a claim under way and claimExecution refuses a done task.
THEOREM QuietWhenDone == Spec => DoneIsQuiet
<1>1. Init => QuietInv
  BY DEF Init, QuietInv
<1>2. TypeOK /\ LedgerInv /\ QuietInv /\ [Next]_vars =>
        [task = "done" => ran' = ran]_vars
  <2> SUFFICES ASSUME TypeOK, LedgerInv, QuietInv, Next, task = "done"
               PROVE  ran' = ran
    OBVIOUS
  <2>1. ASSUME NEW c \in Clients PROVE ~Perform(c)
    BY DEF Perform, At, LedgerInv, CallInv, CallOK, Executing, QuietInv, TypeOK
  <2>2. ASSUME NEW c \in Clients, Proceed(c) \/ Request(c) PROVE ran' = ran
    BY <2>1, <2>2 DEF Proceed, Request, DecideRead, DecideWrite, ReviseWrite, ClaimExecution,
         LoadClaimed, RecordRead, RecordWrite, FailExecution, ConfirmFailure, FinishExecution,
         Approve, ApproveClass, RejectApproval, ReviseRead, ExecuteApproved, ghosts
  <2>3. ASSUME \/ \E b \in Approvals : \E action \in Actions \cup {NULL} : CreateApproval(b, action)
               \/ \E b, next \in Approvals : PrepareApprovalRetry(b, next)
               \/ \E status \in Moves : MoveTask(status)
               \/ PauseForShutdown \/ CompleteTaskRun \/ Crash \/ Startup
        PROVE  ran' = ran
    BY <2>3 DEF CreateApproval, PrepareApprovalRetry, MoveTask, PauseForShutdown,
                CompleteTaskRun, Crash, Startup, ghosts
  <2>4. QED
    BY <2>2, <2>3 DEF Next
<1>3. QED
  BY <1>1, <1>2, QuietStep, TypeCorrect, LedgerConsistent, PTL DEF Spec, DoneIsQuiet

-----------------------------------------------------------------------------
(* Replaced approvals *)

\* A statement changes at most one row, and not that of a replaced approval.
LEMMA FrozenProceed ==
  ASSUME TypeOK, LedgerInv, NEW c \in Clients, Proceed(c),
         NEW a \in Approvals, rows[a].retryApprovalId # NULL
  PROVE  rows'[a] = rows[a] /\ ran'[a] = ran[a]
<1>0. PICK now, b : now = call[c] /\ b = now.id
  OBVIOUS
<1>1. now # NULL /\ CallOK(c, now) /\ b \in Approvals /\ RowInv(b)
  <2>1. now # NULL
    BY <1>0 DEF Proceed, DecideRead, DecideWrite, ReviseWrite, ClaimExecution, LoadClaimed,
        Perform, RecordRead, RecordWrite, FailExecution, ConfirmFailure, FinishExecution, At
  <2>2. QED
    BY <1>0, <2>1 DEF LedgerInv, CallInv, CallOK, TypeOK
<1>2. now.pc \in Executing => rows[b].retryApprovalId = NULL
  BY <1>0, <1>1 DEF CallOK, RowInv
<1>3. CASE b = a
  <2>1. now.pc \notin Executing
    BY <1>2, <1>3
  <2>2. CASE DecideRead(c) \/ LoadClaimed(c) \/ RecordRead(c) \/ FailExecution(c) \/ ConfirmFailure(c)
    BY <2>2 DEF DecideRead, LoadClaimed, RecordRead, FailExecution, ConfirmFailure, ghosts
  <2>3. CASE DecideWrite(c)
    BY <1>0, <1>3, <2>3 DEF DecideWrite, DecideMatches
  <2>4. CASE ReviseWrite(c)
    BY <1>0, <1>3, <2>4 DEF ReviseWrite, ReviseMatches, Revisable, ghosts
  <2>5. CASE ClaimExecution(c)
    BY <1>0, <1>3, <2>5 DEF ClaimExecution, ClaimMatches, ghosts
  <2>6. CASE RecordWrite(c) \/ FinishExecution(c) \/ Perform(c)
    BY <1>0, <2>1, <2>6 DEF RecordWrite, FinishExecution, Perform, At, Executing
  <2>7. QED
    BY <2>2, <2>3, <2>4, <2>5, <2>6 DEF Proceed
<1>4. CASE b # a
  <2>1. ran'[a] = ran[a]
    BY <1>0, <1>4 DEF Proceed, DecideRead, DecideWrite, ReviseWrite, ClaimExecution, LoadClaimed,
      Perform, RecordRead, RecordWrite, FailExecution, ConfirmFailure, FinishExecution,
      ghosts, TypeOK
  <2>2. rows' = rows \/ \E row : rows' = [rows EXCEPT ![b] = row]
    BY <1>0 DEF Proceed, DecideRead, DecideWrite, ReviseWrite, ClaimExecution, LoadClaimed,
      Perform, RecordRead, RecordWrite, FailExecution, ConfirmFailure, FinishExecution
  <2>3. QED
    BY <1>4, <2>1, <2>2 DEF TypeOK
<1>5. QED
  BY <1>3, <1>4

\* A replaced approval is a record: no call still under way, no recovery and
\* no second replacement changes its row or carries out its action
\* (prepareApprovalRetry against every other statement of the repository).
THEOREM FrozenWhenReplaced == Spec => ReplacedIsFrozen
<1>1. TypeOK /\ LedgerInv /\ [Next]_vars =>
        [\A a \in Approvals : rows[a].retryApprovalId # NULL =>
           rows'[a] = rows[a] /\ ran'[a] = ran[a]]_vars
  <2> SUFFICES ASSUME TypeOK, LedgerInv, Next, NEW a \in Approvals,
                      rows[a].retryApprovalId # NULL
               PROVE  rows'[a] = rows[a] /\ ran'[a] = ran[a]
    OBVIOUS
  <2>1. RowInv(a) /\ a \in ids
    BY DEF LedgerInv, RowInv, NewRow
  <2>2. CASE \E c \in Clients : Proceed(c)
    BY <2>2, FrozenProceed
  <2>3. CASE \E c \in Clients : Request(c)
    BY <2>3 DEF Request, Approve, ApproveClass, RejectApproval, ReviseRead,
                ExecuteApproved, ghosts
  <2>4. CASE \/ \E status \in Moves : MoveTask(status)
             \/ PauseForShutdown \/ CompleteTaskRun \/ Crash
    BY <2>4 DEF MoveTask, PauseForShutdown, CompleteTaskRun, Crash, ghosts
  <2>5. CASE Startup
    <3>1. rows[a].executionState # "running"
      BY <2>1 DEF RowInv
    <3>2. QED
      BY <2>5, <3>1 DEF Startup, ghosts
  <2>6. CASE \E b \in Approvals : \E action \in Actions \cup {NULL} : CreateApproval(b, action)
    BY <2>1, <2>6 DEF CreateApproval, ghosts, TypeOK
  <2>7. ASSUME NEW b \in Approvals, NEW next \in Approvals, PrepareApprovalRetry(b, next)
        PROVE  rows'[a] = rows[a] /\ ran'[a] = ran[a]
    <3>1. a # b /\ a # next /\ ran' = ran
      BY <2>1, <2>7 DEF PrepareApprovalRetry, ghosts
    <3>2. rows' = [rows EXCEPT ![next] = NewRow(rows[b].proposedAction, TRUE),
                               ![b].retryApprovalId = next]
      BY <2>7 DEF PrepareApprovalRetry
    <3>3. QED
      BY <3>1, <3>2 DEF TypeOK
  <2>8. QED
    BY <2>2, <2>3, <2>4, <2>5, <2>6, <2>7 DEF Next
<1>2. QED
  BY <1>1, TypeCorrect, LedgerConsistent, PTL DEF Spec, ReplacedIsFrozen

-----------------------------------------------------------------------------
(* The ledger implements the consent protocol: every statement its callers *)
(* interleave is a step of Consent or a stutter.                           *)

\* The functions the consent protocol speaks of.
LEMMA Mapped ==
  ASSUME NEW a \in Approvals
  PROVE  /\ offered[a] = rows[a].proposedAction
         /\ granted[a] = IF rows[a].status \in Granted \/ rows[a].executionState # "none"
                         THEN rows[a].approvedAction ELSE NULL
         /\ phases[a] = IF a \notin ids THEN "absent"
                        ELSE IF rows[a].retryApprovalId # NULL THEN "retired"
                        ELSE IF rows[a].executionState = "none" THEN "open" ELSE "taken"
BY DEF offered, granted, phases

\* Where one row changes, the protocol's functions change at that approval.
LEMMA OneRow ==
  ASSUME NEW a \in Approvals,
         \A b \in Approvals \ {a} : rows'[b] = rows[b] /\ (b \in ids' <=> b \in ids)
  PROVE  /\ offered' = [offered EXCEPT ![a] = offered'[a]]
         /\ granted' = [granted EXCEPT ![a] = granted'[a]]
         /\ phases' = [phases EXCEPT ![a] = phases'[a]]
<1>1. \A b \in Approvals \ {a} :
        offered'[b] = offered[b] /\ granted'[b] = granted[b] /\ phases'[b] = phases[b]
  <2> TAKE b \in Approvals \ {a}
  <2>1. /\ offered[b] = rows[b].proposedAction
        /\ granted[b] = IF rows[b].status \in Granted \/ rows[b].executionState # "none"
                        THEN rows[b].approvedAction ELSE NULL
        /\ phases[b] = IF b \notin ids THEN "absent"
                       ELSE IF rows[b].retryApprovalId # NULL THEN "retired"
                       ELSE IF rows[b].executionState = "none" THEN "open" ELSE "taken"
    BY Mapped
  <2>2. /\ offered'[b] = rows'[b].proposedAction
        /\ granted'[b] = IF rows'[b].status \in Granted \/ rows'[b].executionState # "none"
                         THEN rows'[b].approvedAction ELSE NULL
        /\ phases'[b] = IF b \notin ids' THEN "absent"
                        ELSE IF rows'[b].retryApprovalId # NULL THEN "retired"
                        ELSE IF rows'[b].executionState = "none" THEN "open" ELSE "taken"
    BY DEF offered, granted, phases
  <2>3. QED
    BY <2>1, <2>2
<1>2. /\ offered = [b \in Approvals |-> offered[b]] /\ offered' = [b \in Approvals |-> offered'[b]]
      /\ granted = [b \in Approvals |-> granted[b]] /\ granted' = [b \in Approvals |-> granted'[b]]
      /\ phases = [b \in Approvals |-> phases[b]] /\ phases' = [b \in Approvals |-> phases'[b]]
  BY DEF offered, granted, phases
<1>3. QED
  BY <1>1, <1>2

\* Where no row changes what the protocol sees of it, the step is a stutter.
LEMMA SameView ==
  ASSUME \A b \in Approvals : /\ offered'[b] = offered[b] /\ granted'[b] = granted[b]
                              /\ phases'[b] = phases[b],
         effect' = effect, ran' = ran
  PROVE  UNCHANGED C!vars
<1>1. offered' = offered
  BY DEF offered
<1>2. granted' = granted
  BY DEF granted
<1>3. phases' = phases
  BY DEF phases
<1>4. QED
  BY <1>1, <1>2, <1>3 DEF C!vars

\* Initially nothing is on offer.
LEMMA InitView == Init => C!Init
<1> SUFFICES ASSUME Init PROVE C!Init
  OBVIOUS
<1>1. \A a \in Approvals : rows[a] = NewRow(NULL, FALSE) /\ a \notin ids
  BY DEF Init
<1>2. offered = [a \in Approvals |-> NULL]
  BY <1>1 DEF offered, NewRow
<1>3. granted = [a \in Approvals |-> NULL]
  BY <1>1 DEF granted, NewRow, Granted
<1>4. phases = [a \in Approvals |-> "absent"]
  BY <1>1 DEF phases
<1>5. QED
  BY <1>2, <1>3, <1>4 DEF Init, C!Init

\* decide consents to the offer, withdraws a consent, or records a decision
\* on an approval whose consent was taken up.
LEMMA DecideView ==
  ASSUME TypeOK, LedgerInv, NEW a \in ids, NEW decision \in Decision, NEW row,
         row = Decided(rows[a], decision), rows' = [rows EXCEPT ![a] = row],
         rows[a].retryApprovalId = NULL,
         decision \in Granted => rows[a].executionState = "none",
         ids' = ids, effect' = effect, ran' = ran
  PROVE  [C!Next]_(C!vars)
<1>1. a \in Approvals /\ rows[a] \in Approval /\ RowInv(a)
  BY DEF TypeOK, LedgerInv
<1>2. rows'[a] = row /\ \A b \in Approvals \ {a} : rows'[b] = rows[b]
  BY <1>1 DEF TypeOK
<1>3. /\ row.status = decision /\ row.executionState = rows[a].executionState
      /\ row.proposedAction = rows[a].proposedAction
      /\ row.retryApprovalId = rows[a].retryApprovalId
      /\ decision \in Granted => row.approvedAction = row.proposedAction
      /\ decision \notin Granted => row.approvedAction = rows[a].approvedAction
  BY <1>1 DEF Decided, Approval
<1>4. /\ offered[a] = rows[a].proposedAction
      /\ granted[a] = IF rows[a].status \in Granted \/ rows[a].executionState # "none"
                      THEN rows[a].approvedAction ELSE NULL
      /\ phases[a] = IF rows[a].executionState = "none" THEN "open" ELSE "taken"
  BY <1>1, Mapped
<1>5. /\ offered'[a] = offered[a] /\ phases'[a] = phases[a]
      /\ granted'[a] = IF decision \in Granted THEN offered[a]
                       ELSE IF rows[a].executionState # "none" THEN granted[a] ELSE NULL
  BY <1>1, <1>2, <1>3, <1>4 DEF offered, granted, phases
<1>6. /\ offered' = [offered EXCEPT ![a] = offered'[a]]
      /\ granted' = [granted EXCEPT ![a] = granted'[a]]
      /\ phases' = [phases EXCEPT ![a] = phases'[a]]
  BY <1>1, <1>2, OneRow
<1>7. offered' = offered /\ phases' = phases
  BY <1>5, <1>6 DEF offered, phases
<1>8. CASE rows[a].executionState = "none"
  <2>1. phases[a] = "open" /\ granted'[a] \in {offered[a], NULL}
    BY <1>4, <1>5, <1>8
  <2>2. C!Decide(a)
    BY <1>6, <1>7, <2>1 DEF C!Decide
  <2>3. QED
    BY <1>1, <2>2 DEF C!Next
<1>9. CASE rows[a].executionState # "none"
  <2>1. granted'[a] = granted[a]
    BY <1>5, <1>9
  <2>2. granted' = granted
    BY <1>6, <2>1 DEF granted
  <2>3. QED
    BY <1>7, <2>2 DEF C!vars
<1>10. QED
  BY <1>8, <1>9

\* An effective revision puts other content on offer.
LEMMA ReviseView ==
  ASSUME TypeOK, TypeOK', NEW a \in ids, NEW action, NEW row,
         row = Revised(rows[a], action), rows' = [rows EXCEPT ![a] = row], Revisable(rows[a]),
         ids' = ids, effect' = effect, ran' = ran
  PROVE  [C!Next]_(C!vars)
<1>1. a \in Approvals /\ rows[a] \in Approval
  BY DEF TypeOK
<1>2. rows'[a] = row /\ \A b \in Approvals \ {a} : rows'[b] = rows[b]
  BY <1>1 DEF TypeOK
<1>3. /\ row.status = "pending" /\ row.executionState = "none"
      /\ row.retryApprovalId = NULL /\ row.proposedAction \in Actions \cup {NULL}
  <2>1. rows'[a] \in Approval
    BY <1>1 DEF TypeOK
  <2>2. /\ row.status = "pending" /\ row.executionState = rows[a].executionState
        /\ row.retryApprovalId = rows[a].retryApprovalId
    BY <1>1 DEF Revised, Approval
  <2>3. QED
    BY <1>2, <2>1, <2>2 DEF Approval, Revisable
<1>4. phases[a] = "open"
  BY <1>1, Mapped DEF Revisable
<1>5. /\ offered'[a] \in Actions \cup {NULL} /\ granted'[a] = NULL /\ phases'[a] = "open"
  BY <1>1, <1>2, <1>3 DEF offered, granted, phases, Granted
<1>6. /\ offered' = [offered EXCEPT ![a] = offered'[a]]
      /\ granted' = [granted EXCEPT ![a] = NULL]
      /\ phases' = [phases EXCEPT ![a] = "open"]
  BY <1>1, <1>2, <1>5, OneRow
<1>7. C!Offer(a)
  BY <1>4, <1>5, <1>6 DEF C!Offer
<1>8. QED
  BY <1>1, <1>7 DEF C!Next

\* A claim takes the consent up.
LEMMA ClaimView ==
  ASSUME TypeOK, LedgerInv, NEW a \in ids, NEW c, NEW row,
         row = Claimed(rows[a], c), rows' = [rows EXCEPT ![a] = row],
         rows[a].executionState = "none", rows[a].retryApprovalId = NULL,
         rows[a].status \in Granted, rows[a].proposedAction # NULL,
         ids' = ids, effect' = effect, ran' = ran
  PROVE  [C!Next]_(C!vars)
<1>1. a \in Approvals /\ rows[a] \in Approval /\ RowInv(a)
  BY DEF TypeOK, LedgerInv
<1>2. rows'[a] = row /\ \A b \in Approvals \ {a} : rows'[b] = rows[b]
  BY <1>1 DEF TypeOK
<1>3. /\ row.status = rows[a].status /\ row.executionState = "running"
      /\ row.proposedAction = rows[a].proposedAction
      /\ row.approvedAction = rows[a].approvedAction
      /\ row.retryApprovalId = rows[a].retryApprovalId
  BY <1>1 DEF Claimed, Approval
<1>4. phases[a] = "open" /\ granted[a] = offered[a] /\ granted[a] # NULL
  BY <1>1, Mapped DEF RowInv
<1>5. offered'[a] = offered[a] /\ granted'[a] = granted[a] /\ phases'[a] = "taken"
  BY <1>1, <1>2, <1>3 DEF offered, granted, phases
<1>6. /\ offered' = [offered EXCEPT ![a] = offered'[a]]
      /\ granted' = [granted EXCEPT ![a] = granted'[a]]
      /\ phases' = [phases EXCEPT ![a] = "taken"]
  BY <1>1, <1>2, <1>5, OneRow
<1>7. offered' = offered /\ granted' = granted
  BY <1>5, <1>6 DEF offered, granted
<1>8. C!Take(a)
  BY <1>4, <1>6, <1>7 DEF C!Take
<1>9. QED
  BY <1>1, <1>8 DEF C!Next

\* A row that keeps what the protocol sees of it.
LEMMA QuietRow ==
  ASSUME NEW a \in Approvals, ids' = ids,
         rows'[a].proposedAction = rows[a].proposedAction,
         rows'[a].approvedAction = rows[a].approvedAction,
         rows'[a].retryApprovalId = rows[a].retryApprovalId,
         \/ rows'[a] = rows[a]
         \/ rows'[a].executionState # "none" /\ rows[a].executionState # "none"
  PROVE  /\ offered'[a] = offered[a] /\ granted'[a] = granted[a] /\ phases'[a] = phases[a]
BY DEF offered, granted, phases

\* A runner's side effect is the consented content taking effect.
LEMMA PerformView ==
  ASSUME TypeOK, LedgerInv, NEW c \in Clients, Perform(c)
  PROVE  [C!Next]_(C!vars)
<1>0. PICK now, a : now = call[c] /\ a = now.id
  OBVIOUS
<1>1. /\ now # NULL /\ now.pc = "loaded" /\ ids' = ids /\ rows' = rows
      /\ effect' = [effect EXCEPT ![a] = now.action] /\ ran' = [ran EXCEPT ![a] = @ + 1]
  BY <1>0 DEF Perform, At
<1>2. /\ a \in ids /\ a \in Approvals /\ RowInv(a)
      /\ rows[a].executionState = "running" /\ ran[a] = 0
      /\ now.action = rows[a].proposedAction
  BY <1>0, <1>1 DEF LedgerInv, CallInv, CallOK, TypeOK, Executing
<1>3. phases[a] = "taken" /\ granted[a] = now.action
  BY <1>2, Mapped DEF RowInv
<1>4. ran' = [ran EXCEPT ![a] = 1]
  BY <1>1, <1>2 DEF TypeOK
<1>5. offered' = offered /\ granted' = granted /\ phases' = phases
  BY <1>1 DEF offered, granted, phases
<1>6. C!TakeEffect(a)
  BY <1>1, <1>2, <1>3, <1>4, <1>5 DEF C!TakeEffect
<1>7. QED
  BY <1>2, <1>6 DEF C!Next

\* A new approval is a first offer.
LEMMA CreateView ==
  ASSUME TypeOK, LedgerInv, NEW a \in Approvals, NEW action \in Actions \cup {NULL},
         CreateApproval(a, action)
  PROVE  [C!Next]_(C!vars)
<1>1. /\ a \notin ids /\ ids' = ids \cup {a} /\ rows' = [rows EXCEPT ![a] = NewRow(action, FALSE)]
      /\ effect' = effect /\ ran' = ran
  BY DEF CreateApproval, ghosts
<1>2. /\ rows'[a] = NewRow(action, FALSE)
      /\ \A b \in Approvals \ {a} : rows'[b] = rows[b] /\ (b \in ids' <=> b \in ids)
  BY <1>1 DEF TypeOK
<1>3. phases[a] = "absent"
  BY <1>1, Mapped
<1>4. offered'[a] = action /\ granted'[a] = NULL /\ phases'[a] = "open"
  BY <1>1, <1>2 DEF offered, granted, phases, NewRow, Granted
<1>5. /\ offered' = [offered EXCEPT ![a] = action]
      /\ granted' = [granted EXCEPT ![a] = NULL]
      /\ phases' = [phases EXCEPT ![a] = "open"]
  BY <1>2, <1>4, OneRow
<1>6. C!Offer(a)
  BY <1>1, <1>3, <1>5 DEF C!Offer
<1>7. QED
  BY <1>6 DEF C!Next

\* A reviewed retry retires the offer and puts the same content on offer anew.
LEMMA RetryView ==
  ASSUME TypeOK, LedgerInv, NEW a \in Approvals, NEW next \in Approvals,
         PrepareApprovalRetry(a, next)
  PROVE  [C!Next]_(C!vars)
<1>0. PICK row, old : /\ row = NewRow(rows[a].proposedAction, TRUE)
                      /\ old = [rows[a] EXCEPT !.retryApprovalId = next]
  OBVIOUS
<1>1. /\ a \in ids /\ next \notin ids /\ ids' = ids \cup {next} /\ a # next
      /\ rows[a].retryApprovalId = NULL /\ effect' = effect /\ ran' = ran
  BY DEF PrepareApprovalRetry, ghosts
<1>2. rows' = [rows EXCEPT ![next] = row, ![a] = old]
  <2>1. rows' = [rows EXCEPT ![next] = NewRow(rows[a].proposedAction, TRUE),
                             ![a].retryApprovalId = next]
    BY DEF PrepareApprovalRetry
  <2>2. QED
    BY <1>0, <1>1, <2>1 DEF TypeOK
<1>3. /\ rows'[a] = old /\ rows'[next] = row
      /\ \A b \in Approvals \ {a, next} : rows'[b] = rows[b] /\ (b \in ids' <=> b \in ids)
  BY <1>1, <1>2 DEF TypeOK
<1>4. /\ old.status = rows[a].status /\ old.proposedAction = rows[a].proposedAction
      /\ old.approvedAction = rows[a].approvedAction
      /\ old.executionState = rows[a].executionState /\ old.retryApprovalId = next
  BY <1>0 DEF TypeOK, Approval
<1>5. next # NULL
  BY NullIsFresh
<1>6. /\ phases[a] \in {"open", "taken"} /\ phases[next] = "absent"
      /\ offered[a] = rows[a].proposedAction
  BY <1>1, Mapped
<1>7. /\ offered'[a] = offered[a] /\ granted'[a] = granted[a] /\ phases'[a] = "retired"
  BY <1>1, <1>3, <1>4, <1>5 DEF offered, granted, phases
<1>8. /\ row.status = "pending" /\ row.executionState = "none" /\ row.retryApprovalId = NULL
      /\ row.proposedAction = rows[a].proposedAction
  BY <1>0 DEF NewRow
<1>9. /\ offered'[next] = offered[a] /\ granted'[next] = NULL /\ phases'[next] = "open"
  BY <1>1, <1>3, <1>6, <1>8 DEF offered, granted, phases, Granted
<1>10. \A b \in Approvals \ {a, next} :
         offered'[b] = offered[b] /\ granted'[b] = granted[b] /\ phases'[b] = phases[b]
  <2> TAKE b \in Approvals \ {a, next}
  <2>1. rows'[b] = rows[b] /\ (b \in ids' <=> b \in ids)
    BY <1>3
  <2>2. QED
    BY <2>1 DEF offered, granted, phases
<1>11. /\ offered' = [offered EXCEPT ![next] = offered[a]]
       /\ granted' = [granted EXCEPT ![next] = NULL]
       /\ phases' = [phases EXCEPT ![a] = "retired", ![next] = "open"]
  <2>1. /\ offered = [b \in Approvals |-> offered[b]] /\ offered' = [b \in Approvals |-> offered'[b]]
        /\ granted = [b \in Approvals |-> granted[b]] /\ granted' = [b \in Approvals |-> granted'[b]]
        /\ phases = [b \in Approvals |-> phases[b]] /\ phases' = [b \in Approvals |-> phases'[b]]
    BY DEF offered, granted, phases
  <2>2. QED
    BY <1>1, <1>7, <1>9, <1>10, <2>1
<1>12. C!Replace(a, next)
  BY <1>1, <1>6, <1>11 DEF C!Replace
<1>13. QED
  BY <1>12 DEF C!Next

\* The steps of a call under way.
LEMMA ProceedView ==
  ASSUME TypeOK, TypeOK', LedgerInv, NEW c \in Clients, Proceed(c)
  PROVE  [C!Next]_(C!vars)
<1>0. PICK now, a : now = call[c] /\ a = now.id
  OBVIOUS
<1>1. now # NULL /\ ids' = ids
  BY <1>0 DEF Proceed, DecideRead, DecideWrite, ReviseWrite, ClaimExecution, LoadClaimed,
      Perform, RecordRead, RecordWrite, FailExecution, ConfirmFailure, FinishExecution, At
<1>2. CallOK(c, now) /\ a \in ids /\ a \in Approvals /\ RowInv(a) /\ now \in Call
      /\ rows[a] \in Approval
  BY ZenonT(40), <1>0, <1>1 DEF LedgerInv, CallInv, CallOK, TypeOK
<1>3. ASSUME rows' = rows, effect' = effect, ran' = ran PROVE [C!Next]_(C!vars)
  BY <1>1, <1>3 DEF C!vars, offered, granted, phases
<1>4. CASE DecideRead(c) \/ LoadClaimed(c) \/ RecordRead(c) \/ FailExecution(c) \/ ConfirmFailure(c)
  BY <1>3, <1>4 DEF DecideRead, LoadClaimed, RecordRead, FailExecution, ConfirmFailure, ghosts
<1>5. CASE DecideWrite(c)
  <2>1. effect' = effect /\ ran' = ran /\ now.pc = "deciding"
    BY <1>0, <1>5 DEF DecideWrite, At
  <2>2. CASE ~DecideMatches(rows[a], now.revision, now.status, now.decision, task)
    BY <1>0, <1>3, <1>5, <2>1, <2>2 DEF DecideWrite
  <2>3. CASE DecideMatches(rows[a], now.revision, now.status, now.decision, task)
    <3>1. PICK row : row = Decided(rows[a], now.decision)
      OBVIOUS
    <3>2. rows' = [rows EXCEPT ![a] = row]
      BY <1>0, <1>5, <2>3, <3>1 DEF DecideWrite
    <3>3. /\ rows[a].retryApprovalId = NULL
          /\ now.decision \in Granted => rows[a].executionState = "none"
      BY <2>3 DEF DecideMatches
    <3>4. now.decision \in Decision
      BY <1>2, <2>1 DEF Call
    <3>5. QED
      BY <1>1, <1>2, <2>1, <3>1, <3>2, <3>3, <3>4, DecideView
  <2>4. QED
    BY <2>2, <2>3
<1>6. CASE RecordWrite(c)
  <2>1. effect' = effect /\ ran' = ran
    BY <1>0, <1>6 DEF RecordWrite, ghosts
  <2>2. CASE ~DecideMatches(rows[a], now.revision, now.status, "executed", task)
    BY <1>0, <1>3, <1>6, <2>1, <2>2 DEF RecordWrite
  <2>3. CASE DecideMatches(rows[a], now.revision, now.status, "executed", task)
    <3>1. PICK row, decision : decision = "executed" /\ row = Decided(rows[a], decision)
      OBVIOUS
    <3>2. rows' = [rows EXCEPT ![a] = row]
      BY <1>0, <1>6, <2>3, <3>1 DEF RecordWrite
    <3>3. rows[a].retryApprovalId = NULL /\ decision \notin Granted /\ decision \in Decision
      BY <2>3, <3>1 DEF DecideMatches, Granted, Decision
    <3>4. QED
      BY <1>1, <1>2, <2>1, <3>1, <3>2, <3>3, DecideView
  <2>4. QED
    BY <2>2, <2>3
<1>7. CASE ReviseWrite(c)
  <2>1. effect' = effect /\ ran' = ran
    BY <1>0, <1>7 DEF ReviseWrite, ghosts
  <2>2. CASE ~ReviseMatches(rows[a], now.revision, task)
    BY <1>0, <1>3, <1>7, <2>1, <2>2 DEF ReviseWrite
  <2>3. CASE ReviseMatches(rows[a], now.revision, task)
    <3>1. PICK row, action : action = now.action /\ row = Revised(rows[a], action)
      OBVIOUS
    <3>2. rows' = [rows EXCEPT ![a] = row] /\ Revisable(rows[a])
      BY <1>0, <1>7, <2>3, <3>1 DEF ReviseWrite, ReviseMatches
    <3>3. QED
      BY <1>1, <1>2, <2>1, <3>1, <3>2, ReviseView
  <2>4. QED
    BY <2>2, <2>3
<1>8. CASE ClaimExecution(c)
  <2>1. effect' = effect /\ ran' = ran
    BY <1>0, <1>8 DEF ClaimExecution, ghosts
  <2>2. CASE ~ClaimMatches(rows[a], now.revision, task)
    BY <1>0, <1>3, <1>8, <2>1, <2>2 DEF ClaimExecution
  <2>3. CASE ClaimMatches(rows[a], now.revision, task)
    <3>1. PICK row : row = Claimed(rows[a], c)
      OBVIOUS
    <3>2. rows' = [rows EXCEPT ![a] = row]
      BY <1>0, <1>8, <2>3, <3>1 DEF ClaimExecution
    <3>3. /\ rows[a].executionState = "none" /\ rows[a].retryApprovalId = NULL
          /\ rows[a].status \in Granted /\ rows[a].proposedAction # NULL
      BY <2>3 DEF ClaimMatches
    <3>4. QED
      BY <1>1, <1>2, <2>1, <3>1, <3>2, <3>3, ClaimView
  <2>4. QED
    BY <2>2, <2>3
<1>9. CASE FinishExecution(c)
  <2>1. /\ effect' = effect /\ ran' = ran /\ now.pc \in {"recorded", "confirmed", "failed"}
    BY <1>0, <1>9 DEF FinishExecution, At, ghosts
  <2>2. OutcomeOf(now.pc) # "none"
    BY <2>1 DEF OutcomeOf
  <2>3. rows[a].executionState = "running"
    BY <1>0, <1>2, <2>1 DEF CallOK, Executing
  <2>4. PICK row : row = Finished(rows[a], OutcomeOf(now.pc))
    OBVIOUS
  <2>5. rows' = rows \/ rows' = [rows EXCEPT ![a] = row]
    BY <1>0, <1>9, <2>4 DEF FinishExecution
  <2>6. CASE rows' = [rows EXCEPT ![a] = row]
    <3>1. rows'[a] = row /\ \A b \in Approvals \ {a} : rows'[b] = rows[b]
      BY <1>2, <2>6 DEF TypeOK
    <3>2. /\ row.executionState = OutcomeOf(now.pc)
          /\ row.proposedAction = rows[a].proposedAction
          /\ row.approvedAction = rows[a].approvedAction
          /\ row.retryApprovalId = rows[a].retryApprovalId
      BY <1>2, <2>4 DEF Finished, Approval
    <3>3. rows'[a].executionState # "none" /\ rows[a].executionState # "none"
      BY <2>2, <2>3, <3>1, <3>2
    <3>4. /\ rows'[a].proposedAction = rows[a].proposedAction
          /\ rows'[a].approvedAction = rows[a].approvedAction
          /\ rows'[a].retryApprovalId = rows[a].retryApprovalId
      BY <3>1, <3>2
    <3>5. ASSUME NEW b \in Approvals
          PROVE  offered'[b] = offered[b] /\ granted'[b] = granted[b] /\ phases'[b] = phases[b]
      <4>1. CASE b = a
        BY <1>1, <3>3, <3>4, <4>1, QuietRow
      <4>2. CASE b # a
        BY <1>1, <3>1, <4>2, QuietRow
      <4>3. QED
        BY <4>1, <4>2
    <3>6. QED
      BY <2>1, <3>5, SameView
  <2>7. QED
    BY <1>3, <2>1, <2>5, <2>6
<1>10. CASE Perform(c)
  BY <1>10, PerformView
<1>11. QED
  BY <1>4, <1>5, <1>6, <1>7, <1>8, <1>9, <1>10 DEF Proceed

\* A startup declares lost claims uncertain, which the protocol does not see.
LEMMA StartupView ==
  ASSUME TypeOK, Startup
  PROVE  [C!Next]_(C!vars)
<1>1. ids' = ids /\ effect' = effect /\ ran' = ran
  BY DEF Startup, ghosts
<1>2. ASSUME NEW b \in Approvals
      PROVE  offered'[b] = offered[b] /\ granted'[b] = granted[b] /\ phases'[b] = phases[b]
  <2>1. CASE rows[b].executionState # "running"
    <3>1. rows'[b] = rows[b]
      BY <2>1 DEF Startup
    <3>2. QED
      BY <1>1, <3>1, QuietRow
  <2>2. CASE rows[b].executionState = "running"
    <3>1. rows'[b] = [rows[b] EXCEPT !.executionState = "uncertain"]
      BY <2>2 DEF Startup
    <3>2. /\ rows'[b].executionState = "uncertain"
          /\ rows'[b].proposedAction = rows[b].proposedAction
          /\ rows'[b].approvedAction = rows[b].approvedAction
          /\ rows'[b].retryApprovalId = rows[b].retryApprovalId
      BY <3>1 DEF TypeOK, Approval
    <3>3. QED
      BY <1>1, <2>2, <3>2, QuietRow
  <2>3. QED
    BY <2>1, <2>2
<1>3. QED
  BY <1>1, <1>2, SameView

\* Every step of the ledger is a step of the protocol or a stutter.
LEMMA NextView == TypeOK /\ TypeOK' /\ LedgerInv /\ [Next]_vars => [C!Next]_(C!vars)
<1> SUFFICES ASSUME TypeOK, TypeOK', LedgerInv, [Next]_vars PROVE [C!Next]_(C!vars)
  OBVIOUS
<1>1. ASSUME ids' = ids, rows' = rows, effect' = effect, ran' = ran PROVE [C!Next]_(C!vars)
  BY <1>1 DEF C!vars, offered, granted, phases
<1>2. CASE UNCHANGED vars
  BY <1>1, <1>2 DEF vars
<1>3. CASE \E c \in Clients : Proceed(c)
  BY <1>3, ProceedView
<1>4. CASE \E c \in Clients : Request(c)
  BY <1>1, <1>4 DEF Request, Approve, ApproveClass, RejectApproval, ReviseRead,
                    ExecuteApproved, ghosts
<1>5. CASE \/ \E status \in Moves : MoveTask(status)
           \/ PauseForShutdown \/ CompleteTaskRun \/ Crash
  BY <1>1, <1>5 DEF MoveTask, PauseForShutdown, CompleteTaskRun, Crash, ghosts
<1>6. QED
  BY <1>2, <1>3, <1>4, <1>5, CreateView, RetryView, StartupView DEF Next

\* decide, setProposedAction, claimExecution, finishExecution,
\* prepareApprovalRetry and the startup together implement the consent
\* protocol, whatever calls interleave them and whenever the process dies.
THEOREM LedgerImplementsConsent == Spec => HonoursConsent
<1>1. Init => C!Init
  BY InitView
<1>2. TypeOK /\ TypeOK' /\ LedgerInv /\ [Next]_vars => [C!Next]_(C!vars)
  BY NextView
<1>3. QED
  BY <1>1, <1>2, TypeCorrect, LedgerConsistent, PTL DEF Spec, HonoursConsent, C!Spec
=============================================================================
