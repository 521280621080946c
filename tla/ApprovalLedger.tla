--------------------------- MODULE ApprovalLedger ---------------------------
(***************************************************************************)
(* The approval ledger of one TaskRun under concurrent calls.              *)
(*                                                                         *)
(* A client is one asynchronous call in flight: an IPC handler or a host   *)
(* service approving, rejecting, revising or executing an approval.  Calls *)
(* interleave at every await, also across several RunnerService instances  *)
(* and database connections, so what a call has read may be stale when its *)
(* UPDATE runs.  The process may die at any moment; startup then turns the *)
(* claims it finds running into uncertain ones.                            *)
(*                                                                         *)
(* consent, effect and ran are history variables: what the approver saw    *)
(* when the last grant was written, the content whose side effect took     *)
(* place, and how many side effects an approval has had.                   *)
(***************************************************************************)
EXTENDS ApprovalRows

CONSTANTS HostActions,   \* approvals of shell and file_delete actions
          MaxRevision,   \* bound on actionRevision
          Moves          \* statuses the services move the task to

ASSUME LedgerAssumption ==
  /\ HostActions \subseteq Approvals
  /\ MaxRevision \in Nat \ {0}
  /\ Moves \subseteq TaskStatus \ {"done"}

Clients == Tokens        \* an execution's token identifies the call that made it

VARIABLES
  task,       \* status of the TaskRun
  ids,        \* approvals that exist
  rows,       \* the approvals table
  call,       \* what each client is doing
  up,         \* the application process runs
  consent,    \* history: the last grant of an approval, as the approver saw it
  effect,     \* history: content of an approval's last side effect
  ran         \* history: number of side effects per approval

vars == <<task, ids, rows, call, up, consent, effect, ran>>
ghosts == <<consent, effect, ran>>

PC == {"checked", "deciding", "revising", "found", "claimed", "loaded",
       "performed", "recording", "recorded", "confirmed", "failed"}

Call == {now \in
  [pc       : PC,
   id       : Approvals,
   decision : Decision \cup {NULL},      \* the decision under way
   auto     : BOOLEAN,                   \* approving under an auto-approve decision
   revision : Nat,                       \* as read
   status   : Decision \cup {"pending"}, \* as read by decide
   action   : Actions \cup {NULL},       \* as read, or the revised content
   rest     : SUBSET [id : Approvals, revision : Nat, action : Actions \cup {NULL}]] :
  now.pc \in {"checked", "deciding"} => now.decision # NULL}

\* What was consented to, and whether an auto-approve decision stood in for
\* the person.
Consents == [action : Actions \cup {NULL}, auto : BOOLEAN]

ASSUME NullIsNoConsent == NULL \notin Consents

\* The program counters of a call that holds a claim.
Executing == {"claimed", "loaded", "performed", "recording", "recorded", "confirmed", "failed"}

Idle(c) == call[c] = NULL
At(c, pc) == call[c] # NULL /\ call[c].pc = pc
Holds(c, a) == call[c] # NULL /\ call[c].pc \in Executing /\ call[c].id = a

\* manualOnly: approvals no automatic or class-wide consent may cover.
ManualOnly(a) == a \in HostActions \/ rows[a].requiresManual

TypeOK ==
  /\ task \in TaskStatus
  /\ ids \subseteq Approvals
  /\ rows \in [Approvals -> Approval]
  /\ call \in [Clients -> Call \cup {NULL}]
  /\ up \in BOOLEAN
  /\ consent \in [Approvals -> Consents \cup {NULL}]
  /\ effect \in [Approvals -> Actions \cup {NULL}]
  /\ ran \in [Approvals -> Nat]

Init ==
  /\ task = "drafting"
  /\ ids = {}
  /\ rows = [a \in Approvals |-> NewRow(NULL, FALSE)]
  /\ call = [c \in Clients |-> NULL]
  /\ up = TRUE
  /\ consent = [a \in Approvals |-> NULL]
  /\ effect = [a \in Approvals |-> NULL]
  /\ ran = [a \in Approvals |-> 0]

-----------------------------------------------------------------------------
(* Rows come and go; the task moves *)

\* A plan, a worker or a redirect proposes an action.
CreateApproval(a, action) ==
  /\ up /\ a \notin ids
  /\ ids' = ids \cup {a}
  /\ rows' = [rows EXCEPT ![a] = NewRow(action, FALSE)]
  /\ UNCHANGED <<task, call, up, ghosts>>

\* prepareApprovalRetry: review of an attempt retires it in favour of a fresh
\* pending approval of the same action, which only a person may grant.
PrepareApprovalRetry(a, next) ==
  /\ up /\ a \in ids /\ next \notin ids
  /\ next \in HostActions <=> a \in HostActions
  /\ task \notin Closed \cup {"paused"}
  /\ rows[a].retryApprovalId = NULL
  /\ Reviewable(rows[a], task)
  /\ \A b \in ids : rows[b].executionState # "running"
  /\ rows[a].status \in Granted \cup {"executed"}
  /\ rows[a].proposedAction # NULL
  /\ ids' = ids \cup {next}
  /\ rows' = [rows EXCEPT ![next] = NewRow(rows[a].proposedAction, TRUE),
                          ![a].retryApprovalId = next]
  /\ task' = "waiting_for_approval"
  /\ UNCHANGED <<call, up, ghosts>>

\* setTaskRunStatus by any of the services, along the transition table.
MoveTask(status) ==
  /\ up /\ Allowed(task, status)
  /\ task' = status
  /\ UNCHANGED <<ids, rows, call, up, ghosts>>

\* Shutdown writes paused without asking the transition table.
PauseForShutdown ==
  /\ up /\ task \notin Closed \cup {"paused"}
  /\ task' = "paused"
  /\ UNCHANGED <<ids, rows, call, up, ghosts>>

\* completeTaskRun: the only way to done.
CompleteTaskRun ==
  /\ up /\ task = "ready_for_review"
  /\ \A a \in ids : ~Unsettled(rows[a])
  /\ task' = "done"
  /\ UNCHANGED <<ids, rows, call, up, ghosts>>

-----------------------------------------------------------------------------
(* Deciding: approve and reject *)

\* A call about approval a that remembers nothing else.
NewCall(pc, a) ==
  [pc |-> pc, id |-> a, decision |-> NULL, auto |-> FALSE, revision |-> 0,
   status |-> "pending", action |-> NULL, rest |-> {}]

\* An approval that remembers the revision and the content it is about.
Approving(a, decision, auto) ==
  [NewCall("checked", a) EXCEPT
     !.decision = decision, !.auto = auto,
     !.revision = rows[a].actionRevision, !.action = rows[a].proposedAction]

\* ConversationService.approve up to its call of decideApproval: the revision
\* shown is the current one, and a manual-only approval needs a person.
Approve(c, a, auto) ==
  /\ up /\ Idle(c) /\ a \in ids
  /\ auto => ~ManualOnly(a)
  /\ call' = [call EXCEPT ![c] = Approving(a, "approved", auto)]
  /\ UNCHANGED <<task, ids, rows, up, ghosts>>

\* The same with scope run_action_class: every pending approval of the class
\* that does not require a person is listed with its revision, and each is
\* decided in turn.
ApproveClass(c, a, auto) ==
  /\ up /\ Idle(c) /\ a \in ids /\ ~ManualOnly(a)
  /\ LET class == {a} \cup {b \in ids : rows[b].status = "pending" /\ ~ManualOnly(b)}
     IN  \E first \in class :
           call' = [call EXCEPT ![c] =
             [Approving(first, "always_approved_for_run", auto) EXCEPT !.rest =
                {[id |-> b, revision |-> rows[b].actionRevision,
                  action |-> rows[b].proposedAction] : b \in class \ {first}}]]
  /\ UNCHANGED <<task, ids, rows, up, ghosts>>

\* The read of decide.  A call whose checks fail throws, and the loop of
\* run_action_class with it.
DecideRead(c) ==
  /\ up /\ At(c, "checked")
  /\ LET row == rows[call[c].id]
     IN  call' = [call EXCEPT ![c] =
           IF Decidable(row, @.decision) /\ row.actionRevision = @.revision
           THEN [@ EXCEPT !.pc = "deciding", !.status = row.status]
           ELSE NULL]
  /\ UNCHANGED <<task, ids, rows, up, ghosts>>

\* rejectApproval, and the rejections of redirect, cancel and the host: a
\* read of decide that expects no revision.
RejectApproval(c, a) ==
  /\ up /\ Idle(c) /\ a \in ids
  /\ Decidable(rows[a], "rejected")
  /\ call' = [call EXCEPT ![c] = [NewCall("deciding", a) EXCEPT
                 !.decision = "rejected", !.revision = rows[a].actionRevision,
                 !.status = rows[a].status]]
  /\ UNCHANGED <<task, ids, rows, up, ghosts>>

\* The next approval of a class, or the end of the call.
Continue(now) ==
  IF now.rest = {} THEN {NULL}
  ELSE {[now EXCEPT !.pc = "checked", !.id = x.id, !.revision = x.revision,
                    !.action = x.action, !.status = "pending",
                    !.rest = now.rest \ {x}] : x \in now.rest}

\* The UPDATE of decide.
DecideWrite(c) ==
  /\ up /\ At(c, "deciding")
  /\ LET now == call[c]
         row == rows[now.id]
     IN  IF DecideMatches(row, now.revision, now.status, now.decision, task)
         THEN /\ rows' = [rows EXCEPT ![now.id] = Decided(row, now.decision)]
              /\ consent' = IF now.decision \in Granted
                            THEN [consent EXCEPT ![now.id] =
                                    [action |-> now.action, auto |-> now.auto]]
                            ELSE consent
              /\ \E next \in Continue(now) : call' = [call EXCEPT ![c] = next]
         ELSE /\ call' = [call EXCEPT ![c] = NULL]
              /\ UNCHANGED <<rows, consent>>
  /\ UNCHANGED <<task, ids, up, effect, ran>>

-----------------------------------------------------------------------------
(* Revising: setProposedAction *)

ReviseRead(c, a, action) ==
  /\ up /\ Idle(c) /\ a \in ids
  /\ Revisable(rows[a]) /\ rows[a].actionRevision < MaxRevision
  /\ call' = [call EXCEPT ![c] = [NewCall("revising", a) EXCEPT
                 !.revision = rows[a].actionRevision, !.action = action]]
  /\ UNCHANGED <<task, ids, rows, up, ghosts>>

ReviseWrite(c) ==
  /\ up /\ At(c, "revising")
  /\ LET now == call[c]
         row == rows[now.id]
     IN  rows' = IF ReviseMatches(row, now.revision, task)
                 THEN [rows EXCEPT ![now.id] = Revised(row, now.action)]
                 ELSE rows
  /\ call' = [call EXCEPT ![c] = NULL]
  /\ UNCHANGED <<task, ids, up, ghosts>>

-----------------------------------------------------------------------------
(* Executing: RunnerService.executeApproved around the claim *)

\* The approval is read, and found granted.
ExecuteApproved(c, a) ==
  /\ up /\ Idle(c) /\ a \in ids
  /\ rows[a].status \in Granted /\ rows[a].proposedAction # NULL
  /\ call' = [call EXCEPT ![c] = [NewCall("found", a) EXCEPT
                 !.revision = rows[a].actionRevision]]
  /\ UNCHANGED <<task, ids, rows, up, ghosts>>

ClaimExecution(c) ==
  /\ up /\ At(c, "found")
  /\ LET a == call[c].id
     IN  IF ClaimMatches(rows[a], call[c].revision, task)
         THEN /\ rows' = [rows EXCEPT ![a] = Claimed(rows[a], c)]
              /\ call' = [call EXCEPT ![c] = NewCall("claimed", a)]
         ELSE /\ call' = [call EXCEPT ![c] = NULL]
              /\ UNCHANGED rows
  /\ UNCHANGED <<task, ids, up, ghosts>>

\* The claimed row is read again; its content is what will be executed.
LoadClaimed(c) ==
  /\ up /\ At(c, "claimed")
  /\ LET row == rows[call[c].id]
     IN  call' = [call EXCEPT ![c] =
           IF row.status \in Granted
           THEN [NewCall("loaded", @.id) EXCEPT !.action = row.proposedAction]
           ELSE NewCall("failed", @.id)]
  /\ UNCHANGED <<task, ids, rows, up, ghosts>>

\* The side effect: a file is written, a command runs.
Perform(c) ==
  /\ up /\ At(c, "loaded")
  /\ call' = [call EXCEPT ![c] = NewCall("performed", @.id)]
  /\ effect' = [effect EXCEPT ![call[c].id] = call[c].action]
  /\ ran' = [ran EXCEPT ![call[c].id] = @ + 1]
  /\ UNCHANGED <<task, ids, rows, up, consent>>

\* A refused transition, an abort, an artifact that cannot be stored: the
\* execution stops wherever it is, and its outcome is not known.
FailExecution(c) ==
  /\ up /\ \E pc \in {"claimed", "loaded", "performed", "recorded", "confirmed"} : At(c, pc)
  /\ call' = [call EXCEPT ![c] = NewCall("failed", @.id)]
  /\ UNCHANGED <<task, ids, rows, up, ghosts>>

\* A checker exited non-zero and its inputs did not change meanwhile.
ConfirmFailure(c) ==
  /\ up /\ At(c, "performed") /\ call[c].id \in HostActions
  /\ call' = [call EXCEPT ![c] = NewCall("confirmed", @.id)]
  /\ UNCHANGED <<task, ids, rows, up, ghosts>>

\* decideApproval(id, "executed"): read, then UPDATE.
RecordRead(c) ==
  /\ up /\ At(c, "performed")
  /\ LET row == rows[call[c].id]
     IN  call' = [call EXCEPT ![c] =
           IF Decidable(row, "executed")
           THEN [@ EXCEPT !.pc = "recording", !.status = row.status,
                          !.revision = row.actionRevision]
           ELSE NewCall("failed", @.id)]
  /\ UNCHANGED <<task, ids, rows, up, ghosts>>

RecordWrite(c) ==
  /\ up /\ At(c, "recording")
  /\ LET now == call[c]
         row == rows[now.id]
     IN  IF DecideMatches(row, now.revision, now.status, "executed", task)
         THEN /\ rows' = [rows EXCEPT ![now.id] = Decided(row, "executed")]
              /\ call' = [call EXCEPT ![c] = NewCall("recorded", @.id)]
         ELSE /\ call' = [call EXCEPT ![c] = NewCall("failed", @.id)]
              /\ UNCHANGED rows
  /\ UNCHANGED <<task, ids, up, ghosts>>

OutcomeOf(pc) == CASE pc = "recorded" -> "succeeded"
                   [] pc = "confirmed" -> "failed"
                   [] pc = "failed" -> "uncertain"

FinishExecution(c) ==
  /\ up /\ \E pc \in {"recorded", "confirmed", "failed"} : At(c, pc)
  /\ LET a == call[c].id
     IN  rows' = IF FinishMatches(rows[a], c)
                 THEN [rows EXCEPT ![a] = Finished(rows[a], OutcomeOf(call[c].pc))]
                 ELSE rows
  /\ call' = [call EXCEPT ![c] = NULL]
  /\ UNCHANGED <<task, ids, up, ghosts>>

-----------------------------------------------------------------------------
(* The process dies and is started again *)

Crash ==
  /\ up
  /\ up' = FALSE
  /\ call' = [c \in Clients |-> NULL]
  /\ UNCHANGED <<task, ids, rows, ghosts>>

\* Slips: startup makes lost claims available again, or leaves them alone.
StartupReplays ==
  /\ ~up
  /\ up' = TRUE
  /\ rows' = [a \in Approvals |->
                IF rows[a].executionState = "running"
                THEN [rows[a] EXCEPT !.executionState = "none"] ELSE rows[a]]
  /\ UNCHANGED <<task, ids, call, ghosts>>
StartupForgets ==
  /\ ~up
  /\ up' = TRUE
  /\ UNCHANGED <<task, ids, rows, call, ghosts>>

\* A lost claim is never replayed: the external effect may already exist.
Startup ==
  /\ ~up
  /\ up' = TRUE
  /\ rows' = [a \in Approvals |->
                IF rows[a].executionState = "running"
                THEN [rows[a] EXCEPT !.executionState = "uncertain"] ELSE rows[a]]
  /\ UNCHANGED <<task, ids, call, ghosts>>

-----------------------------------------------------------------------------
\* The steps of a call under way.
Proceed(c) ==
  \/ DecideRead(c) \/ DecideWrite(c) \/ ReviseWrite(c) \/ ClaimExecution(c)
  \/ LoadClaimed(c) \/ Perform(c) \/ RecordRead(c) \/ RecordWrite(c)
  \/ FailExecution(c) \/ ConfirmFailure(c) \/ FinishExecution(c)

\* The calls that may arrive.
Request(c) ==
  \E a \in Approvals :
    \/ \E auto \in BOOLEAN : Approve(c, a, auto) \/ ApproveClass(c, a, auto)
    \/ RejectApproval(c, a)
    \/ \E action \in Actions : ReviseRead(c, a, action)
    \/ ExecuteApproved(c, a)

Next ==
  \/ \E c \in Clients : Proceed(c) \/ Request(c)
  \/ \E a \in Approvals : \E action \in Actions \cup {NULL} : CreateApproval(a, action)
  \/ \E a, next \in Approvals : PrepareApprovalRetry(a, next)
  \/ \E status \in Moves : MoveTask(status)
  \/ PauseForShutdown
  \/ CompleteTaskRun
  \/ Crash
  \/ Startup

Spec == Init /\ [][Next]_vars

\* Every await of a call under way is resumed, a started runner process ends
\* (the runners enforce timeouts), and the application is started again.
Fairness == /\ \A c \in Clients : WF_vars(Proceed(c))
            /\ WF_vars(Startup)

FairSpec == Spec /\ Fairness
-----------------------------------------------------------------------------
(* Safety *)

\* What took effect is what somebody agreed to: the content of every side
\* effect was shown to an approver who granted it at that revision, and where
\* only a person may consent (host actions, replacements, actions changed
\* after a grant) the grant was not automatic.  Guards the whole path from
\* approve over decide and claimExecution to the runner's second read.
EffectsWereConsented ==
  \A a \in Approvals : effect[a] # NULL =>
    /\ consent[a] # NULL
    /\ consent[a].action = effect[a]
    /\ consent[a].auto => ~ManualOnly(a)

\* One approval, one side effect, whatever calls race for it and however
\* often the process dies while it runs.
RanAtMostOnce == \A a \in Approvals : ran[a] <= 1

\* A replaced approval is a record: no call still under way and no recovery
\* changes its row or carries out its action after prepareApprovalRetry.
ReplacedIsFrozen ==
  [][\A a \in Approvals : rows[a].retryApprovalId # NULL =>
       rows'[a] = rows[a] /\ ran'[a] = ran[a]]_vars

\* Nothing happens behind a finished task: while it is done no approval's
\* action is carried out, although approvals may still be created, decided
\* and executed calls may still be under way when completeTaskRun runs.
DoneIsQuiet == [][task = "done" => ran' = ran]_vars

(* The inductive invariant behind the safety properties *)

\* A row that was granted carries a copy of what was granted, a claimed row
\* carries the same for good, and the token names the call that claimed it.
RowInv(a) ==
  LET row == rows[a] IN
  /\ row.status \in Granted \/ row.executionState # "none" =>
       /\ row.approvedRevision = row.actionRevision
       /\ row.approvedAction = row.proposedAction
       /\ consent[a] # NULL
       /\ consent[a].action = row.approvedAction
       /\ consent[a].auto => ~ManualOnly(a)
  /\ row.executionState # "none" =>
       row.executionToken # NULL /\ row.proposedAction # NULL
  /\ row.executionState = "none" => ran[a] = 0 /\ effect[a] = NULL
  /\ row.executionState = "running" => row.retryApprovalId = NULL
  /\ ran[a] <= 1
  /\ ran[a] = 0 => effect[a] = NULL
  /\ effect[a] # NULL => effect[a] = row.proposedAction
  /\ a \notin ids => row = NewRow(NULL, FALSE)

\* What an approver was shown is what the row still says, unless the action
\* was revised meanwhile.
Shown(a, revision, action, auto) ==
  /\ revision <= rows[a].actionRevision
  /\ revision = rows[a].actionRevision =>
       action = rows[a].proposedAction /\ (auto => ~ManualOnly(a))

\* A call that executes holds the claim of a running row, and has not carried
\* out the action before its program counter says so; a call that approves
\* remembers what its approver was shown of every approval it will decide.
CallOK(c, now) ==
  /\ now.id \in ids
  /\ \A x \in now.rest : x.id \in ids
  /\ now.pc \in Executing =>
       /\ now.decision = NULL
       /\ rows[now.id].executionState = "running"
       /\ rows[now.id].executionToken = c
  /\ now.pc \in {"claimed", "loaded"} => ran[now.id] = 0
  /\ now.pc = "loaded" => now.action = rows[now.id].proposedAction
  /\ now.decision \in Granted =>
       /\ Shown(now.id, now.revision, now.action, now.auto)
       /\ \A x \in now.rest : Shown(x.id, x.revision, x.action, TRUE)

CallInv(c) == call[c] # NULL => CallOK(c, call[c])

LedgerInv ==
  /\ \A a \in Approvals : RowInv(a)
  /\ \A c \in Clients : CallInv(c)
  /\ ~up => \A c \in Clients : call[c] = NULL

(* Liveness *)

\* No claim is held for ever: an execution that starts ends, fails, or is
\* declared uncertain by the next startup.
ClaimsSettle ==
  \A a \in Approvals : rows[a].executionState = "running" ~>
                          rows[a].executionState # "running"

-----------------------------------------------------------------------------
(* What the ledger promises *)

offered == [a \in Approvals |-> rows[a].proposedAction]

\* A consent stands while the row says so, and once it is claimed for good.
granted == [a \in Approvals |->
  IF rows[a].status \in Granted \/ rows[a].executionState # "none"
  THEN rows[a].approvedAction ELSE NULL]

phases == [a \in Approvals |->
  CASE a \notin ids -> "absent"
    [] a \in ids /\ rows[a].retryApprovalId # NULL -> "retired"
    [] a \in ids /\ rows[a].retryApprovalId = NULL ->
         IF rows[a].executionState = "none" THEN "open" ELSE "taken"]

C == INSTANCE Consent WITH offer <- offered, grant <- granted, phase <- phases

\* The ledger implements the consent protocol: every statement its callers
\* interleave is a step of it or changes nothing it speaks of.
HonoursConsent == C!Spec
=============================================================================
