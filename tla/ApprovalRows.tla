---------------------------- MODULE ApprovalRows ----------------------------
(***************************************************************************)
(* The rows of the approvals table and the SQL statements of               *)
(* SqliteApprovalRepository that change them.  Each statement is atomic    *)
(* (better-sqlite3 is synchronous); what a caller does between two of them *)
(* is not, so a statement comes as a pair: the WHERE clause that decides   *)
(* whether it applies, and the row it leaves behind.                       *)
(***************************************************************************)
EXTENDS Naturals, TaskRunStatus

CONSTANTS Approvals,    \* ids of approval rows
          Actions,      \* contents of a proposed action (a file body, a command)
          Tokens,       \* execution tokens
          NULL          \* SQL NULL

ASSUME NullIsFresh == NULL \notin Approvals \cup Actions \cup Tokens

Granted == {"approved", "always_approved_for_run"}
Decision == Granted \cup {"rejected", "executed"}
Outcome == {"succeeded", "failed", "uncertain"}

ASSUME NullIsNoDecision == NULL \notin Decision

Approval ==
  [status           : Decision \cup {"pending"},
   actionRevision   : Nat,
   proposedAction   : Actions \cup {NULL},
   approvedRevision : Nat,                      \* 0 stands for NULL
   approvedAction   : Actions \cup {NULL},
   requiresManual   : BOOLEAN,
   executionState   : Outcome \cup {"none", "running"},
   executionToken   : Tokens \cup {NULL},
   retryApprovalId  : Approvals \cup {NULL}]

\* createSync: a fresh pending row, with or without a proposed action.
NewRow(action, manual) ==
  [status |-> "pending", actionRevision |-> 1, proposedAction |-> action,
   approvedRevision |-> 0, approvedAction |-> NULL, requiresManual |-> manual,
   executionState |-> "none", executionToken |-> NULL, retryApprovalId |-> NULL]

-----------------------------------------------------------------------------
(* decide *)

\* What decide checks on the row it has read.
Decidable(row, decision) ==
  /\ row.retryApprovalId = NULL
  /\ decision \in Granted => row.status = "pending" /\ row.executionState = "none"
  /\ decision = "rejected" =>
       /\ row.executionState = "none"
       /\ row.status \notin {"executed", "rejected"}

\* A slip: the swap compares the status only.
DecideAnyRevision(row, revision, status, decision, task) ==
  /\ row.status = status
  /\ row.retryApprovalId = NULL
  /\ decision \in Granted => row.executionState = "none"
  /\ task \notin Closed

\* The WHERE clause of its UPDATE; revision and status are the ones it has read.
DecideMatches(row, revision, status, decision, task) ==
  /\ row.actionRevision = revision
  /\ row.status = status
  /\ row.retryApprovalId = NULL
  /\ decision \in Granted => row.executionState = "none"
  /\ task \notin Closed

Decided(row, decision) ==
  IF decision \in Granted
  THEN [row EXCEPT !.status = decision,
                   !.approvedRevision = row.actionRevision,
                   !.approvedAction = row.proposedAction]
  ELSE [row EXCEPT !.status = decision]

-----------------------------------------------------------------------------
(* setProposedAction *)

Revisable(row) ==
  /\ row.retryApprovalId = NULL
  /\ row.executionState = "none"
  /\ row.status \notin {"executed", "rejected"}

ReviseMatches(row, revision, task) ==
  /\ row.actionRevision = revision
  /\ Revisable(row)
  /\ task \notin Closed

\* A slip: a revision leaves the consent standing.
RevisedKeepingConsent(row, action) ==
  [row EXCEPT !.proposedAction = action, !.actionRevision = row.actionRevision + 1]

Revised(row, action) ==
  [row EXCEPT !.proposedAction = action,
              !.actionRevision = row.actionRevision + 1,
              !.requiresManual = row.requiresManual \/ row.status \in Granted,
              !.status = "pending",
              !.approvedRevision = 0,
              !.approvedAction = NULL]

-----------------------------------------------------------------------------
(* claimExecution and finishExecution *)

\* Slips: a claim that does not ask whether there was one before, and a claim
\* that does not ask whether the approval was replaced.
ClaimAgain(row, revision, task) ==
  /\ row.actionRevision = revision
  /\ row.approvedRevision = row.actionRevision
  /\ row.proposedAction # NULL
  /\ row.approvedAction = row.proposedAction
  /\ row.executionState # "running"
  /\ row.retryApprovalId = NULL
  /\ row.status \in Granted
  /\ task \notin Closed
ClaimReplaced(row, revision, task) ==
  /\ row.actionRevision = revision
  /\ row.approvedRevision = row.actionRevision
  /\ row.proposedAction # NULL
  /\ row.approvedAction = row.proposedAction
  /\ row.executionState = "none"
  /\ row.status \in Granted
  /\ task \notin Closed

ClaimMatches(row, revision, task) ==
  /\ row.actionRevision = revision
  /\ row.approvedRevision = row.actionRevision
  /\ row.proposedAction # NULL                 \* NULL = NULL is not true in SQL
  /\ row.approvedAction = row.proposedAction
  /\ row.executionState = "none"
  /\ row.retryApprovalId = NULL
  /\ row.status \in Granted
  /\ task \notin Closed

Claimed(row, token) ==
  [row EXCEPT !.executionState = "running", !.executionToken = token]

FinishMatches(row, token) ==
  /\ row.executionToken = token
  /\ row.executionState = "running"

\* A slip: the outcome of the attempt is written over the decision.
FinishedOverDecision(row, outcome) ==
  [row EXCEPT !.executionState = outcome,
              !.status = IF outcome # "succeeded" THEN outcome ELSE row.status]

Finished(row, outcome) ==
  [row EXCEPT !.executionState = outcome,
              !.status = IF outcome = "failed" THEN "executed" ELSE row.status]

-----------------------------------------------------------------------------
(* Predicates over rows shared by the services *)

\* canReviewApprovalExecution
Reviewable(row, task) ==
  \/ task \in {"blocked", "quality_failed"}
  \/ task = "ready_for_review" /\ row.executionState = "uncertain"

\* A slip: only outcomes and decisions are looked at, not claims under way.
UnsettledOutcome(row) ==
  /\ row.retryApprovalId = NULL
  /\ \/ row.executionState = "uncertain"
     \/ row.status \in Granted \cup {"pending"}

\* The rows completeTaskRun refuses to finish a task with.
Unsettled(row) ==
  /\ row.retryApprovalId = NULL
  /\ \/ row.executionState \in {"running", "uncertain"}
     \/ row.status \in Granted \cup {"pending"}
=============================================================================
