------------------------ MODULE MCWorkspaceEvidence ------------------------
(* Small instances of workspace evidence for TLC. *)
EXTENDS WorkspaceEvidence, TLC

CONSTANTS user, host

\* The user takes the risks of a verdict and asks for completion while the host
\* judges and completes.
TwoCallers == user :> {"risks", "done"} @@ host :> {"auto"}
=============================================================================
