CONSTANTS
  Approvals = {a1}
  Actions = {x, y}
  Tokens = {c1, c2, c3}
  HostActions = {}
  MaxRevision = 2
  Moves = {"blocked", "ready_for_review", "cancelled"}
  NULL = NULL
SPECIFICATION Spec
SYMMETRY Symmetry
INVARIANTS TypeOK LedgerInv EffectsWereConsented RanAtMostOnce
PROPERTY DoneIsQuiet
CHECK_DEADLOCK FALSE
