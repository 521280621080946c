CONSTANTS
  Approvals = {a1, a2}
  Actions = {x}
  Tokens = {c1, c2}
  HostActions = {a1, a2}
  MaxRevision = 1
  Moves = {"blocked"}
  NULL = NULL
SPECIFICATION FairSpec
PROPERTIES ClaimsSettle ReplacedIsFrozen HonoursConsent
CHECK_DEADLOCK FALSE
