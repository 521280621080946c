SPECIFICATION FairSpec
CONSTANTS
  Actions = {c, w}
  Checks = {c}
  Pipeline = TRUE
  OneTurn = TRUE
  MaxMoves = 2
  MaxDeadlines = 1
  MaxFaults = 1
INVARIANTS ExecutionInv QuitIsClean
PROPERTIES UserWins WaitsEnd
CHECK_DEADLOCK FALSE
