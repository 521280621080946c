SPECIFICATION Spec
CONSTANTS
  Deps <- Branch
  Scoped = {1, 2}
  MaxLanes = 2
  Rules <- BranchRules
  Proposers = {1}
  Fallible = {3}
  OneTurn = FALSE
  EarlyGates = TRUE
  Moves = {"pause", "cancel"}
  MaxMoves = 2
  MaxStarts = 2
  MaxFaults = 1
PROPERTY StopsHold
CHECK_DEADLOCK FALSE
