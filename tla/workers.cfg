SPECIFICATION FairSpec
CONSTANTS
  Deps <- Diamond
  Scoped = {2, 3}
  MaxLanes = 2
  Rules <- DiamondRules
  Proposers = {2, 4}
  Fallible = {3, 4}
  OneTurn = TRUE
  EarlyGates = FALSE
  Moves = {"pause", "cancel"}
  MaxMoves = 1
  MaxStarts = 3
  MaxFaults = 1
INVARIANT WorkersInv
PROPERTIES  StartsAreDue  RunsEnd
CHECK_DEADLOCK FALSE
