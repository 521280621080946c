CONSTANTS
  Kind <- Pipeline
  OneTurn = TRUE
  Moves = {"execute", "pause", "cancel", "toggle", "shutdown"}
  MaxMoves = 2
SPECIFICATION FairSpec
INVARIANTS NothingOverlooked
PROPERTIES StoppedStartsNothing InOrder Rests
CHECK_DEADLOCK FALSE
