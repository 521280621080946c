CONSTANTS
  Kind <- Plain
  OneTurn = FALSE
  Moves = {"execute", "pause", "cancel", "toggle"}
  MaxMoves = 1
SPECIFICATION Spec
INVARIANT ProgressionInv
PROPERTIES FailureYields
CHECK_DEADLOCK FALSE
