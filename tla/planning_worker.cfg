SPECIFICATION Spec
CONSTANTS
  NULL = NULL
  Plans = {p1}
  Workers = {w1}
  DefaultLane = codex
  MaxActions = 2
  Moves = {}
  Origins = {"user", "task"}
  p1 = p1
  w1 = w1
  codex = codex
INVARIANTS PlanningInv CancellationsArrive
PROPERTIES FinalIsFinal CancelledDoesNothing
CHECK_DEADLOCK FALSE
