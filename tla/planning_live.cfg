SPECIFICATION FairSpec
CONSTANTS
  NULL = NULL
  Plans = {p1, p2}
  Workers = {}
  DefaultLane = codex
  MaxActions = 0
  Moves = {"waiting_for_approval", "done"}
  Origins = {"shutdown"}
  p1 = p1
  p2 = p2
  codex = codex
INVARIANTS LanesAreExclusive
PROPERTIES QueueAdvances ShutdownIsComplete
CHECK_DEADLOCK FALSE
