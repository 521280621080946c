CONSTANTS
  Writers = {w1}
  Checkers = {k1}
  Callers = {user, host}
  user = user
  host = host
  NULL = NULL
  Ops <- TwoCallers
  Moves = {"cancelled"}
  MaxVersion = 1
  MaxGeneration = 2
  MaxRuns = 1
  MaxGates = 2
SPECIFICATION Spec
INVARIANT TypeOK
PROPERTIES CompletedUntouched EditsNoticed PassesRestOnChecks
CHECK_DEADLOCK FALSE
