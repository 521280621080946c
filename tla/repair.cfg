CONSTANTS
  Outcomes <- Results
  Unverifiable = Unverifiable
  Proposals <- OneAction
  Rest = {"edit"}
  MaxAttempts = 2
  Moves = {"paused", "cancelled"}
  MaxGates = 2
  MaxPlans = 3
  MaxMoves = 1
  MaxFaults = 2
SPECIFICATION Spec
INVARIANTS RepairInv ReplacedIsOver
CHECK_DEADLOCK FALSE
