CONSTANTS
  Feedbacks = {f1}
  Executions = {e1, e2}
  MaxPerFeedback = 2
  MaxPerTask = 2
  Moves = {"ready_for_review"}
  MaxBegun = 3
  MaxMoves = 1
  MaxCrashes = 1
SPECIFICATION Spec
SYMMETRY Symmetry
INVARIANTS RefinementInv AnswersAreBacked
PROPERTIES AskedUnderConsent
CHECK_DEADLOCK FALSE
