SPECIFICATION Spec
CONSTANTS
  NCalls = 1
  MaxParallel = 1
  MaxTries = 2
INVARIANT HonestAnswers
CHECK_DEADLOCK FALSE
