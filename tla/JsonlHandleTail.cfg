SPECIFICATION Spec
CONSTANTS
  f1 = f1
  Flushers = {f1}
  MaxEvents = 2
  MaxFaults = 0
  MaxCrashes = 1
  Framed = TRUE
CHECK_DEADLOCK FALSE
INVARIANTS ReadBackSurvives
