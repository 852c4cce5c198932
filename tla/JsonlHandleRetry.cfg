SPECIFICATION Spec
CONSTANTS
  f1 = f1
  Flushers = {f1}
  MaxEvents = 3
  MaxFaults = 1
  MaxCrashes = 0
  Framed = TRUE
CHECK_DEADLOCK FALSE
INVARIANTS MaterializeFindsNoLog
