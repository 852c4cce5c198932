SPECIFICATION Spec
CONSTANTS
  f1 = f1
  Flushers = {f1}
  MaxEvents = 3
  MaxFaults = 0
  MaxCrashes = 0
  Framed = FALSE
CHECK_DEADLOCK FALSE
INVARIANTS FlushDrains
