SPECIFICATION FairSpec
CONSTANTS
  f1 = f1
  Flushers = {f1}
  MaxEvents = 2
  MaxFaults = 2
  MaxCrashes = 2
  Framed = TRUE
CHECK_DEADLOCK FALSE
INVARIANTS TypeOK LogConserved LockOutlivesWrites FlushCovers PromisedSurvives
PROPERTIES ImplementsDurableLog EverythingSettles
