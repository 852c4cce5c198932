SPECIFICATION FairSpec
CONSTANTS
  Messages = {m1, m2}
  MaxCancels = 2
  MaxSteps = 2
  MaxAttempts = 1
  MaxMaintenance = 1
  Faults = TRUE
INVARIANTS TypeOK LogAccepted MessageConserved LatchOnlyBehindDeadActivity
PROPERTIES CancelStopsWork EndReasonIsTrue CancelSilences CancelConverges
           LatchedWakeOpensTurn
CHECK_DEADLOCK FALSE
