SPECIFICATION FairSpec
CONSTANTS
  NCalls = 3
  MaxParallel = 2
  MaxTries = 1
INVARIANTS TypeOK HonestAnswers PoolSound ClosedIsQuiet
PROPERTIES ImplementsAnsweredStep NoLateWork StepCloses
