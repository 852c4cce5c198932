SPECIFICATION FairSpec
CONSTANTS
  c = c
  r = r
  g = g
  f1 = f1
  f2 = f2
  None = None
  Creates = {c}
  Resumes = {r}
  Configured = {g}
  Factories = {f1, f2}
  FactoryOf <- Through
  MaxSignals = 1
  MaxFaults = 1
CHECK_DEADLOCK FALSE
INVARIANTS TypeOK IdentityHeld NothingLeft
PROPERTIES Settles
