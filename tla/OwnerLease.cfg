SPECIFICATION FairSpec
CONSTANTS
  p1 = p1
  p2 = p2
  p3 = p3
  old = old
  None = None
  Procs = {p1, p2, p3}
  Legacy = {old}
  Windows = TRUE
  MaxFaults = 2
CHECK_DEADLOCK FALSE
INVARIANTS TypeOK OwnerNamed StageAttributed
PROPERTIES OwnFileOnly TakeoverSucceeds
