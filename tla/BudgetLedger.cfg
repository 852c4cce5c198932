SPECIFICATION FairSpec
CONSTANTS
  r1 = r1
  r2 = r2
  old = old
  None = None
  Requests = {r1, r2}
  Legacy = {old}
  Reservation <- Amounts
  Limit = 3
  Quotes = {1, 3}
  MaxFaults = 2
CHECK_DEADLOCK FALSE
INVARIANTS TypeOK CapHeld SentStaysCharged
PROPERTIES ImplementsChargeBook CallsEnd
