SPECIFICATION FairSpec
CONSTANTS
  Users = {alice, bob}
  None = None
  Flights = {f1, f2}
  MaxLeaked = 1
CHECK_DEADLOCK FALSE
INVARIANTS TypeOK ShownIsBacked
PROPERTIES PollingEnds
