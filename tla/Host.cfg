SPECIFICATION FairSpec
CONSTANTS
  Peers = {p1, p2}
  None = None
  LastTier = 1
  Ratchet = 2
CHECK_DEADLOCK FALSE
INVARIANTS TypeOK RosterIsTrue
PROPERTIES OverloadDemotes
