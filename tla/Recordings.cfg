SPECIFICATION FairSpec
CONSTANTS
  Recordings = {r1, r2}
  Pages = {p1}
  None = None
  MaxBytes = 1
  MaxPerUser = 1
  OrphanAge = 0
  MaxEmitted = 1
  MaxCreating = 2
INVARIANTS TypeOK DiskIsAccounted ReplayIsWhole
PROPERTIES UnfinishedIsReclaimed
