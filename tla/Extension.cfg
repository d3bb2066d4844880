SPECIFICATION FairSpec
CONSTANTS
  Casts = {c1, c2}
  Viewers = {v1}
  None = None
INVARIANTS TypeOK ShownIsTrue
PROPERTIES StopReleases RowsDrain
