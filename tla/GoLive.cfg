SPECIFICATION GoLiveFairSpec
CONSTANTS
  Attempts = {a1, a2}
  Previews = {v1}
  Pages = {p1, p2}
  Null = Null
INVARIANTS GoLiveTypeOK StatusIsTrue RowAccounted
PROPERTIES StatusSettles
