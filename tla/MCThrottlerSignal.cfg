SPECIFICATION FairSpec
CONSTANTS
  r1 = r1
  r2 = r2
  Nil = Nil
  Request <- MCRequest
  MaxSets = 2
PROPERTIES
  WaitersFollowTicker
CHECK_DEADLOCK FALSE
