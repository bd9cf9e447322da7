SPECIFICATION FairSpec
CONSTANTS
  r1 = r1
  r2 = r2
  Nil = Nil
  Request <- MCRequest
  MaxSets = 3
INVARIANTS
  PendingIsExact
  WatchersHear
PROPERTIES
  PassesUnlessOvertaken
CHECK_DEADLOCK FALSE
