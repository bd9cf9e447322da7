SPECIFICATION FairSpec
CONSTANTS
  MaxChunks = 2
INVARIANTS
  NoTruncation
  SourceClosed
  ContinueReadSafe
PROPERTIES
  ServerFinishes
  GoroutinesEnd
CHECK_DEADLOCK FALSE
