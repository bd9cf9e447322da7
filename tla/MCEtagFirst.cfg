SPECIFICATION Spec
CONSTANTS
  MaxChunks = 1
INVARIANTS
  EtagFirst
CHECK_DEADLOCK FALSE
