SPECIFICATION Spec
CONSTANTS
  c1 = c1
  c2 = c2
  p1 = p1
  p2 = p2
  p3 = p3
  Connection <- MCConnection
  Post <- MCPost
  PoolSize = 1
  MaxForm = 1
  Bodies <- MCBodies
  Streams <- MCStreams
SYMMETRY Symmetry
INVARIANTS
  OwnBytes
  BodyComplete
  NoInheritedError
  WriterIsClean
CHECK_DEADLOCK FALSE
