SPECIFICATION Spec
CONSTANTS
  c1 = c1
  c2 = c2
  Conn <- MCConn
  MaxUnread = 1
  MaxStops = 2
SYMMETRY Symmetry
INVARIANTS
  TypeOK
  DrainedOnReturn
  AtMostOneLateRequest
  AtMostOneLateAccept
  PanicContained
PROPERTIES
  GracefulSpec
CHECK_DEADLOCK FALSE
