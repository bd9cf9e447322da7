SPECIFICATION FairSpec
CONSTANTS
  c1 = c1
  c2 = c2
  None = None
  Conn <- MCConn
  MaxChanges = 1
INVARIANTS
  CompleteAddress
  NoGoingBack
PROPERTIES
  RoundTripEnds
CHECK_DEADLOCK FALSE
