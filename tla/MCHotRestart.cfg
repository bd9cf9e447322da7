SPECIFICATION HotSpec
CONSTANTS
  c1 = c1
  k1 = k1
  k2 = k2
  Conn <- MCConn
  Child <- MCChild
  MaxUnread = 1
  MaxStops = 2
INVARIANTS
  NoOutage
  OneRestartIsSafe
PROPERTIES
  DrainCompletes
  SentinelsExit
  RestartCompletes
CHECK_DEADLOCK FALSE
