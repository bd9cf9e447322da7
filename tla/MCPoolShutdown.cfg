SPECIFICATION FairSpec
CONSTANTS
  r1 = r1
  r2 = r2
  None = None
  N = 2
  Pingable <- MCPingable
  Weights <- MCWeights
  Request <- MCRequest
  MaxPings = 1
  MaxFlips = 0
PROPERTIES
  ShutdownReturns
CHECK_DEADLOCK FALSE
