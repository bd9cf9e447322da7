SPECIFICATION FairSpec
CONSTANTS
  r1 = r1
  r2 = r2
  None = None
  N = 2
  Pingable <- MCPingable
  Weights <- MCWeights
  Request <- MCOneRequest
  MaxPings = 2
  MaxFlips = 1
INVARIANTS
  FallbackOnlyWhenAllDown
  OneStaleDelivery
PROPERTIES
  NextAnswers
  PingsConverge
  GoroutinesStop
CHECK_DEADLOCK FALSE
