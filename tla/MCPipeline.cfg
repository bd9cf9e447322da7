SPECIFICATION Spec
CONSTANTS
  NPipes = 3
  RequestFilter = RequestFilter
  Router = Router
  ResponseFilter = ResponseFilter
  Other = Other
  Configs <- MCConfigs
INVARIANTS
  StagesDoNotOverlap
  DownstreamInsideOut
PROPERTIES
  FirstResponseIsFinal
CHECK_DEADLOCK FALSE
