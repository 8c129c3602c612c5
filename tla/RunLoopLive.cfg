SPECIFICATION Spec
CONSTANTS
  Floor = 1
  Ceiling = 1
  Allowance = 0
  MinExtra = 1
  Explicit = {1}
  Retries = 1
  FollowPlan = TRUE
  Limit = 1
  MaxRounds = 1
  Personas = 1
  Blocking = FALSE
  ServerWait = TRUE
  PlanSize = 1
  MaxStarts = 1
PROPERTIES
  StopEnds
  RunEnds
CHECK_DEADLOCK FALSE
