SPECIFICATION Spec
CONSTANTS
  Floor = 1
  Ceiling = 2
  Allowance = 0
  MinExtra = 1
  Explicit = {1}
  Retries = 1
  FollowPlan = TRUE
  Limit = 2
  MaxRounds = 1
  Personas = 2
  Blocking = FALSE
  ServerWait = TRUE
  PlanSize = 1
  MaxStarts = 2
INVARIANTS
  TypeOK
  PlanBuysOnce
  NoDiffGuard
  RoundsBounded
  PauseHolds
PROPERTIES
  NumbersKept
CHECK_DEADLOCK FALSE
