SPECIFICATION FairSpec
CONSTANTS
  p1 = p1
  i1 = i1
  p2 = p2
  i2 = i2
  Proc = {p1, p2}
  Pid = {i1, i2}
  PidOf <- OwnPids
  Web = {w1, w2}
  None = None
  Empty = Empty
  MaxCrashes = 2
INVARIANTS
  TypeOK
  ClaimKept
  ReleasedWhenOver
  LockReturned
  StatusHonest
PROPERTIES
  ImplementsOwner
  EveryClaimDecides
CHECK_DEADLOCK FALSE
