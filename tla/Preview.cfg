SPECIFICATION Spec
CONSTANTS
  s1 = s1
  s2 = s2
  w1 = w1
  w2 = w2
  Srv = {s1, s2}
  Web = {w1, w2}
  Poll = {p1}
  None = None
  MaxCrashes = 1
SYMMETRY Symmetry
INVARIANTS
  TypeOK
  OnRecord
  StoppedIsStopped
PROPERTIES
  OrphansEnded
CHECK_DEADLOCK FALSE
