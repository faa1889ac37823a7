SPECIFICATION Spec
CONSTANTS
  LastSegment = 0
  LastIndex = 1
  Stream = {v1}
  Player = {p1}
  Sid = {s1, s2}
  Request = {r1, r2}
  None = None
  SkipWindow = 2
  ThrottleAhead = 1
  Overlap = FALSE
  Pipelined = TRUE
  MayFail = TRUE
SYMMETRY Symmetry
PROPERTIES NeverDestroyedUnderUser
CHECK_DEADLOCK FALSE
