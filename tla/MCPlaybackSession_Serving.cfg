SPECIFICATION FairSpec
CONSTANTS
  LastSegment = 1
  LastIndex = 1
  Stream = {v1}
  Player = {p1}
  Sid = {s1}
  Request = {r1, r2}
  None = None
  SkipWindow = 3
  ThrottleAhead = 1
  Overlap = TRUE
  Pipelined = FALSE
  MayFail = FALSE
INVARIANTS ServedInOrder
PROPERTIES RequestsReturn SessionsEnd
CHECK_DEADLOCK FALSE
