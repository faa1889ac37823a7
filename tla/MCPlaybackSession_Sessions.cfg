SPECIFICATION Spec
CONSTANTS
  LastSegment = 0
  LastIndex = 1
  Stream = {v1}
  Player = {p1, p2}
  Sid = {s1, s2}
  Request = {r1, r2}
  None = None
  SkipWindow = 2
  ThrottleAhead = 1
  Overlap = TRUE
  Pipelined = TRUE
  MayFail = TRUE
SYMMETRY Symmetry
INVARIANTS TypeOK CountsOwners LiveHasOwner RegisteredHasTicker ForgottenOnlyByStaleRemoval
PROPERTIES DestroyedUnderUserOnlyIfDetachedTwice
CHECK_DEADLOCK FALSE
