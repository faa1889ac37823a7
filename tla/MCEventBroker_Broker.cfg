SPECIFICATION FairSpec
CONSTANTS
  Client = {c1}
  Publisher = {p1, p2}
  None = None
  Kind = {"movie", "series"}
  MaxMovies = 2
  Buffer = 1
  PublishBuffer = 1
  Disconnects = TRUE
  Removes = TRUE
INVARIANTS TypeOK SeenInOrder ShowsOwnOrLater
PROPERTIES ImplementsMulticast CallsReturn
CHECK_DEADLOCK FALSE
