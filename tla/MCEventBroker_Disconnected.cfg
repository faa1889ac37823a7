SPECIFICATION FairSpec
CONSTANTS
  Client = {c1}
  Publisher = {p1, p2}
  None = None
  Kind = {"movie"}
  MaxMovies = 2
  Buffer = 1
  PublishBuffer = 1
  Disconnects = TRUE
  Removes = FALSE

PROPERTIES CallsReturnWhoeverLeaves
CHECK_DEADLOCK FALSE
