SPECIFICATION FairSpec
CHECK_DEADLOCK FALSE
CONSTANTS
  c1 = c1
  c2 = c2
  f1 = f1
  f2 = f2
  t1 = t1
  t2 = t2
  None = None
  Call = {c1, c2}
  File = {f1, f2}
  TmdbID = {t1, t2}
  MaxMovies = 2
INVARIANTS TypeOK OneMoviePerTmdbID FilesOfDeletedMoviesRaced
PROPERTIES UnusedMoviesGo
