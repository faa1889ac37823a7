SPECIFICATION Spec
CHECK_DEADLOCK FALSE
CONSTANTS
  f1 = f1
  f2 = f2
  d1 = d1
  c1 = c1
  d2 = d2
  None = None
  Root = Root
  Dir = Dir
  File = {f1}
  Inside = {}
  Importer = {1, 2}
  Probe = {1, 2}
  Refresh = {"RescanLibrary"}
  Deletion = {d1}
  Copy = {}
  Workers = 2
  MaxChanges = 2
INVARIANTS DeletedLibraryStaysDeleted
