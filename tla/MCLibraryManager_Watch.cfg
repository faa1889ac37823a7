SPECIFICATION FairSpec
CHECK_DEADLOCK FALSE
CONSTANTS
  f1 = f1
  f2 = f2
  d1 = d1
  c1 = c1
  d2 = d2
  None = None
  Root = Root
  Dir = Dir
  File = {f1, f2}
  Inside = {f2}
  Importer = {1, 2}
  Probe = {1, 2, 3}
  Refresh = {"StartUp"}
  Deletion = {d1}
  Copy = {}
  Workers = 2
  MaxChanges = 3
INVARIANTS TypeOK RegisteredIsWaiting RowsFollowDisk SettledFilesAreExpected
PROPERTIES SettledFilesAreImported DeletionsReturn
