SPECIFICATION Spec
CHECK_DEADLOCK FALSE
CONSTANTS
  c1 = c1
  c2 = c2
  f1 = f1
  f2 = f2
  None = None
  Call = {c1, c2}
  File = {f1, f2}
  Key <- Episodes
  MaxRows = 4
SYMMETRY Symmetry
INVARIANTS TypeOK OneRowPerKey OrphansRaced DeletesWhatItFound EmptyRowsAreExpected
