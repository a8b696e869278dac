\* Three renames, nobody else touches the tree.
SPECIFICATION Spec
CONSTANTS
  NULL = NULL
  x = x
  y = y
  a = a
  b = b
  c = c
  Items = {x, y}
  Names = {a, b, c}
  Meddling = {}
  MaxRequests = 3
  MaxMeddling = 0
SYMMETRY TreeSymmetry
CHECK_DEADLOCK FALSE
INVARIANT
  ReportHolds
PROPERTY
  OnlyPinnedChanges
