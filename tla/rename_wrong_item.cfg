\* One rename and two items that change places once.
SPECIFICATION Spec
CONSTANTS
  NULL = NULL
  x = x
  y = y
  a = a
  b = b
  c = c
  Items = {x, y}
  Names = {a, b}
  Meddling = {"reorder"}
  MaxRequests = 1
  MaxMeddling = 1
SYMMETRY TreeSymmetry
CHECK_DEADLOCK FALSE
PROPERTY
  OnlyPinnedChanges
