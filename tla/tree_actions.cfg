\* Two requests on a folder of three items, two of them with one text.
SPECIFICATION Spec
CONSTANTS
  NULL = NULL
  x = x
  y = y
  z = z
  Items = {x, y, z}
  Label <- TwinLabels
  MaxRequests = 2
  MaxMeddling = 1
CHECK_DEADLOCK FALSE
INVARIANTS
  ActionIsPinned
  CompleteRestores
PROPERTY
  MenuCloses
