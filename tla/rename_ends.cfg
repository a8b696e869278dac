\* One rename while the tree is reordered, shortened or edited.
SPECIFICATION FairSpec
CONSTANTS
  NULL = NULL
  x = x
  y = y
  a = a
  b = b
  c = c
  Items = {x, y}
  Names = {a, b}
  Meddling = {"reorder", "delete", "edit"}
  MaxRequests = 1
  MaxMeddling = 1

CHECK_DEADLOCK FALSE
PROPERTY
  RenameEnds
