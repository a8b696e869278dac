\* Every initial state of the tree, limits on either side of its size.
SPECIFICATION Spec
CONSTANTS
  NULL = NULL
  Tree = Tree
  p = p
  a = a
  b = b
  x = x
  y = y
  Items = {p, a, b, x, y}
  Children <- FolderChildren
  Label <- FolderLabels
  Limits <- FolderLimits
INVARIANTS
  TypeOK
  OnlyOwnExpansions
  RestorationHolds
  CompletenessHolds
