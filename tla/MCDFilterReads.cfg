SPECIFICATION Spec
CONSTANTS
  MaxNodes = 5
  Node = {1, 2, 3, 4, 5}
  NULL = NULL
  Types = {a, b}
  Audit = FALSE
  InitTrees <- MCAlmostFull
SYMMETRY MCSymmetry
INVARIANTS TypeModsFresh
PROPERTY ReadsTransparent
CHECK_DEADLOCK FALSE
