SPECIFICATION Spec
CONSTANTS
  MaxNodes = 5
  Node = {1, 2, 3, 4, 5}
  NULL = NULL
  Types = {a}
  Audit = FALSE
  InitTrees <- MCRoot
INVARIANT DfiCorrect
CHECK_DEADLOCK FALSE
