SPECIFICATION LoopSpec
CONSTANTS
  MaxNodes = 4
  Node = {1, 2, 3, 4}
  NULL = NULL
  Types = {a, b}
  Audit = TRUE
  InitTrees <- MCRoot
INVARIANT QueryCorrect
CHECK_DEADLOCK FALSE
