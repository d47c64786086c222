SPECIFICATION ResultSpec
CONSTANTS
  MaxNodes = 6
  Node = {1, 2, 3, 4, 5, 6}
  NULL = NULL
  Types = {a}
  Audit = TRUE
  InitTrees <- MCTwoLeft
INVARIANTS IterationExact ModsFresh SizeExact
PROPERTY IterationEnds
CHECK_DEADLOCK FALSE
