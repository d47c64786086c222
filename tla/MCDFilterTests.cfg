SPECIFICATION TestSpec
CONSTANTS
  MaxNodes = 6
  Node = {1, 2, 3, 4, 5, 6}
  NULL = NULL
  Types = {a, b}
  Audit = TRUE
  InitTrees <- MCSmallestAndFull
SYMMETRY MCSymmetry
INVARIANTS GeneratedQueryCorrect SuccessorCorrect LookUpCorrect DfiCorrect QuerySound
CHECK_DEADLOCK FALSE
