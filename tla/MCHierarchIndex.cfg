SPECIFICATION SmallReadsSpec
CONSTANTS
  MaxNodes = 8
  Node = {1, 2, 3, 4, 5, 6, 7, 8}
  NULL = NULL
INVARIANTS IndexExact SuccessorExact UpToDateClean OneModPerLeaf AssertionsHold SuccessorsMirror
PROPERTY IndexesShift
CHECK_DEADLOCK FALSE
