SPECIFICATION ReaderSpec
CONSTANTS
  MaxNodes = 5
  Node = {1, 2, 3, 4, 5}
  NULL = NULL
  Types = {a}
  Audit = TRUE
  InitTrees <- MCAllTrees
INVARIANTS DfiCorrect TablesInOrder SuccessorNeverPast IndexAssertionsHold TypeNumbersOrdered
PROPERTY RefinesDocumentOrder
CHECK_DEADLOCK FALSE
