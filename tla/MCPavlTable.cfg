SPECIFICATION Spec
CONSTANTS
  Node = {1, 2, 3, 4, 5, 6, 7, 8, 9}
  NULL = NULL
  key <- MCKey
INVARIANTS TypeOK ShapeSound CountExact
PROPERTY RefinesSortedList
CHECK_DEADLOCK FALSE
