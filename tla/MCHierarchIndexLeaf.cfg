SPECIFICATION Spec
CONSTANTS
  MaxNodes = 8
  Node = {1, 2, 3, 4, 5, 6, 7, 8}
  NULL = NULL
INVARIANT ParentBeforeChild
CHECK_DEADLOCK FALSE
