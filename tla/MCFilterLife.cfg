SPECIFICATION Spec
CONSTANTS
  Tree = {t1, t2}
  Filter = {f1, f2, f3}
  NULL = NULL
SYMMETRY MCSymmetry
INVARIANTS SafeUnlessMisused NothingLeft
CHECK_DEADLOCK FALSE
