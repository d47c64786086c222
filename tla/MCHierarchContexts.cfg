SPECIFICATION Spec
CONSTANTS
  CtxId = {c0, c1, c2}
  TypeId = {t0}
  NodeId = {i0, i1}
  Addr = {a0, a1, a2}
  Obj = {o0, o1}
  NULL = NULL
INVARIANTS NodesOwned SafeUnlessCareless CursorInContext AbortsWhenFull
PROPERTY CreationEnds
CHECK_DEADLOCK FALSE
