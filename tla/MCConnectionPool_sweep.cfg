SPECIFICATION Spec
CONSTANTS
  Conns = {c1, c2}
  Keys = {a, b}
  MaxConnections = 2
  MaySweep = TRUE
  MayDrop = FALSE
INVARIANT EmptySlotIsLent
SYMMETRY Sym
\* closeAll runs in the destructor: nothing follows it.
CHECK_DEADLOCK FALSE
