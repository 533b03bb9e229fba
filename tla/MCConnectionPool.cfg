SPECIFICATION Spec
CONSTANTS
  Conns = {c1, c2, c3, c4, c5}
  Keys = {a, b, c}
  MaxConnections = 4
  MaySweep = TRUE
  MayDrop = TRUE
INVARIANTS OneOwner ReusableIsOpen SlotForEveryone CapHolds
SYMMETRY Sym
\* closeAll runs in the destructor: nothing follows it.
CHECK_DEADLOCK FALSE
