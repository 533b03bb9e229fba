SPECIFICATION Spec
CONSTANTS
  Receivers = {r1, r2, r3}
  Handles = {h1, h2, h3}
  Msgs = {m1, m2, m3}
  Bring = {m1}
  Submissions = 2
  Reuse = 2
  Concurrent = 2
  MayThrow = TRUE
  None = None
SYMMETRY Sym
\* Every message has ended and no handle is at rest.
CHECK_DEADLOCK FALSE
INVARIANTS LentOnce VectorHasOneOwner CallbackReadsOwn
