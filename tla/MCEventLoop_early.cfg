SPECIFICATION Spec
CONSTANTS
  m1 = m1
  m2 = m2
  m3 = m3
  Msgs <- TwoMsgs
  Concurrent = 1
  OneShot = TRUE
  Local = TRUE
  MayThrow = FALSE
  MayStop = FALSE
  MaySlow = TRUE
  MaxIo = 2
  MaxEntries = 2
CHECK_DEADLOCK FALSE
\* Or ReusedIsClean.
INVARIANT ReturnsWhenDone
