SPECIFICATION FairSpec
CONSTANTS
  m1 = m1
  m2 = m2
  m3 = m3
  Msgs <- TwoMsgs
  Concurrent = 1
  OneShot = FALSE
  Local = FALSE
  MayThrow = FALSE
  MayStop = TRUE
  MaySlow = FALSE
  MaxIo = 2
  MaxEntries = 1
CHECK_DEADLOCK FALSE
PROPERTY StopIsHeeded
