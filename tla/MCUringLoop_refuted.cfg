SPECIFICATION UringFairSpec
CONSTANTS
  m1 = m1
  m2 = m2
  m3 = m3
  Msgs <- ThreeMsgs
  Concurrent = 2
  OneShot = FALSE
  Local = FALSE
  MayThrow = FALSE
  MayStop = TRUE
  MaySlow = FALSE
  MaxIo = 2
  MaxEntries = 1
CHECK_DEADLOCK FALSE
\* Or UringStopEndsLoop.
PROPERTY AcceptedIsEnded
