SPECIFICATION UringFairSpec
CONSTANTS
  m1 = m1
  m2 = m2
  m3 = m3
  Msgs <- TwoMsgs
  Concurrent = 2
  OneShot = TRUE
  Local = FALSE
  MayThrow = TRUE
  MayStop = TRUE
  MaySlow = FALSE
  MaxIo = 2
  MaxEntries = 2
CHECK_DEADLOCK FALSE
INVARIANT KernelHasLiveTasks
PROPERTY TakenIsEnded
