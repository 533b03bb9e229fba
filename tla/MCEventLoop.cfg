SPECIFICATION FairSpec
CONSTANTS
  m1 = m1
  m2 = m2
  m3 = m3
  Msgs <- ThreeMsgs
  Concurrent = 2
  OneShot = FALSE
  Local = FALSE
  MayThrow = TRUE
  MayStop = TRUE
  MaySlow = TRUE
  MaxIo = 3
  MaxEntries = 1
CHECK_DEADLOCK FALSE
INVARIANTS FinishedOnce CompletionsHaveTasks
PROPERTIES EndsUnlessLost StopEndsLoop
