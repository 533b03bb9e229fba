SPECIFICATION TransferFairSpec
CONSTANTS
  Conns = {c1}
  Keys = {a, b}
  Own = Own
  MaxConnections = 1
  MaySweep = FALSE
  MayDrop = TRUE
  MaxAttempts = 2
  MaxCalls = 3
\* The program makes no more calls.
CHECK_DEADLOCK FALSE
INVARIANTS AnswerFromHost SlotsAreAccounted
PROPERTY TransfersEnd
