SPECIFICATION TransferSpec
CONSTANTS
  Conns = {c1, c2}
  Keys = {a, b}
  Own = Own
  MaxConnections = 2
  MaySweep = FALSE
  MayDrop = TRUE
  MaxAttempts = 2
  MaxCalls = 3
\* The program makes no more calls.
CHECK_DEADLOCK FALSE
\* Or PROPERTY SuccessIsWhole, INVARIANT NeverExhausted.
INVARIANT AnswerIsOwn
