SPECIFICATION FairSpec
CONSTANTS
  MsgLen = 2
  PutLen = 1
  ChunkSize = 2
  Capacities = {0, 2}
  FailuresMax = 1
  ConnectionFailuresMax = 0
  Responses <- AllResponses
  MayRefuse = TRUE
  MaxHoles = 0
  MaxTries = 6
CHECK_DEADLOCK FALSE
\* Or one of FinishedIsSuccess, EndedHoldsNothing, or the PROPERTY RefusedIsRetried
\* or SilenceIsLimited.
INVARIANT ReturnedIsSound
