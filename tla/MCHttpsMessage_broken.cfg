SPECIFICATION HttpsFairSpec
CONSTANTS
  MsgLen = 1
  PutLen = 0
  ChunkSize = 2
  Capacities = {0}
  FailuresMax = 1
  ConnectionFailuresMax = 0
  Responses <- GoodResponses
  MayRefuse = FALSE
  MaxHoles = 0
  MaxTries = 4
  Flights = 1
CHECK_DEADLOCK FALSE
\* Or HttpsSilenceIsLimited.
PROPERTY BrokenEnds
