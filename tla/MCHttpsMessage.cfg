SPECIFICATION HttpsFairSpec
CONSTANTS
  MsgLen = 1
  PutLen = 3
  ChunkSize = 2
  Capacities = {0, 2}
  FailuresMax = 1
  ConnectionFailuresMax = 0
  Responses <- AllResponses
  MayRefuse = TRUE
  MaxHoles = 0
  MaxTries = 4
  Flights = 2
CHECK_DEADLOCK FALSE
INVARIANTS StreamInOrder AnswerIsWhole ReturnedClosed
PROPERTY HttpsEnds
