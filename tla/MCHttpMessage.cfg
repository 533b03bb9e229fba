SPECIFICATION FairSpec
CONSTANTS
  MsgLen = 2
  PutLen = 2
  ChunkSize = 2
  Capacities = {0, 2}
  FailuresMax = 2
  ConnectionFailuresMax = 0
  Responses <- AllResponses
  MayRefuse = TRUE
  MaxHoles = 2
  MaxTries = 6
CHECK_DEADLOCK FALSE
INVARIANTS AnswerIsWhole SendsInOrder IoOnHeldConnection ConnectionGoesHome RoomForRequest
PROPERTY Terminates
