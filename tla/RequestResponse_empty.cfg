SPECIFICATION FairSpec
CONSTANTS
  Calls = {r1}
  Handles = {h1}
  None = None
  Limit = 1
  ClientMax = 1
  ServerMax = 2
  RequestMax = 1
  MaxSize = 3
  IncomingCapacity = 0
  RequestsQueueSize = 1
  EventsQueueSize = 1
  Protocol = "logs"
PROPERTY DroppedIsError
CHECK_DEADLOCK FALSE
