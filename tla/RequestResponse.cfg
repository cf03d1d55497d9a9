SPECIFICATION FairSpec
CONSTANTS
  Calls = {r1, r2}
  Handles = {h1, h2}
  None = None
  Limit = 1
  ClientMax = 1
  ServerMax = 2
  RequestMax = 1
  MaxSize = 3
  IncomingCapacity = 0
  RequestsQueueSize = 1
  EventsQueueSize = 1
  Protocol = "query"
INVARIANTS
  PermitsConserved
  OwnedOnce
  SuccessIsAnswered
PROPERTIES
  StreamsReleased
CHECK_DEADLOCK FALSE
