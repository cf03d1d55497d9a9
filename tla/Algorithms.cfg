SPECIFICATION AlgorithmsSpec
CONSTANTS
  Algorithms = {"search", "ranges", "query", "gossip"}
  MaxLen = 5
  Vectors <- SmallVectors
  Keys = {0, 1, 2, 3}
  U64Max = 5
  MaxExtends = 2
  Batches <- SmallBatches
  Base = 3
  Client = "client"
  WorkerKeys <- SmallKeys
  Queries <- SmallQueries
  Results <- SmallResults
  Topics = {"t"}
  Sources = {"a"}
  MinInterval = 2
  MaxBurst = 2
  KeepLast = 2
  MaxTime = 5
  MaxSeqNo = 5
INVARIANTS
  InBounds
  SearchesCorrect
  RangeSetExact
  SignaturesBind
  RateLimited
PROPERTIES
  Terminates
  GossipInOrder
CHECK_DEADLOCK FALSE
