SPECIFICATION AlgorithmsSpec
CONSTANTS
  Algorithms = {"query"}
  MaxLen = 5
  Vectors <- SmallVectors
  Keys = {0, 1, 2, 3}
  U64Max = 5
  MaxExtends = 2
  Batches <- SmallBatches
  Base = 3
  Client = "client"
  WorkerKeys <- SmallKeys
  Queries <- SmallQueries
  Results <- SmallResults
  Topics = {"t"}
  Sources = {"a"}
  MinInterval = 2
  MaxBurst = 2
  KeepLast = 2
  MaxTime = 5
  MaxSeqNo = 5
INVARIANT SignatureCoversAbove
CHECK_DEADLOCK FALSE
