SPECIFICATION ConvertSpec
CONSTANTS
  Chunks <- MCChunks
  PeerIds = {1, 2, 3}
  Statuses = {"Ok"}
  Encryptable = {1, 2}
  Blocks = {0, 1, 2, 3, 4, 5, 6}
  Timestamps = {0, 5, 6, 7, 8}
  MaxDatasets = 2
  MaxChunks = 3
  BITS = 2
  U32Max = 1000
  NotParquet = 9
INVARIANT GapsConvert
CHECK_DEADLOCK FALSE
