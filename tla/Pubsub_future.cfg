SPECIFICATION GossipSpec
CONSTANTS
  Topics = {t}
  Sources = {a}
  MinInterval = 2
  MaxBurst = 2
  KeepLast = 2
  MaxTime = 3
  MaxSeqNo = 5
INVARIANTS
  NotFromFuture
CHECK_DEADLOCK FALSE
