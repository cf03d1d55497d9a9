CONSTANTS
  w1 = w1
  w2 = w2
  Peers = {w1, w2}
  BootNodes = {}
  InboundPeers = {w2}
  Maintain = TRUE
  MaxConcurrentLookups = 1
  AddrCacheSize = 1
  MaxConns = 2
SPECIFICATION Spec
INVARIANT StrandedWorkerIsChased
