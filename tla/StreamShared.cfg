SPECIFICATION FairSpec
CONSTANTS
  Peers = {p}
  Conns = {c1, c2}
  Chans = {h1, h2, h3, h4}
  Requests = {r1, r2}
  None = None
INVARIANTS
  PendingIsServed
  HeldOnce
  NoSenderLeak
PROPERTIES
  OpenStreamReturns
  ImplementsApi
CHECK_DEADLOCK FALSE
