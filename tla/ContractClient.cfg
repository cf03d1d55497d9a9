SPECIFICATION FairClient
CONSTANTS
  p1 = p1
  p2 = p2
  p3 = p3
  a = a
  b = b
  garbage = garbage
  Peers = {p1, p2, p3}
  Operators = {a, b}
  InitClusters <- MCClusters
  InitGateways <- MCGateways
  InitWorkers <- MCWorkers
  PerPage = 2
  L1Head = 4
  EpochLength = 2
  MaxUnits = 4
  Methods = {"active_portals", "portal_clusters", "is_portal_registered", "portal_compute_units_per_epoch", "current_allocations", "portal_sqd_locked", "portal_uses_default_strategy", "active_workers", "worker_registration_time", "worker_id", "current_epoch", "current_epoch_start", "epoch_length", "epoch_stream"}
  MaxChanges = 2
  Nodes = {n1, n2}
  Interval = 3
  Recheck = 2
  Latency = 1
  MaxTime = 9
INVARIANTS ReadsExact NothingMissed CaughtUp
PROPERTIES CallReturns
CHECK_DEADLOCK FALSE
