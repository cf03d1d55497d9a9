SPECIFICATION FairTransports
CONSTANTS
  Collectors = {c}
  Others = {o}
  QueryIds = {1, 2}
  WhitelistSizes = {0, 5}
  QueueSize = 1
  MaxIdentified = 2
  LogCollectors = {c1, c2}
  Sends = {s1}
  MaxRecords = 2
  RecordSize = 1
  MaxMsgSize = 1
  EventsQueue = 1
  MaxV1 = 1
  Kinds = {"portal", "worker", "observer", "portal_logs_collector", "pings_collector", "logs_collector", "sql_client", "periodic"}
  MaxHandles = 2
  Clients = {a, b}
  Conns = {1, 2}
  MaxFails = 1
INVARIANTS
  ListOfRunningQuery
  LogsWhole
PROPERTIES
  ListenersFollowRecords
  ConfidentIsAdvertised
  SendLogsReturns
  HandleStops
  KeptAlive
CHECK_DEADLOCK FALSE
