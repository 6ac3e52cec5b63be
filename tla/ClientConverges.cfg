SPECIFICATION FairSpec
CONSTANTS
  Servers = {a}
  Web = {w1}
  Requests = {"date", "sync", "reset", "delete"}
  NoServer = NoServer
  Limit = 1
  MaxTraffic = 1
  MaxCycles = 1
  MaxActive = 2
  MaxFaults = 0

  
PROPERTIES
  LimitsAreNoticed
CHECK_DEADLOCK FALSE
