SPECIFICATION Spec
CONSTANTS
  Servers = {a}
  Web = {w1}
  Requests = {"date", "never", "disable", "enable", "sync", "reset", "delete", "setRule", "clearRule"}
  NoServer = NoServer
  Limit = 2
  MaxTraffic = 2
  MaxCycles = 2
  MaxActive = 1
  MaxFaults = 1
INVARIANTS
  PanelsFollow
  CountsInOrder
PROPERTY
  SellerDecides
CHECK_DEADLOCK FALSE
