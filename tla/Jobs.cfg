SPECIFICATION JobsSpec
CONSTANTS
  Hooks = {h1, h2}
  HookDeliveries = {d1, d2}
  MAX_ATTEMPTS = 2
  MaxHookCrashes = 1
  MaxHookEdits = 2
  WithAuth = TRUE
  MaxChunks = 1
  Requesters = {r1}
  MaxCommit = 2
  CodeCommits = {2}
  MaxJobs = 2
  MaxAgentCrashes = 1
  Installs = {i1}
  MAX_HITS = 1
  VendorOverlap = FALSE
  MaxVerifies = 2
  MaxVendorOps = 2
  PanelCalls = {q1, q2}
  Insecure = {q1, q2}
  Bearer = {q2}
  Legacy = {q1}
  MaxOps = 1
  PollBots = {z1}
  MaxUpdates = 2
  MaxPollFaults = 1
  MaxSwitches = 1
  MaxPollCrashes = 1
PROPERTIES
  DeliveriesSound
  
  
  
  PanelCallsSound
  PollingSound
CHECK_DEADLOCK FALSE
