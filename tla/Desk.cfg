SPECIFICATION DeskSpec
SYMMETRY DeskSymmetry
CONSTANTS
  Accounts = {c1, c2}
  Refs = {r1}
  Procs = {p1, p2}
  Amounts = {1, 2}
  MaxRows = 3
  Invoices = {i1, i2}
  Transfers = {d1}
  Importers = {t1}
  Base = 10
  Tol = 0
  Spread = 1
  RING = 1
  Rematched = 1
  WindowSlots = 0
  MaxSlot = 1
  MaxReports = 2
  MaxToken = 2
  MaxTouches = 1
  Overlap = FALSE
  Callers = {b1, b2}
  MaxFailures = 2
  WindowMin = 1
  LockMin = 2
  TakeRows = 300
  LastMinute = 3
  MaxAttempts = 4
  Browsers = {s1, s2}
  CodeTries = 2
  MaxCodes = 2
  MaxPasswords = 1
  Resellers = {a1}
  Desks = {k1}
  MaxKeys = 1
  LastDay = 3
  MaxDeskOps = 5
  PanelProcs = {w1}
  PanelOrders = {o1, o2}
  BuyerOf <- OneBuyer
  MaxSubs = 2
  MaxPanelFaults = 1
  MaxLinkEdits = 2
  MaxResets = 1
  BackupProcs = {web}
  KeepLast = 1
  LastBackupMinute = 4
  MaxData = 1
  MaxBackups = 3
  MaxBackupFaults = 1
  SameMinute = FALSE
  Notifiers = {n1}
  ReminderDays = {1, 3}
  MaxDays = 4
  MaxPeriods = 1
  MaxNoteCrashes = 1
  Inbounds = {1, 2, 3, 4}
  ServerOf <- DeskServerOf
  ShapeOf <- DeskShapeOf
  PANEL_ATTEMPTS = 2
  MaxTargetOps = 2
  MaxTargetFaults = 1
  ImportRows <- DeskImportRows
  Owners = {q1, q2}
  MaxImports = 3
  MaxImportFaults = 1
  MaxServices = 2
  CatServers = {x1}
  CatInbounds = {1, 2}
  MaxCatOps = 3
  Sellers = {v1, v2}
  ShopHosts = {h1, h2}
  NoHost = nohost
  MaxDomainOps = 5
  Plugins = {g1}
  Master = {}
  PluginPays = {y1, y2}
  OtherPays = {y2}
  MAX_PER_ADMIN = 1
  PluginOverlap = FALSE
  MaxPluginOps = 5
  Book <- DeskPages
  RowIds = {"r1", "r2"}
  MaxPresses = 2
  MaxInFlight = 2
  BotAdmins = {m1, m2}
  BotTokens = {"t1", "t2"}
  BotEditors = {f1, f2}
  MaxBotEdits = 4
  MaxBotFailures = 1
  BulkClients = {1, 2, 3}
  CLIENT_BULK_MAX = 2
  CHUNK = 2
  ROUNDS = 3
  MaxBulkRuns = 2
  MaxBulkFaults = 1
INVARIANTS
  RowsAddUp
  
  
  
  
  SubPanelsSound
  BackupsSound
  RemindersSound
  
  ImportsSound
  DomainsSound
  PagesSound
  SalesBotsSound
  BulkSound

  
  
CHECK_DEADLOCK FALSE
