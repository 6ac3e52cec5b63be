SPECIFICATION Spec
CONSTANTS
  r1 = r1  k1 = k1  k2 = k2
  Accounts = {r1}
  Procs = {p1, p2}
  Clients = {k1, k2}
  Owner <- OneOwner
  NoClient = NoClient
  NoAccount = NoAccount
  Refs <- MCRefs
  Sizes = {1, 2}
  PerGB = 2
  CreditLimit = 1
  ClientLimit = 2
  OpeningQuota = 3
  PlanGB = 1
  PlanPrice = 1
  Gross = {0, 3, 9}
  RefundPercent = 50
  RefundMin = 1
  Adjustments <- OwnerMoves
  MaxActive = 2
  MaxRows = 4
  MaxFaults = 0
INVARIANT
  RowsAddUp
CHECK_DEADLOCK FALSE
