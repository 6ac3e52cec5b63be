SPECIFICATION Spec
CONSTANTS
  s1 = s1  s2 = s2  c1 = c1
  Sales = {s1, s2}
  NoSale = NoSale
  Accounts = {c1}
  Refs <- MCRefs
  Terms <- MixedTerms
  Web = {w1}
  Jobs = {"expirePayments", "verifyPendingUsdt"}
  Buyer <- OneBuyer
  Price = 10
  BonusPct = 15
  Opening = 12
  AutoVerify = TRUE
  MaxTries = 1
  MaxActive = 1
  MaxFaults = 1
PROPERTIES
  KeepsContract
  RefundOnlyUnconfirmed
SYMMETRY SaleSymmetry
CHECK_DEADLOCK FALSE
