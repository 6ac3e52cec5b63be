SPECIFICATION Spec
CONSTANTS
  s1 = s1  s2 = s2  c1 = c1
  Sales = {s1}
  NoSale = NoSale
  Accounts = {c1}
  Refs <- MCRefs
  Terms <- AllTerms
  Web = {w1, w2}
  Jobs = {"expirePayments", "verifyPendingUsdt"}
  Buyer <- OneBuyer
  Price = 10
  BonusPct = 15
  Opening = 12
  AutoVerify = TRUE
  MaxTries = 2
  MaxActive = 3
  MaxFaults = 0
INVARIANTS
  TypeOK
  DeliveredOnlyIfPaid
  ConfirmedOrderIsPaid
  ConfirmedTopupIsCredited
  RefundOnlyWhatWasTaken
SYMMETRY WebSymmetry
CHECK_DEADLOCK FALSE
