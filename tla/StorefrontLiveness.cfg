SPECIFICATION FairSpec
CONSTANTS
  s1 = s1  s2 = s2  c1 = c1
  Sales = {s1}
  NoSale = NoSale
  Accounts = {c1}
  Refs <- MCRefs
  Terms <- CardAndWalletOrders
  Web = {w1, w2}
  Jobs = {"expirePayments"}
  Buyer <- OneBuyer
  Price = 10
  BonusPct = 15
  Opening = 12
  AutoVerify = TRUE
  MaxTries = 1
  MaxActive = 3
  MaxFaults = 0
PROPERTIES
  ExpiryCloses
  CheckoutSettles
CHECK_DEADLOCK FALSE
