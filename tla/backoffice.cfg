SPECIFICATION BackOfficeSpec
CONSTANTS
  Editors = {e1, e2}
  Readers = {f1}
  MaxEdits = 2
  MaxOutages = 1
  Checkouts = {c1, c2}
  Customers <- SomeCustomers
  Guest = Guest
  Baskets <- SomeBaskets
  Promotions <- SomePromotions
  MinimumOrder = 5
  DeliveryFee = 1
  MaxRedemptions = 3
  MaxPromotionEdits = 1
  Callers = {r1, r2}
  Limit = 2
  MaxCalls = 5
  MaxRedisFailures = 1
  Accounts = {a1}
  Addresses = {m1, m2}
  NoAddress = NoAddress
  Tasks = {t1, t2}
  NoAccount = NoAccount
  MaxLinks = 2
  MaxStaffEdits = 1
  Events = {p1}
  Mails = 2
  Secure = FALSE
  MaxBroken = 2
  Lists <- SomeLists
  Refreshes = {g1, g2}
  MaxSessions = 2
  MaxDeskEdits = 1
  MaxDeskFaults = 1
INVARIANTS
  BackOfficeTypeOK
  NoLostEdit
  PromotionKept
  OrderTotals
  AccountsKept
  SentMeansAccepted
PROPERTIES
  CopiesConverge
  WaitsEnd
CHECK_DEADLOCK FALSE
