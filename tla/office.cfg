SPECIFICATION OfficeSpec
CONSTANTS
  Clients = {k1, k2}
  MaxPresses = 2
  MaxConsents = 1
  MaxCampaignFaults = 1
  Codes = {d1}
  NoCode = NoCode
  Filters = {"all", "inactive"}
  ListReads = {l1, l2}
  MaxFilters = 1
  MaxCodeWrites = 2
  MaxCodeFaults = 1
  NumChanges = 3
  PrepTimes = {30}
  MaxMailFaults = 1
  Persons = {p1, p2}
  Nobody = Nobody
  LoginScreens = {s1, s2}
  MaxLogins = 2
  MaxProfileEdits = 1
  MaxPersists = 2
  MaxSessionFaults = 1
  Products = {x1}
  MaxQuantity = 3
  MinimumOrder = 2
  Sends = {o1, o2}
  MaxPreviews = 2
INVARIANTS
  OfficeTypeOK
  ReachesTheAudience
  RepeatedAfterErrors
  PageIsCurrent
  ChangesKept
  AppKept
CHECK_DEADLOCK FALSE
