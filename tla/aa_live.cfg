SPECIFICATION FairSpec
CONSTANTS
  Orders = {}
  Reservations = {r1, r2}
  None = none
  MaxPairings = 1
  MaxRequests = 1
PROPERTIES
  AlertsFollow
  ConfirmationEnds
