SPECIFICATION Spec
CONSTANTS
  Orders = {}
  Reservations = {r1, r2}
  None = none
  MaxPairings = 1
  MaxRequests = 2
INVARIANTS
  OneConfirmationPerRecord
