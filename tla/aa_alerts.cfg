SPECIFICATION Spec
CONSTANTS
  Orders = {o1, o2}
  Reservations = {}
  None = none
  MaxPairings = 2
  MaxRequests = 2
SYMMETRY OrderSymmetry
INVARIANTS
  TypeOK
  SoundTracksAlert
  ShownAlertIsOpen
  ConfirmationOutstanding
PROPERTIES
  ImplementsAlertQueue
