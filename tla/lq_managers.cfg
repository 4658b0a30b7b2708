SPECIFICATION LegacySpec
CONSTANTS
  NumJobs = 2
  Managers = {m1, m2}
  NoManager = NoManager
  MaxAttempts = 3
  Printers = {p1, p2}
  InUse = {"mixed", "chunks", "test", "parity"}
  MaxUpsets = 1
INVARIANTS
  LegacyTypeOK
  OneExecutor
  PrintsAreCounted
  FreshJobsAreSeen
  OneTicketAtATime
SYMMETRY ManagerSymmetry
