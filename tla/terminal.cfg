SPECIFICATION TerminalSpec
CONSTANTS
  Codes = {c1}
  Requests = {r1, r2}
  Handlers = {h1}
  Verifiers = {v1}
  NoRequest = NoRequest
  MaxTokens = 2
  MaxFaults = 1
  Orders = {o1, o2}
  Jobs = {j1, j2}
  NoJob = NoJob
  JobAttempts = 2
  MaxPageFaults = 1
INVARIANTS
  TerminalTypeOK
  TokenNeedsApproval
  OneActiveDevice
  WaitingIsTimed
  AttentionIsTrue
PROPERTIES
  RevocationFinal
  DialoguesAdvance
CHECK_DEADLOCK FALSE
