SPECIFICATION FairSpec
CONSTANTS
  NumJobs = 1
  Managers = {m1}
  NoManager = NoManager
  MaxAttempts = 3
PROPERTIES
  PrintingEnds
