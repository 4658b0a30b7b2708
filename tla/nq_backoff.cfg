SPECIFICATION FairSpec
CONSTANTS
  NumCommands = 1
  Managers = {m1}
  NoManager = NoManager
  MaxAttempts = 2
  PrinterPath = "OFFICIAL_LIBRARY_PATH"
PROPERTIES
  QueuedJobsAreResumed
