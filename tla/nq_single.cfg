SPECIFICATION FairSpec
CONSTANTS
  NumCommands = 3
  Managers = {m1}
  NoManager = NoManager
  MaxAttempts = 3
  PrinterPath = "OFFICIAL_LIBRARY_PATH"
INVARIANTS
  TypeOK
  PrintedOncePerRequest
PROPERTIES
  ImplementsLifecycle
  EveryCommandServed
