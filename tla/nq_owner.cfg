SPECIFICATION Spec
CONSTANTS
  NumCommands = 1
  Managers = {m1, m2}
  NoManager = NoManager
  MaxAttempts = 2
  PrinterPath = "OFFICIAL_LIBRARY_PATH"
INVARIANTS
  OneWorkerPerCommand
