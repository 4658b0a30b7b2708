SPECIFICATION NativeSpec
CONSTANTS
  NumCommands = 2
  Managers = {m1, m2}
  NoManager = NoManager
  MaxAttempts = 2
  PrinterPath = "LEGACY_AIDL_PATH"
  NumFamilies = 2
  InUse = {"receipt", "officialText", "officialBitmap", "custom", "image",
           "transaction", "line", "lines", "block", "buffered", "segments",
           "probe", "gated", "text", "bufferedText", "bitmaps", "vendor",
           "compare", "diagnostics", "tiny", "smoke", "selfCheck", "robust"}
  MaxUpsets = 2
INVARIANTS
  NoLostWakeup
  WorkerOwnsDispatching
  TransportContract
SYMMETRY ManagerSymmetry
