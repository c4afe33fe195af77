SPECIFICATION Spec
CONSTANTS
  Mode = "repair"
  Held = 1
  EarlyMetadata = TRUE
  Spurious = FALSE
  Pausing = TRUE
  MaxPages = 2
  MaxRetries = 1
  MaxFaults = 1
INVARIANTS LifecycleInv HistoryKept
CHECK_DEADLOCK FALSE
