SPECIFICATION Spec
CONSTANTS
  Mode = "download"
  Held = 0
  EarlyMetadata = FALSE
  Spurious = FALSE
  Pausing = FALSE
  MaxPages = 1
  MaxRetries = 1
  MaxFaults = 0
PROPERTIES CancelWins
CHECK_DEADLOCK FALSE
