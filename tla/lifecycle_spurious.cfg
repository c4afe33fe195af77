SPECIFICATION Spec
CONSTANTS
  Mode = "download"
  Held = 0
  EarlyMetadata = FALSE
  Spurious = TRUE
  Pausing = FALSE
  MaxPages = 1
  MaxRetries = 0
  MaxFaults = 0
PROPERTIES DiscardsOnlyCancelled
CHECK_DEADLOCK FALSE
