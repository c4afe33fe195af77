SPECIFICATION Spec
CONSTANTS
  Mode = "download"
  Held = 0
  EarlyMetadata = FALSE
  Spurious = FALSE
  Pausing = TRUE
  MaxPages = 1
  MaxRetries = 0
  MaxFaults = 0
PROPERTIES StoppedStaysTerminal
CHECK_DEADLOCK FALSE
