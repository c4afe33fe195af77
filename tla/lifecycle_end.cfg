SPECIFICATION FairSpec
CONSTANTS
  Mode = "download"
  Held = 1
  EarlyMetadata = FALSE
  Spurious = FALSE
  Pausing = FALSE
  MaxPages = 3
  MaxRetries = 0
  MaxFaults = 2
INVARIANTS OutcomeInv HistoryKept OneKeeper CancelXorKeep GallerySettled
PROPERTIES DiscardsOnlyCancelled StopServed
CHECK_DEADLOCK FALSE
