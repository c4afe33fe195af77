CONSTANTS
  Groups = {c1}
  Singles = {c2}
  None = None
  Paid = {1}
  MaxPosts = 2
  MaxSent = 1
  MaxFaults = 1
SPECIFICATION FairSpec
INVARIANTS SubscriptionInv PauseHolds NothingPassedOver
PROPERTIES EventuallyQueued
