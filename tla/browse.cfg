SPECIFICATION FairPartSpec
CONSTANTS
  feed = feed  marks = marks  lookup = lookup  i1 = i1  i2 = i2  i3 = i3
  Lists = {feed, marks, lookup}
  Marks = {marks}
  Ephemeral = {lookup}
  Items = {i1, i2, i3}
  Rank <- ThreeItems
  Bookmarked = {i2, i3}
  PageSize = 1
  MaxEntries = 2
  Tight = TRUE
  Sources = {"pixiv", "library", "ehentai"}
  Batched = FALSE
  None = None
  MaxSteps = 3
  Docs = {d1, d2}
  TabIds = {1, 2, 3, 4}
  Contenders = {1, 2, 3, 4}
  NoTab = NoTab
  MaxOpens = 4
  PageCount = 6
  ProxySlots = 2
  LocalSlots = 2
  KeepAhead = 2
  Ahead = 2
  Behind = 1
  PixelBudget = 2
  Pixels <- OneLarge
  Videos = {5}
  Listings <- FiveLists
  MaxCommits = 2
INVARIANTS BrowseTypeOK ListInv OwnItems NeverOlder NoDuplicates NoGaps LoadingIsAnswered EphemeralNeverFetched TabInv SharedOnlyUntilTold ReaderInv SlotsCounted FetchedOnce InReach NotStalled
PROPERTIES EventuallySettled
CHECK_DEADLOCK FALSE
