SPECIFICATION PartSpec
CONSTANTS
  feed = feed  marks = marks  lookup = lookup  i1 = i1  i2 = i2  i3 = i3
  Lists = {feed, marks, lookup}
  Marks = {marks}
  Ephemeral = {lookup}
  Items = {i1, i2, i3}
  Rank <- ThreeItems
  Bookmarked = {i2, i3}
  PageSize = 1
  MaxEntries = 2
  Tight = FALSE
  Sources = {"library"}
  Batched = TRUE
  None = None
  MaxSteps = 3
  Docs = {d1, d2}
  TabIds = {1, 2, 3, 4}
  Contenders = {1, 2, 3, 4}
  NoTab = NoTab
  MaxOpens = 0
  PageCount = 1
  ProxySlots = 1
  LocalSlots = 1
  KeepAhead = 0
  Ahead = 1
  Behind = 0
  PixelBudget = 0
  Pixels <- OneLarge
  Videos = {}
  Listings <- FiveLists
  MaxCommits = 0
PROPERTIES RestoreNotRefreshed
CHECK_DEADLOCK FALSE
