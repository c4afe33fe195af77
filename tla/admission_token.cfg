SPECIFICATION Spec
CONSTANTS
  j1 = j1  j2 = j2  pixiv = pixiv
  Jobs = {j1}
  Keys = {pixiv}
  KeyOf <- OneKey
  Concurrency <- One
  Slots = {w1, w2}
  Tokens = {t1, t2, t3}
  Requests = {r1}
  Ops = {"retry"}
  Outcomes = {"done", "failed"}
  MaxRetries = 1
  MaxDispatch = 1
  MaxFaults = 0
  None = None

PROPERTIES TokenAuthoritative

CHECK_DEADLOCK FALSE
