SPECIFICATION Spec
CONSTANTS
  j1 = j1  j2 = j2  pixiv = pixiv
  Jobs = {j1}
  Keys = {pixiv}
  KeyOf <- OneKey
  Concurrency <- One
  Slots = {w1, w2}
  Tokens = {t1, t2, t3}
  Requests = {r1}
  Ops = {"pause", "resume", "retry", "reap"}
  Outcomes = {"done", "failed"}
  MaxRetries = 1
  MaxDispatch = 2
  MaxFaults = 2
  None = None
INVARIANTS AdmissionInv
PROPERTIES StaleReleaseHarmless
SYMMETRY Symmetry
CHECK_DEADLOCK FALSE
