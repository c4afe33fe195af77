SPECIFICATION Spec
CONSTANTS
  j1 = j1  j2 = j2  pixiv = pixiv
  Jobs = {j1, j2}
  Keys = {pixiv}
  KeyOf <- OneKey
  Concurrency <- Zero
  Slots = {w1, w2}
  Tokens = {t1, t2}
  Requests = {r1}
  Ops = {"pause", "resume"}
  Outcomes = {"failed"}
  MaxRetries = 0
  MaxDispatch = 1
  MaxFaults = 0
  None = None
INVARIANTS ExecutionInv OneExecution ExecutionsWithinCapacity
SYMMETRY Symmetry
CHECK_DEADLOCK FALSE
