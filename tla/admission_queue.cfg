SPECIFICATION QueueSpec
CONSTANTS
  j1 = j1  j2 = j2  pixiv = pixiv
  w1 = w1
  Jobs = {j1, j2}
  Keys = {pixiv}
  KeyOf <- OneKey
  Concurrency <- Zero
  Slots = {w1, w2}
  Tokens = {t1, t2}
  Requests = {}
  Ops = {}
  Outcomes = {"done"}
  MaxRetries = 0
  MaxDispatch = 1
  MaxFaults = 1
  None = None
INVARIANTS FifoInv
PROPERTIES LeavesQueue LeavesQueueDespiteFaults FifoAdmission ImplementsPool
CHECK_DEADLOCK FALSE
