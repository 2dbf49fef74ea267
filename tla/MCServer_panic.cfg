CONSTANTS
  rw = rw
  w1 = w1
  None = None
  Pool = {rw}
  MainPool = rw
  Worker = {w1}
  PoolOf <- OnePool
  Conn = {1}
  EvCap = 1
  ChanCap = 1
  Redial = {1}
  MaxFds = 0
  ConnAllowed = 2
  BacklogLimit = 0
  Configs <- AsItIs
SPECIFICATION Spec
INVARIANT NoPanic
CHECK_DEADLOCK FALSE
