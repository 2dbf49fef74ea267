CONSTANTS
  rw = rw
  w1 = w1
  None = None
  Pool = {rw}
  MainPool = rw
  Worker = {w1}
  PoolOf <- OnePool
  Conn = {1, 2, 3, 4, 5}
  EvCap = 1
  ChanCap = 1
  Redial = {}
  MaxFds = 5
  ConnAllowed = 3
  BacklogLimit = 0
  Configs <- BouncerAsItIs
SPECIFICATION Spec
PROPERTY Reconfirmed
CONSTRAINT OneByOne
CHECK_DEADLOCK FALSE
