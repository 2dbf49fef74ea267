CONSTANTS
  Worker = {w1, w2}
  ClockSize = 4
  Threshold = 1
  ThrottleCnt = 0
  BacklogLimit = 1
  MaxBacklog = 1
  CtrlCap = 2
SPECIFICATION SatSpec
INVARIANTS OncePerRequest
PROPERTIES OldestTenant NotIdle LongEnds
