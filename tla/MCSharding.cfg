CONSTANTS
  Session = {1, 2}
  NumOfShards = 2
  MaxScuttleBuckets = 3
  Value = {1, 2}
  Null = Null
  None = None
  Murmur3 <- Identity
  Byte = 3
  Config <- Configs
  Statement <- BothKinds
  Composite = {2}
  Table <- ThreeBuckets
  WLTable <- WLTables
  Workers = 1
  MaxRequests <- ThreeAndTwo
  MaxLoads = 1
SPECIFICATION Spec
INVARIANT InRange
PROPERTY Responds
CHECK_DEADLOCK FALSE
