CONSTANTS
  Caller = {c1, c2}
  Worker <- Ids
  PoolOf <- OneOfEach
  Sql = {q1}
  None = None
  BinDuration = 1
  NormallySlowCount = 2
  AllowSlowEveryX = 2
  Reporter = {c1, c2}
  tafMaxPct = 5
  tafMinPct = 1
  tafPctChange = 2
  tafDeltaPctMin = 1
  tafDeltaPctMax = 4
  Percent = 4
SPECIFICATION FailoverSpec
INVARIANTS PctInRange DeltaInRange OneSource 
PROPERTIES FailsOver Recovers SlowSpaced ComeBack Ends
