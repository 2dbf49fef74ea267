CONSTANTS
  ChanCap = 2
  RqIdMod = 8
  Served = 6
  MaxClients = 3
  MaxPackets = 5
SPECIFICATION Spec
INVARIANTS RqIdExact EqualIdMeansAllTaken
PROPERTIES RecoveredClean
CHECK_DEADLOCK FALSE
