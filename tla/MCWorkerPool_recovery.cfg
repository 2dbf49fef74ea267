SPECIFICATION FairSpec
CONSTANTS
  c1 = c1
  c2 = c2
  Client <- OneClient
  InitSize = 1
  Sizes = {1}
  MaxSpawns = 2
  MaxTickets = 2
  MaxOrphans = 0
  MaxRacMaint = 1
  MaxResizes = 0
  MaxFaults = 0
  HasLifespan = FALSE
  EnableDanglingWorkerRecovery = TRUE
PROPERTIES
  RecoveryReleases
