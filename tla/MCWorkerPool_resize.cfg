SPECIFICATION Spec
CONSTANTS
  c1 = c1
  c2 = c2
  Client <- NoClient
  InitSize = 3
  Sizes = {1, 2}
  MaxSpawns = 4
  MaxTickets = 1
  MaxOrphans = 0
  MaxRacMaint = 0
  MaxResizes = 2
  MaxFaults = 1
  HasLifespan = FALSE
  EnableDanglingWorkerRecovery = FALSE
INVARIANTS
  LoopsInRange
  HealthyExact
  NeverIdleWhenTerminated
