SPECIFICATION Spec
CONSTANTS
  c1 = c1
  c2 = c2
  Client <- TwoClients
  InitSize = 1
  Sizes = {1}
  MaxSpawns = 2
  MaxTickets = 2
  MaxOrphans = 1
  MaxRacMaint = 0
  MaxResizes = 0
  MaxFaults = 1
  HasLifespan = FALSE
  EnableDanglingWorkerRecovery = FALSE
SYMMETRY ClientSymmetry
INVARIANTS
  TypeOK
  NoSharedWorker
  NoDoubleDispatch
  BacklogExact
PROPERTIES
  EntersQueueOnce
