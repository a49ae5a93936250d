SPECIFICATION Spec
CONSTANTS
  j1 = j1
  j2 = j2
  Jobs = {j1, j2}
  NoJob = NoJob
  Kinds <- MCKinds
  KindOf <- BatchAndImport
  Singletons <- MCSingletons
  Idempotent <- MCIdempotent
  Restartable <- MCRestartable
  Clients = {}
  MaxConcurrency = 1
  Persistent = TRUE
  MaxSubmitters = 2
  MaxCrashes = 1
  MaxLost = 1
INVARIANTS TypeOK
PROPERTIES NoOrphanLeft
CHECK_DEADLOCK FALSE
