SPECIFICATION FairSpec
CONSTANTS
  j1 = j1
  j2 = j2
  Jobs = {j1}
  NoJob = NoJob
  Kinds <- MCKinds
  KindOf <- OneBatch
  Singletons <- MCSingletons
  Idempotent <- MCIdempotent
  Restartable <- MCRestartable
  Clients = {c1}
  MaxConcurrency = 1
  Persistent = TRUE
  MaxSubmitters = 1
  MaxCrashes = 2
  MaxLost = 0
INVARIANTS IndInv
PROPERTIES RowNeverRequeued EndedStaysEnded CancelTakesEffect
CHECK_DEADLOCK FALSE
