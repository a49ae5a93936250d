SPECIFICATION Spec
CONSTANTS
  j1 = j1
  j2 = j2
  Jobs = {j1, j2}
  NoJob = NoJob
  Kinds <- MCKinds
  KindOf <- TwoConsumers
  Singletons <- MCSingletons
  Idempotent <- MCIdempotent
  Restartable <- MCRestartable
  Clients = {c1, c2}
  MaxConcurrency = 1
  Persistent = FALSE
  MaxSubmitters = 1
  MaxCrashes = 0
  MaxLost = 0
INVARIANTS PermitAccounting SingletonAlive
PROPERTIES TerminalIsFinal ImplementsLifecycle
SYMMETRY Symmetry
CHECK_DEADLOCK FALSE
