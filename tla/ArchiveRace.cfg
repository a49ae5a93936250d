SPECIFICATION Spec
CONSTANTS
  Nodes = {n1, n2}
  NoNode = NoNode
  Jobs = {j1}
  NoJob = NoJob
  Clients = {c1}
  Runs = {r1, r2, r3}
  MaxConcurrency = 1
  MaxCrashes = 0
  MaxLost = 1
  MaxRequests = 1
  InWindow = FALSE
  ArchiveFails = TRUE
  Timely = TRUE
INVARIANTS NoDoubleExecution
SYMMETRY Symmetry
CHECK_DEADLOCK FALSE
