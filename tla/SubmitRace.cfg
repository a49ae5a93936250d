SPECIFICATION Spec
CONSTANTS
  Nodes = {n1, n2}
  NoNode = NoNode
  Jobs = {j1}
  NoJob = NoJob
  Clients = {}
  Runs = {r1, r2}
  MaxConcurrency = 1
  MaxCrashes = 0
  MaxLost = 0
  MaxRequests = 0
  InWindow = TRUE
  ArchiveFails = FALSE
  Timely = TRUE
INVARIANTS NoDoubleExecution
CHECK_DEADLOCK FALSE
