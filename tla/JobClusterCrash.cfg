SPECIFICATION FairSpec
CONSTANTS
  Nodes = {n1, n2}
  NoNode = NoNode
  Jobs = {j1}
  NoJob = NoJob
  Clients = {}
  Runs = {r1, r2, r3}
  MaxConcurrency = 1
  MaxCrashes = 1
  MaxLost = 1
  MaxRequests = 1
  InWindow = FALSE
  ArchiveFails = FALSE
  Timely = TRUE
INVARIANTS OneActiveOwner NoDoubleExecution
PROPERTIES ImplementsLease OrphansReclaimed
CHECK_DEADLOCK FALSE
