SPECIFICATION Spec
CONSTANTS
  Nodes = {n1, n2}
  NoNode = NoNode
  Jobs = {j1}
  NoJob = NoJob
  Clients = {c1}
  Runs = {r1, r2}
  MaxConcurrency = 1
  MaxCrashes = 0
  MaxLost = 1
  MaxRequests = 2
  InWindow = FALSE
  ArchiveFails = FALSE
  Timely = TRUE
INVARIANTS OwnerKnown ActiveRowIsOwned IndInv
PROPERTIES ArchivedStaysGone
SYMMETRY Symmetry
CHECK_DEADLOCK FALSE
