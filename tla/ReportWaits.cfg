SPECIFICATION FairSpec
CONSTANTS
  None = None
  Followed = {"sync", "tasks"}
PROPERTIES WaitsEnd
CHECK_DEADLOCK FALSE
