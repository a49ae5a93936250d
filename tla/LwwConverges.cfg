SPECIFICATION Spec
CONSTANTS
  None = None
  MayLose = FALSE
  MaxWire = 2
  MaxChanges = 2
  MaxRounds = 3
  Defs = {"k0", "k1"}
  NewKey = "k0"
  OldDrafts <- StoredDrafts
  Began = 1
  MaxStamp = 2
  MaxVersions = 1
  DocTypes = {"T", "U"}
  Keyed = {"U"}
  OldDocs = {1}
  TypeOf <- FirstType
  Begins = {"draft", "returned"}
  New = {2, 3}
  RowIds = {1, 2}
  NoDoc = 0
  MaxSessions = 2
  Dbs = {"d1", "d2"}
  Domains = {"f"}
  DomainOf <- DomainOfDb
  FirstListed <- FirstDb
  MaxVersion = 2
  StoredRows = {"a", "b"}
  System = {"b"}
  Temp = {"t"}
  Views = {"all", "part"}
  Shows <- ShownRows
  Database = "d"
  MaxOthers = 1
  Peers = {"p1", "p2"}
  Shapes = {"n1"}
  Arrow = "n2"
  Main = "m"
  Unlisted = {"k1"}
  Branches = {"d", "o"}
  Default = "d"
  MaxChain = 1
  MaxRows = 2
  Tasks = {1, 2, 3, 4, 5}
  FirstIn <- FirstLists
  FormOf <- BoundForms
  ConsoleOf <- Consoles
  PageSize = 1
  Dicts = {"A", "B"}
  Trees = {"A"}
  DictOf <- TreeOf
  ParentOf <- ParentNode
  TopNode = "root"
  All = "all"
  Objects = {"A", "B"}
  Kinetic = {}
  Links = {"l"}
  EndsOf <- LinkEnds
  KeyedObjects = {"A"}
  NameAt <- RowNames
  Bad = ""
  MaxJobs = 2
  OldJobs <- NoJobs
  MaxSteps = 0
  MaxFeed = 1
  HelpTopics = {"a", "b", "c"}
  TopicGroup <- GroupOfTopic
  TopicLinks <- LinkedTopics
  FirstRead = "a"
  RecordIds = {"x", "y"}
  FreshId = ""
  FirstRecords <- ThreeRecords
  MaxNames = 1
  Windows = {"w"}
  KeyNames = {"a", "__h"}
  Hidden = {"__h"}
  ValueNames = {"v"}
  ValueTypes = {"S", "D"}
  MaxDepth = 2
  FieldNames = {"a"}
  MaxDecls = 1
  MaxEdits = 4
  StartDefs = {"d1", "d2"}
  Returns = {"n1", "n2"}
  DirectReturn = "n1"
  Workspace = FALSE
  MaxActs = 5
  Followed = {"collab"}
INVARIANTS PagesConverge
CHECK_DEADLOCK FALSE
