\* Every part of the web application, each on a small instance of its own.
SPECIFICATION ClientFairSpec
CONSTANTS
  ChatRooms = {"r1", "r2"}
  NoChatRoom = "no"
  FirstRoom = "r1"
  Before = {0, 2}
  MaxDid = 3
  Rooms = {"r1", "r2"}
  Libraries = {"l1"}
  Streams = {"s1", "s2"}
  Shelf <- MCShelf
  NoRoom = "noroom"
  NoLibrary = "nolib"
  MaxOps = 3
  Lists <- MCLists
  Matches = {2}
  Added = 4
  MaxMoves = 3
  Servers <- MCServers
  Kept <- MCKept
  Teams <- MCTeams
  MaxDone = 3
  MaxActs = 4
  Assistants <- MCAssistants
  MainOne = "a"
  Default <- MCDefault
  SharedRoom = "x"
  Hits <- MCHits
  MaxEvents = 4
  Rows0 <- MCRows
  Found = {2}
  Fresh = 3
  MaxSteps = 4
  Held <- MCHeld
  NewFolder = "g3"
  NewFile = 4
  DisplayNames = {"a", "b"}
  MaxTouches = 2
INVARIANTS
  ClientTypes
  StreamOwns
  AnswersSettle
  ThreadOfRoom
  PendingExact
  AdmittedOnly
  TenantKept
  ListsWhole
  RefusalTold
  FilesAgree
  SettledRows
  TitleOfRoute
  SubmittedOfType
  ControlsHeard
  FormsWhole
  SentWhereShown
PROPERTIES
  TakenIsShown
  NavigationEnds
CHECK_DEADLOCK FALSE
