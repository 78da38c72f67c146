\* A session expires while a page of the application is open.
SPECIFICATION ClientSpec
CONSTANTS
  ChatRooms = {"r1", "r2"}
  NoChatRoom = "no"
  FirstRoom = "r1"
  Before = {0, 2}
  MaxDid = 2
  Rooms = {"r1", "r2"}
  Libraries = {"l1"}
  Streams = {"s1", "s2"}
  Shelf <- MCShelf
  NoRoom = "noroom"
  NoLibrary = "nolib"
  MaxOps = 3
  Lists <- MCLists
  Matches = {2}
  Added = 4
  MaxMoves = 2
  Servers <- MCServers
  Kept <- MCKept
  Teams <- MCTeams
  MaxDone = 3
  MaxActs = 4
  Assistants <- MCAssistants
  MainOne = "a"
  Default <- MCDefault
  SharedRoom = "x"
  Hits <- MCHits
  MaxEvents = 4
  Rows0 <- MCRows
  Found = {2}
  Fresh = 3
  MaxSteps = 4
  Held <- MCHeld
  NewFolder = "g3"
  NewFile = 4
  DisplayNames = {"a", "b"}
  MaxTouches = 2
INVARIANT ExpiryReachesLogin
CHECK_DEADLOCK FALSE
