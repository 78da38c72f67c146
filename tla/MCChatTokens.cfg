\* One stream whose client disconnects while text is arriving.
SPECIFICATION Spec
CONSTANTS
  Null = Null
  Requests = {r1}
  Messages = {m1}
  Rooms = {o1}
  Users = {u1}
  LibraryChoices = {FALSE}
  FileChoices = {FALSE}
INVARIANT ConsumedTokensRecorded
CHECK_DEADLOCK FALSE
