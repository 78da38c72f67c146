\* One stream whose attachments fail to save.
SPECIFICATION Spec
CONSTANTS
  Null = Null
  Requests = {r1}
  Messages = {m1}
  Rooms = {o1}
  Users = {u1}
  LibraryChoices = {FALSE}
  FileChoices = {TRUE}
INVARIANT FilesFailureIsHarmless
CHECK_DEADLOCK FALSE
