\* Two streams on one thread, with attachments that may fail to save, under the
\* server's fairness; no symmetry.
SPECIFICATION FairSpec
CONSTANTS
  Null = Null
  Requests = {r1, r2}
  Messages = {m1}
  Rooms = {o1}
  Users = {u1}
  LibraryChoices = {FALSE}
  FileChoices = {TRUE}
PROPERTIES
  AnswerStored
  ImplementsLifecycle
CHECK_DEADLOCK FALSE
