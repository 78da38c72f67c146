\* Two users, two threads in one room, two streams: every interleaving.
SPECIFICATION Spec
CONSTANTS
  r1 = r1  r2 = r2  m1 = m1  m2 = m2  o1 = o1  u1 = u1  u2 = u2
  Null = Null
  Requests = {r1, r2}
  Messages = {m1, m2}
  Rooms = {o1}
  Users = {u1, u2}
  LibraryChoices = {TRUE}
  FileChoices = {FALSE}
SYMMETRY Symmetry
INVARIANTS
  LibraryBesideAnswer
  UsageRecorded
  CompleteIsKept
  OnlyOwnersAnswer
  StatusFitsAnswer
PROPERTY UsageSurvives
CHECK_DEADLOCK FALSE
