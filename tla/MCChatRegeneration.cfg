\* An answer, and two regenerations of it that overlap.
SPECIFICATION Spec
CONSTANTS
  Null = Null
  Requests = {r1, r2, r3}
  Messages = {m1}
  Rooms = {o1}
  Users = {u1}
  LibraryChoices = {FALSE}
  FileChoices = {FALSE}
SYMMETRY Symmetry
PROPERTY RegenerationOverwrites
CHECK_DEADLOCK FALSE
