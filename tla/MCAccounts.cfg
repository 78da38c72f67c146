\* Every day of fifteen months is asked for, for every contract; two requests at
\* a time, limits of one or two credits, at most two a request; two requests at a
\* time for files and indexes, two files to be created, one source, a limit of one
\* index; texts with markers in and out of order, cut anywhere; two requests, two
\* passwords, one session and one password kept; two replacements, two targets.
SPECIFICATION AccountsSpec
CONSTANTS
  NoPeriod = NoPeriod
  Contracts <- MCContracts
  FirstDay <- MCFirstDay
  LastDay <- MCLastDay
  NoWork = NoWork
  Requests = {r1, r2}
  PlanCredits = 1
  MaxExtra = 1
  MaxCost = 2
  Callers = {c1, c2}
  FileIds = {f1, f2}
  IndexIds = {i1, i2, i3}
  Sources = {b1}
  Feedbacks = {b1}
  SaasLimit = 1
  MaxBroken = 1
  None = None
  Texts <- MCTexts
  TitleMax = 2
  Default = Default
  Calls = {k1, k2}
  Passwords = {p1, p2}
  SessionIds = {x1}
  Kept = 1
  MaxChanges = 3
  Nothing = Nothing
  Writers = {w1, w2}
  Targets = {t1, t2}
  Absent = Absent
INVARIANTS
  BoundaryExpected
  ResetAsAnnounced
  OvershootBounded
  FilesMatch
  LimitHolds
  SectionsWhole
  SignInKept
  LinksAsAsked
PROPERTIES
  SearchAdvances
CHECK_DEADLOCK FALSE
