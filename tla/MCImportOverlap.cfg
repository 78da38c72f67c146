\* Two listeners and one file, delivered again while it is being imported.
SPECIFICATION ImportSpec
CONSTANTS
  Null = Null
  Jobs = {j1}
  Listeners = {l1, l2}
  Logins = {x1}
  MaxReceives = 2
PROPERTY FinishedIsFinal
CHECK_DEADLOCK FALSE
