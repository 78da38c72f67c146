\* One listener whose call to receive_message fails once.
SPECIFICATION ImportSpec
CONSTANTS
  Null = Null
  Jobs = {j1}
  Listeners = {l1}
  Logins = {x1}
  MaxReceives = 2
PROPERTY PollingGoesOn
CHECK_DEADLOCK FALSE
