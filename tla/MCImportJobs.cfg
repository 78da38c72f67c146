\* Two listeners with one file, or one with two files that name one user: every
\* failure, crash and delivery, and what the queue and the container service owe.
SPECIFICATION ImportSpec
CONSTANTS
  Null = Null
  Jobs = {j1, j2}
  Listeners = {l1, l2}
  Logins = {x1}
  MaxReceives = 2
INVARIANTS
  StrandedOnlyOvertaken
  FileServesUntilOvertaken
  ImportedOrReported
PROPERTIES
  FinalUntilOvertaken
  EndsUnlessOvertaken
CHECK_DEADLOCK FALSE
