\* Two sessions of one path in every state, with three acts and one process that
\* dies; or one session and one act on two paths (OneOrTheOther).
SPECIFICATION Spec
SYMMETRY Values
CONSTRAINT OneOrTheOther
CONSTANTS
  Paths = {p, q}
  Contents = {a, b}
  None = None
  IntentToAdd = IntentToAdd
  BatchStates = {one, two}
  Missing = Missing
  NoStash = NoStash
  MaxActs = 3
  MaxCrashes = 1
  MaxStarts = 2
\* The bounds end every behaviour: once acts, crashes and starts are used up
\* and the session is cleared nobody has anything left to do.
CHECK_DEADLOCK FALSE
INVARIANTS
  ActiveMeansRecoverable
  InactiveStartKeepsWork
PROPERTIES
  FailedStartLeavesNoTrace
  AbortRestores
  QuietStopUndoesStart
  StopKeepsStagedWork
