\* abort after a stop that died.
SPECIFICATION Spec
CONSTANTS
  Paths = {p}
  Contents = {a, b}
  None = None
  IntentToAdd = IntentToAdd
  BatchStates = {one}
  Missing = Missing
  NoStash = NoStash
  MaxActs = 4
  MaxCrashes = 1
  MaxStarts = 1
\* The bounds end every behaviour: once acts, crashes and starts are used up
\* and the session is cleared nobody has anything left to do.
CHECK_DEADLOCK FALSE
PROPERTIES
  AbortIsNeverDestructive
