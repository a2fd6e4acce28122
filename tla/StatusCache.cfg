\* One interactive interface and one command line process beside the prompt and
\* its worker; two sessions, so that an entry may outlive its own.
SPECIFICATION FairCacheSpec
CONSTANTS
  Procs = {t, c}
  Tuis = {t}
  None = None
  MaxCommands = 2
  MaxWork = 2
  MaxSessions = 2
INVARIANTS CurrentEntryIsTrue
PROPERTY CacheCatchesUp
CHECK_DEADLOCK FALSE
