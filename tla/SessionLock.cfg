\* Two interactive interfaces and a command line process: prompts of both open
\* at once, a child that outlives its parent, deaths with the lock file empty.
SPECIFICATION FairSpec
CONSTANTS
  Procs = {t1, t2, c}
  Tuis = {t1, t2}
  None = None
  MaxCommands = 4
  MaxWork = 3
INVARIANTS OneWriter NoSelfDeadlock ActsOnLoadedChange
PROPERTY PromptsBlockNobody
CHECK_DEADLOCK FALSE
