\* Two commands of two hunks beside another git process and a writer that ignores
\* index.lock.
SPECIFICATION FairSpec
CONSTANTS
  Gits = {g}
  Bypassers = {b}
  None = None
  MaxCommands = 2
  MaxHunks = 2
INVARIANTS NoUpdateIsLost StagedTogether
PROPERTY CommandsEnd
CHECK_DEADLOCK FALSE
