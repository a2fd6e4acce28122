\* Two commands, undone and redone, with a user who edits meanwhile.
SPECIFICATION Spec
CONSTANTS
  MetaCells = {view}
  ViewCells = {view}
  RefCells = {}
  RepoCells = {}
  IndexCells = {}
  WorkCells = {file}
  Scopes = {{}, {file}}
  Values = {absent, one}
  Absent = absent
  NoImage = NoImage
  MaxUndo = 2
  MaxRedo = 1
  MaxNest = 0
  MaxDeferred = 0
INVARIANTS
  HistoryInv
  RollbackRestores
  UndoIsRecoverable
  GuardedUndoRevertsOnlyItsCommand
PROPERTY InEditorOrder
