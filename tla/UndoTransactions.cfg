\* One command at a time: nested and deferred contexts, failures, rollback, crashes.
SPECIFICATION Spec
CONSTANTS
  MetaCells = {status}
  ViewCells = {}
  RefCells = {ref}
  RepoCells = {intent}
  IndexCells = {entry}
  WorkCells = {file}
  Scopes = {{}, {file}, {intent, entry, file}}
  Values = {absent, one}
  Absent = absent
  NoImage = NoImage
  MaxUndo = 1
  MaxRedo = 0
  MaxNest = 1
  MaxDeferred = 1
INVARIANTS
  UnarmedWritesNothing
  BeforeImageCovers
  AnnouncedOnlyIfCommitted
  SwallowedFailureRollsBack
