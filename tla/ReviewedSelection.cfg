\* Two files of two lines, four commands and one accident: the user edits or
\* stages a file at any moment, or a command dies between any two of its writes.
SPECIFICATION Spec
SYMMETRY Symmetry
CONSTRAINT OneAccident
CONSTANTS
  Paths = {f, g}
  Slots = {1, 2}
  Texts = {x, y}
  Old = Old
  None = None
  MaxCommands = 4
  MaxEdits = 1
  MaxDeaths = 1
\* The bounds end every behaviour: after the last command and the accident
\* nobody has anything left to do.
CHECK_DEADLOCK FALSE
PROPERTIES
  ActsOnWhatWasShown
  IdsAreNeverReused
  WholeFileWasShown
