\* Two processes in two linked worktrees, commands and interactive interfaces,
\* each of which may die at any step.
SPECIFICATION Spec
CONSTANTS
  Procs = {p1, p2}
  Worktrees = {a, b}
  None = None
INVARIANTS LiveSessionIsOwned LiveSessionIsAnchored
