\* An interactive interface checks the owner while another worktree starts a
\* session.
SPECIFICATION Spec
CONSTANTS
  Procs = {p1, p2}
  Worktrees = {a, b}
  None = None
PROPERTY ReclaimIsSafe
