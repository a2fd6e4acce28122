SPECIFICATION FairSpec
CONSTANTS
  Ops = {o1}
  Outputs = 2
  Packs = {p1, p2}
  None = None
  UserCommits = {u1, u2}
  MaxFaults = 2
  MaxMoves = 1
  MaxGcs = 1
CHECK_DEADLOCK FALSE
INVARIANTS
  CheckpointResumes
  BuildIsShielded
  LeaseEnds
  PointersAgree
PROPERTIES
  BranchMovesAreOwned
  RewriteIsAtomic
  RewriteEnds
