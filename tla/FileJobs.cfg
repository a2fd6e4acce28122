\* Two workers for three jobs, each small or bulky; one death, interrupt or late exit.
SPECIFICATION FairSpec
CONSTANTS
  JobCount = 3
  WorkerCount = 2
  Large = {3}
  Bulky = {2, 3}
  MaxFaults = 1
INVARIANTS SuccessIsComplete BlamesLowestFailure WorkersEndFirst
PROPERTY CallEnds
CHECK_DEADLOCK FALSE
