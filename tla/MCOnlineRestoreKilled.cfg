\* One job and one kill in the cutover.
CONSTANTS
  Snapshots = {"s1"}
  MaxJobs = 1
  MaxMishapsR = 1
SPECIFICATION InterruptedRestore
PROPERTY CutoverAllOrNothing
CHECK_DEADLOCK FALSE
