CONSTANTS
  d1 = d1
  d2 = d2
  Serving = {d1, d2}
  OthersMeanwhile = FALSE
  MaxRenders = 1
  MaxHitches = 1
  MaxTokens = 1
  MaxEdits = 2
  MaxMishaps = 1
  Snapshots = {"s1", "s2"}
  MaxJobs = 2
  MaxMishapsR = 2
SPECIFICATION Workflows
INVARIANTS
  LeavesUnneeded
  RevocationSticks
PROPERTIES
  ServiceEndsFirst
  CutoverAllOrNothing
  
CHECK_DEADLOCK FALSE
