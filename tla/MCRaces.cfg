CONSTANTS
  n1 = n1
  w1 = w1
  w2 = w2
  Nodes = {n1}
  Workers = {w1, w2}
  Publisher = Publisher
  NoNode = NoNode
  NoReport = NoReport
  SlowRendering = FALSE
  MaxTasks = 2
  MaxVersion = 1
  p1 = p1
  p2 = p2
  Peers = {p1, p2}
  MaxChanges = 1
  MaxTests = 0
  MaxTroubles = 1
  SegmentLimit = 3
  QueueLimit = 4
  BatchSize = 2
  RotateSize = 2
  MaxLines = 5
  MaxRotations = 1
  MaxKills = 1
  MaxPowerLosses = 1
  MaxShortWrites = 0
  Guards = {g1}
  Exposed = {g1}
  Visitors = {v1}
  BatchLimit = 1
  BanTicks = 1
  MaxMatches = 2
  MaxClock = 1
  MaxOrders = 2
  MaxOutages = 2
  u1 = u1
  u2 = u2
  u3 = u3
  NodeOrder <- ThreeNodes
  Requested = {u3}
  MaxParallel = 1
  MaxUpgradeTasks = 4
  MaxArtifact = 2
  MaxRollouts = 1
  MaxDisturbances = 1
  h1 = h1
  h2 = h2
  c1 = c1
  c2 = c2
  CheckIds = {c1, c2}
  Assigned = {h1, h2}
  Now = 10
  HeartbeatAge = 3
  ProbeAge = 6
  TaskAge = 5
  RunAge = 3
  BackupAge = 6
  Skew = 1
  Soon = 1
  Renewal = 3
  Validity = 2
  Retention = 2
  MaxTicks = 3
SYMMETRY WorkerSymmetry
SPECIFICATION Races
INVARIANTS
  
  
  QueueSound
  BansHold
  InstallsHold
  HealthCenterHonest
PROPERTIES
  ResultsStayCurrent
  DeliversInOrder
  RolloutStaged
CHECK_DEADLOCK FALSE
