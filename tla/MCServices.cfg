CONSTANTS
  Peers = {p1}
  MaxChanges = 1
  MaxTests = 1
  MaxTroubles = 1
  SegmentLimit = 2
  QueueLimit = 3
  BatchSize = 2
  RotateSize = 2
  MaxLines = 3
  MaxRotations = 1
  MaxKills = 0
  MaxPowerLosses = 1
  MaxShortWrites = 0
  Guards = {g1, g2}
  Exposed = {g1}
  Visitors = {v1}
  BatchLimit = 1
  BanTicks = 1
  MaxMatches = 1
  MaxClock = 0
  MaxOrders = 1
  MaxOutages = 1
  u1 = u1
  u2 = u2
  NodeOrder <- TwoNodes
  Requested = {}
  MaxParallel = 1
  MaxArtifact = 1
  MaxUpgradeTasks = 2
  MaxRollouts = 1
  MaxDisturbances = 1
SPECIFICATION Services
PROPERTIES
  
  LinesDelivered
  BansSettle
  UpgradesEnd
CHECK_DEADLOCK FALSE
