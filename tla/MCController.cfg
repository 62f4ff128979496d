CONSTANTS
  probe = probe
  ProbeTargets = {probe}
  Scores = {1, 2, 3}
  Configs <- RoutingRules
  FirstConfigs <- AnyRules
  MinResumeRounds = 2
  WeekDays = 3
  DayMinutes = 3
  MaxProbes = 3
  MaxInFlight = 2
  MaxCommands = 1
  MaxChecks = 9
  edge = edge
  page = page
  other = other
  Edges = {edge}
  Urls = {page, other}
  Scopes <- SomeScopes
  MaxRules = 1
  MaxJobs = 1
  MaxOperations = 3
  MaxEdits = 1
  MaxRuns = 3
  MaxEdgeFaults = 1
  object = object
  image = image
  url = url
  url2 = url2
  carrier1 = carrier1
  Objects = {object, image}
  Paths = {url, url2}
  Carriers = {carrier1}
  MaxChanges = 4
  MaxMishaps = 1
  bundle1 = bundle1
  bundle2 = bundle2
  rebuilt = rebuilt
  Bundles = {bundle1, bundle2, rebuilt}
  Release <- Versions
  MaxOrders = 1
  MaxStops = 1
  task1 = task1
  slot = slot
  Items = {task1, slot}
  Slots = {slot}
  ListingLimit = 1
  MonthsKept = 1
  MaxLives = 2
  MaxMonths = 2
  Cooldown = 2
  MaxTurns = 4
  MaxMinutes = 2
  MaxMailFaults = 1
  FreshHours = 2
  StallHours = 1
  ProofHours = 2
  RetryHours = 1
  MaxHours = 3
  MaxRestoreJobs = 2
  MaxBackups = 1
  MaxWatchFaults = 1
  enforcer1 = enforcer1
  author1 = author1
  author2 = author2
  rule1 = rule1
  rule2 = rule2
  Enforcers = {enforcer1}
  Authors = {author1, author2}
  RuleIds = {rule1, rule2}
  BuiltIn = {rule1}
  LegacyRules = {rule1}
  MaxSaves = 2
  MaxAgents = 1
  MaxHindrances = 1
  console = console
  visit1 = visit1
  visit2 = visit2
  Consoles = {console}
  Terminals = {visit1, visit2}
  MaxWires = 2
  MaxTerminalFaults = 1
SPECIFICATION Controller
INVARIANTS
  GatesHold
  CacheHolds
  AssetsHold
  BundlesKept
  NotificationsHold
  WatchHolds
  RulesHold
  TerminalsHold
CHECK_DEADLOCK FALSE
