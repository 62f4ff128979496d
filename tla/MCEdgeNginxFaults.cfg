\* A kill and a failure, each between any two statements.
CONSTANTS
    p1 = p1
    Pools = {p1}
    NoPool = NoPool
    Uses <- VersionUses
    Certificates <- VersionCertificates
    Unsteady <- FlakyService
    Broken = {2}
    FailureThreshold = 2
    RecoveryThreshold = 2
    StreakLimit = 2
    MaxVersion = 3
    MaxKills = 1
    MaxFailures = 1
SPECIFICATION LiveSpec
INVARIANTS LoadedNotBehind RollbackRestores
PROPERTIES AppliedMeansLoaded EdgeSettles
