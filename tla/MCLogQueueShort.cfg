\* A full disk cuts one record short.
SPECIFICATION FullDiskSpec
CONSTANTS
    SegmentLimit = 2
    QueueLimit = 4
    BatchSize = 1
    RotateSize = 2
    MaxLines = 3
    MaxRotations = 0
    MaxKills = 0
    MaxPowerLosses = 0
    MaxShortWrites = 1
INVARIANT RecordsDurable
CHECK_DEADLOCK FALSE
