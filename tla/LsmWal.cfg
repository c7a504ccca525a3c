\* A restart with records in the log.
SPECIFICATION Spec
CONSTANTS
    Keys = {k1, k2}
    Values = {v1, v2}
    Empty = Empty
    WriteBuffer = 2
    MaxSSTables = 3
    CacheCapacity = 1
    MaxWrites = 2
    MaxCompactions = 0
    MaxCrashes = 1
CHECK_DEADLOCK FALSE
INVARIANT WalProtectsMem
