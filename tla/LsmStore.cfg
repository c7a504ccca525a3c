\* Five writes over two keys, one compaction call, one crash anywhere.
SPECIFICATION Spec
CONSTANTS
    Keys = {k1, k2}
    Values = {v1, v2}
    Empty = Empty
    WriteBuffer = 2
    MaxSSTables = 3
    CacheCapacity = 1
    MaxWrites = 5
    MaxCompactions = 1
    MaxCrashes = 1
CHECK_DEADLOCK FALSE
INVARIANTS FileIdsAreFresh
PROPERTIES GetSeesStore ImplementsKVStore
