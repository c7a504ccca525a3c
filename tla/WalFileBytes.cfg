\* Strings of all kinds, two operations in a batch, two batches, one crash.
SPECIFICATION Spec
CONSTANTS
    Strings <- MCStrings
    VarintBase = 3
    MaxOps = 2
    MaxBatches = 2
    MaxCrashes = 1
CHECK_DEADLOCK FALSE
INVARIANTS AckedBatchesRecovered RecoveredBatchesWritten
