\* Two writes of one block, one disk error, one crash, one delete.
SPECIFICATION FairSpec
CONSTANTS
    d1 = d1
    d2 = d2
    Requests = {r1, r2}
    Pipeline <- TwoNodes
    None = None
    MaxDiskErrors = 1
    MaxCrashes = 1
    MaxDeletes = 1
CHECK_DEADLOCK FALSE
INVARIANTS ReportedIsStored CompleteWriteReadable
PROPERTY WriteAnswered
