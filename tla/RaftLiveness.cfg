\* Two elections in which any RPC may be lost: the failure bound is never reached.
SPECIFICATION FairSpec
CONSTANTS
    Nodes = {n1, n2, n3}
    Commands = {}
    Nil = Nil
    SnapshotThreshold = 0
    MaxElections = 2
    MaxRestarts = 0
    MaxFailures = 8
    MaxLate = 0
    MaxHeartbeats = 0
    MaxSnapshots = 0
CHECK_DEADLOCK FALSE
PROPERTY ElectionReturns
