\* Two leaders, two writes and an extra round; every RPC is answered.
SPECIFICATION Spec
CONSTANTS
    Nodes = {n1, n2, n3}
    Commands = {v1, v2}
    Nil = Nil
    SnapshotThreshold = 0
    MaxElections = 2
    MaxRestarts = 0
    MaxFailures = 0
    MaxLate = 0
    MaxHeartbeats = 1
    MaxSnapshots = 0
SYMMETRY Symmetry
CHECK_DEADLOCK FALSE
INVARIANTS TypeOK OneCommandPerSlot LogContiguous
