\* Two elections and two writes: an old entry stays in a follower.
SPECIFICATION Spec
CONSTANTS
    Nodes = {n1, n2, n3}
    Commands = {v1, v2}
    Nil = Nil
    SnapshotThreshold = 0
    MaxElections = 2
    MaxRestarts = 0
    MaxFailures = 2
    MaxLate = 0
    MaxHeartbeats = 0
    MaxSnapshots = 0
SYMMETRY Symmetry
CHECK_DEADLOCK FALSE
INVARIANTS CommittedOnMajority
