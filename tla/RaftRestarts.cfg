\* Two elections, a write, two snapshots, a restart between any two steps.
SPECIFICATION Spec
CONSTANTS
    Nodes = {n1, n2, n3}
    Commands = {v1}
    Nil = Nil
    SnapshotThreshold = 0
    MaxElections = 2
    MaxRestarts = 1
    MaxFailures = 0
    MaxLate = 0
    MaxHeartbeats = 0
    MaxSnapshots = 2
SYMMETRY Symmetry
CHECK_DEADLOCK FALSE
INVARIANTS ElectionSafety OneVotePerTerm ElectionInv AppliedIsDurable
PROPERTY VoteIsFinal
