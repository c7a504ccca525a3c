\* One leader, two writes, lost RPCs, late requests and extra rounds.
SPECIFICATION Spec
CONSTANTS
    Nodes = {n1, n2, n3}
    Commands = {v1, v2}
    Nil = Nil
    SnapshotThreshold = 0
    MaxElections = 1
    MaxRestarts = 0
    MaxFailures = 2
    MaxLate = 1
    MaxHeartbeats = 1
    MaxSnapshots = 0
SYMMETRY Symmetry
CHECK_DEADLOCK FALSE
INVARIANTS AckedOnMajority CommittedOnMajority AppliedReachedStateMachine
