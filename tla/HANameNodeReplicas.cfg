\* Two servers, a create, an allocate and a delete, two leaders, a restart and a
\* snapshot, one worker and one round of reports and repairs.
SPECIFICATION HASpec
CONSTANTS
    Nodes = {n1, n2}
    create = create
    allocate = allocate
    delete = delete
    p1 = p1
    Paths = {p1}
    Commands = {create, allocate, delete}
    OpOf <- MCOpOf
    PathOf <- MCPathOf
    NumWorkers = 1
    Nil = Nil
    SnapshotThreshold = 1
    MaxElections = 2
    MaxRestarts = 1
    MaxFailures = 0
    MaxLate = 0
    MaxHeartbeats = 0
    MaxSnapshots = 1
    MaxRounds = 1
SYMMETRY Symmetry
CHECK_DEADLOCK FALSE
INVARIANTS FilesReflectApplied BlockTableExact
PROPERTY AnswersFollowApply
