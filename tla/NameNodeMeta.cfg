\* Three concurrent requests, two restarts, one report and one repair round.
SPECIFICATION Spec
CONSTANTS
    Paths = {p1, p2}
    DataNodes = {d1, d2}
    Calls = {c1, c2, c3}
    ReplicationFactor = 2
    MaxRestarts = 2
    MaxReports = 1
    MaxScans = 1
SYMMETRY Symmetry
CHECK_DEADLOCK FALSE
INVARIANTS BlockOwnedOnce FileBlocksKnown AckedFileRecovered
