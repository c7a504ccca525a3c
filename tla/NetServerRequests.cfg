\* Two clients, three requests and two workers; with one descriptor the second
\* connection gets that of the first.
SPECIFICATION Spec
CONSTANTS
    Conns = {1, 2}
    Workers = {w1, w2}
    NumFds = 1
    HeaderSize = 2
    Room = 2
    Requests <- MCRequests
    Garbled <- MCGarbled
    Nil = Nil
CHECK_DEADLOCK FALSE
INVARIANTS RequestsWhole ResponsesWhole
PROPERTIES TasksRun ResponsesArrive BytesRead
