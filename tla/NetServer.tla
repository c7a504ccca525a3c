----------------------------- MODULE NetServer ------------------------------
(***************************************************************************)
(* The network layer of the NameNodes (src/src/net): clients' sockets, the *)
(* event loop thread with its connections, the thread pool that handles    *)
(* the requests, and the way of a response back through RunInLoop.         *)
(*                                                                         *)
(* A message is <<c, k>>, the k-th request of the client of connection c;  *)
(* the response has the same name.  A byte is a message and a position in  *)
(* its frame; the header, HeaderSize bytes, stands for the length of the   *)
(* message it belongs to.                                                  *)
(*                                                                         *)
(* The loop thread is idle in epoll_wait, reads from a connection          *)
(* (reading) or runs the tasks it took from pending_tasks_ (running).      *)
(* epoll is level triggered: a handler runs while its event holds, the     *)
(* channel asks for it and epoll watches its descriptor.                   *)
(***************************************************************************)
EXTENDS Integers, Sequences, FiniteSets, SequencesExt

CONSTANTS
    Conns,          \* the connections clients make
    Workers,        \* threads of the pool
    NumFds,         \* file descriptors 1..NumFds are free for connections
    HeaderSize,     \* bytes of the length before a message (4)
    Room,           \* bytes the send buffer of a socket takes
    Requests,       \* bound: how many requests each client makes
    Garbled,        \* the requests that ParseFromString refuses
    Nil

ASSUME NetAssumption ==
    /\ NumFds \in Nat /\ HeaderSize \in Nat \ {0} /\ Room \in Nat \ {0}
    /\ Requests \in [Conns -> Nat] /\ Garbled \subseteq Conns \X Nat
    /\ Nil \notin Conns /\ Nil \notin Conns \X Nat

VARIABLES
    \* kernel and clients
    peer,           \* the client's end: "new", "open", "closed" or "reset"
    next,           \* the byte of its requests the client writes next
    inflow,         \* bytes that wait to be read by the server
    out,            \* bytes the server has written to the client
    got,            \* how many of them the client has read
    socket,         \* fd -> the connection it is, or Nil
    \* event loop
    conn,           \* TcpConnection and its Channel
    channels,       \* channels_: fd -> the connection of the Channel there, or Nil
    connections,    \* connections_ of TcpServer: fd -> connection or Nil
    reading,        \* the connection HandleRead is busy with, or Nil
    closing,        \* the one whose HandleEvent goes on after HandleRead closed it
    pending,        \* pending_tasks_
    running,        \* the tasks HandlePendingTasks took, and how many it has run
    quit,
    \* thread pool
    queue,          \* task_queue_
    worker,         \* what a worker is doing, and its task
    stop,           \* "no", "stored" (stop_ is set) or "notified"
    \* history
    delivered,      \* the frames handed to msg_cb_
    early,          \* messages submitted before stop_ was set
    handled,        \* messages a worker has handled
    alive           \* the process has not been killed

clientVars == <<peer, next, inflow, got>>
poolVars   == <<queue, worker, stop>>
historyVars == <<delivered, early, handled, alive>>
connVars   == <<socket, conn, channels>>
loopVars   == <<connections, reading, closing, pending, running, quit>>
vars == <<clientVars, out, connVars, loopVars, poolVars, historyVars>>

Fds == 1..NumFds
BodySize(m) == m[2] % 2     \* one byte, no byte, ...
FrameSize(m) == HeaderSize + BodySize(m)
Frame(m) == [i \in 1..FrameSize(m) |-> <<m, i>>]
\* The byte of a client's requests that comes after b.
ByteAfter(b) ==
    IF b[2] < FrameSize(b[1]) THEN <<b[1], b[2] + 1>>
    ELSE <<<<b[1][1], b[1][2] + 1>>, 1>>
NotRunning == [tasks |-> <<>>, done |-> 0]
NoConn == [open |-> FALSE, fd |-> 0, readBuf |-> <<>>, writeBuf |-> <<>>, events |-> {}]
Idle == [pc |-> "check", task |-> Nil]

Init ==
    /\ peer = [c \in Conns |-> "new"] /\ next = [c \in Conns |-> <<<<c, 1>>, 1>>]
    /\ inflow = [c \in Conns |-> <<>>] /\ out = [c \in Conns |-> <<>>]
    /\ got = [c \in Conns |-> 0]
    /\ socket = [f \in Fds |-> Nil] /\ connections = [f \in Fds |-> Nil]
    /\ conn = [c \in Conns |-> NoConn] /\ channels = [f \in Fds |-> Nil]
    /\ reading = Nil /\ closing = Nil /\ pending = <<>> /\ running = NotRunning /\ quit = FALSE
    /\ queue = <<>> /\ worker = [w \in Workers |-> Idle] /\ stop = "no"
    /\ delivered = [c \in Conns |-> <<>>] /\ early = {} /\ handled = {} /\ alive = TRUE

LoopIdle == alive /\ ~ quit /\ reading = Nil /\ closing = Nil /\ running = NotRunning
\* queue_mutex_ is held by a worker that found nothing and is about to wait.
QueueFree == \A w \in Workers : worker[w].pc # "block"

-----------------------------------------------------------------------------
(* The channel of a connection and its lifetime, by shared_ptr.            *)

\* epoll watches the descriptor of c.  A Channel and its descriptor enter epoll
\* together and leave it together, but for a descriptor that is closed: epoll
\* forgets that one by itself, and channels_ does not.
Watched(c) == conn[c].open /\ channels[conn[c].fd] = c

\* UpdateChannel: descriptor f of c is to be watched for the events ev.  What
\* channels_ does not have is added, with no events, too; if it has an entry that
\* is left from another connection, EPOLL_CTL_MOD fails and f is not watched.
UpdateChannel(f, c, ev) ==
    [channels EXCEPT ![f] = IF @ = Nil THEN c ELSE IF ev = {} THEN Nil ELSE @]

\* The connections that the next state still holds a shared_ptr to: the map of
\* the server, and tasks in the pool and in the loop.
Held ==
    LET tasks == ToSet(queue') \cup ToSet(pending') \cup ToSet(running'.tasks)
                 \cup ({worker'[w].task : w \in Workers} \ {Nil})
    IN  ToSet(connections') \cup {m[1] : m \in tasks}

\* With the connections now as in cs and channels_ as in ch, those nobody holds are
\* destroyed: ~TcpConnection closes the fd, and takes the channel out of the loop
\* if it asks for any event.
Release(cs, ch) ==
    LET lost == {c \in Conns : cs[c].open /\ c \notin Held}
    IN  /\ conn' = [c \in Conns |-> IF c \in lost THEN NoConn ELSE cs[c]]
        /\ socket' = [f \in Fds |-> IF \E c \in lost : cs[c].fd = f THEN Nil ELSE socket[f]]
        /\ channels' = [f \in Fds |->
                            IF \E c \in lost : cs[c].fd = f /\ cs[c].events # {}
                            THEN Nil ELSE ch[f]]

\* The channel leaves the loop if it asks for any event; its fd stays open.
DisableAll(c) == [conn EXCEPT ![c].events = {}]
RemoveChannel(c) ==
    IF conn[c].events = {} THEN channels ELSE [channels EXCEPT ![conn[c].fd] = Nil]

\* HandleClose and the close_cb_ of HandleNewConnection.
HandleClose(c) ==
    /\ connections' = [connections EXCEPT ![conn[c].fd] = Nil]
    /\ Release(DisableAll(c), RemoveChannel(c))

-----------------------------------------------------------------------------
(* Clients.                                                                *)

\* The client writes a byte of its requests.  The server may read before the
\* next one is there: TCP cuts the stream anywhere.
ClientWrite(c) ==
    /\ peer[c] = "open" /\ next[c][1][2] <= Requests[c]
    /\ inflow' = [inflow EXCEPT ![c] = Append(@, next[c])]
    /\ next' = [next EXCEPT ![c] = ByteAfter(@)]
    /\ UNCHANGED <<peer, got, out, connVars, loopVars, poolVars, historyVars>>

ClientRead(c) ==
    /\ peer[c] = "open" /\ got[c] < Len(out[c])
    /\ got' = [got EXCEPT ![c] = Len(out[c])]
    /\ UNCHANGED <<peer, next, inflow, out, connVars, loopVars, poolVars, historyVars>>

ClientClose(c) ==
    /\ peer[c] = "open"
    /\ peer' = [peer EXCEPT ![c] = "closed"]
    /\ UNCHANGED <<next, inflow, got, out, connVars, loopVars, poolVars, historyVars>>

\* Data that a closed end had not read, or gets now, is answered with a reset.
ClientReset(c) ==
    /\ peer[c] = "closed" /\ got[c] < Len(out[c])
    /\ peer' = [peer EXCEPT ![c] = "reset"]
    /\ UNCHANGED <<next, inflow, got, out, connVars, loopVars, poolVars, historyVars>>

-----------------------------------------------------------------------------
(* The loop thread: TcpServer and TcpConnection.                           *)

\* accept returns the lowest free descriptor.
HandleNewConnection(c) ==
    /\ LoopIdle
    /\ peer[c] = "new"
    /\ \E f \in Fds :
        /\ socket[f] = Nil /\ \A g \in 1..(f - 1) : socket[g] # Nil
        /\ socket' = [socket EXCEPT ![f] = c]
        /\ connections' = [connections EXCEPT ![f] = c]
        /\ conn' = [conn EXCEPT ![c] = [NoConn EXCEPT !.open = TRUE, !.fd = f,
                                                      !.events = {"in"}]]
        /\ channels' = UpdateChannel(f, c, {"in"})
    /\ peer' = [peer EXCEPT ![c] = "open"]
    /\ UNCHANGED <<next, inflow, got, out, reading, closing, pending, running, quit, poolVars,
                   historyVars>>

\* ntohl of the header at the start of the buffer.
MsgLen(buf) == BodySize(buf[1][1])

HasMessage(buf) == Len(buf) >= HeaderSize /\ Len(buf) >= HeaderSize + MsgLen(buf)

\* Mutant of RestOf: the header is not counted.
RestOfBody(buf) == SubSeq(buf, MsgLen(buf) + 1, Len(buf))

\* read_buf_.erase(0, msg_len + 4)
RestOf(buf) == SubSeq(buf, HeaderSize + MsgLen(buf) + 1, Len(buf))

\* The loop of HandleRead calls read: it was entered with EPOLLIN, or the last
\* bytes have been processed.
Reads(c) ==
    \/ LoopIdle /\ Watched(c) /\ "in" \in conn[c].events
    \/ alive /\ reading = c /\ ~ HasMessage(conn[c].readBuf)

\* read returns bytes, which go to the buffer.
HandleRead(c) ==
    /\ Reads(c) /\ inflow[c] # <<>>
    /\ reading' = c
    /\ conn' = [conn EXCEPT ![c].readBuf = @ \o inflow[c]]
    /\ inflow' = [inflow EXCEPT ![c] = <<>>]
    /\ UNCHANGED <<peer, next, got, out, socket, channels, connections, closing, pending,
                   running, quit, poolVars, historyVars>>

\* Submit: the task goes to the queue, and one waiting worker is notified.
Submit(m) ==
    /\ QueueFree
    /\ queue' = Append(queue, m)
    /\ LET asleep == {w \in Workers : worker[w].pc = "asleep"}
       IN  \/ asleep = {} /\ UNCHANGED worker
           \/ \E w \in asleep : worker' = [worker EXCEPT ![w].pc = "check"]

\* ProcessMessages: a whole message at the start of the buffer goes to OnMessage.
ProcessMessage(c) ==
    LET buf == conn[c].readBuf
    IN  /\ alive /\ reading = c /\ HasMessage(buf)
        /\ Submit(buf[1][1])
        /\ conn' = [conn EXCEPT ![c].readBuf = RestOf(@)]
        /\ delivered' = [delivered EXCEPT ![c] =
                            Append(@, SubSeq(buf, 1, HeaderSize + MsgLen(buf)))]
        /\ early' = IF stop = "no" THEN early \cup {buf[1][1]} ELSE early
        /\ UNCHANGED <<clientVars, out, socket, channels, loopVars, stop, handled, alive>>

\* read would block: back to epoll_wait.
ReadBlocks(c) ==
    /\ Reads(c) /\ reading = c
    /\ inflow[c] = <<>> /\ peer[c] = "open"
    /\ reading' = Nil
    /\ UNCHANGED <<clientVars, out, connVars, connections, closing, pending, running, quit,
                   poolVars, historyVars>>

\* read returns the end of the stream or an error.  HandleEvent has EPOLLOUT still
\* to look at, if the channel asked for it.
ReadCloses(c) ==
    /\ Reads(c) /\ inflow[c] = <<>> /\ peer[c] \in {"closed", "reset"}
    /\ reading' = Nil
    /\ closing' = IF "out" \in conn[c].events THEN c ELSE Nil
    /\ UNCHANGED <<clientVars, out, pending, running, quit, poolVars, historyVars>>
    /\ HandleClose(c)

\* How much of some bytes a socket takes.
Accepted(c, bytes) ==
    LET free == Room - (Len(out[c]) - got[c])
    IN  IF Len(bytes) < free THEN Len(bytes) ELSE free

\* Mutants of EventsAfter: write events are not asked for; read events are dropped
\* with them.
EventsAfterNone(c, rest, sending) == conn[c].events \ {"out"}
EventsAfterDeaf(c, rest, sending) ==
    IF rest = <<>> THEN {} ELSE conn[c].events \cup {"out"}

\* Send asks for write events when bytes are left, HandleWrite gives them up when
\* none are.
EventsAfter(c, rest, sending) ==
    IF sending THEN conn[c].events \cup (IF rest = <<>> THEN {} ELSE {"out"})
               ELSE conn[c].events \ (IF rest = <<>> THEN {"out"} ELSE {})

\* write on the descriptor of c: the bytes go to whatever socket that is now.
\* On a socket the client has reset it raises SIGPIPE, which nobody handles, or
\* fails, and the connection is closed.
Write(c, bytes, sending) ==
    LET f == conn[c].fd
        s == socket[f]
        n == IF s = Nil THEN 0 ELSE Accepted(s, bytes)
        rest == SubSeq(bytes, n + 1, Len(bytes))
        ev == EventsAfter(c, rest, sending)
    IN  \/ /\ s # Nil /\ peer[s] # "reset"
           /\ out' = [out EXCEPT ![s] = @ \o SubSeq(bytes, 1, n)]
           /\ UNCHANGED <<connections, alive>>
           /\ Release([conn EXCEPT ![c].writeBuf = rest, ![c].events = ev],
                      IF sending = (rest # <<>>) THEN UpdateChannel(f, c, ev) ELSE channels)
        \/ /\ s = Nil \/ peer[s] = "reset"
           /\ UNCHANGED <<out, alive>>
           /\ HandleClose(c)
        \/ /\ s # Nil /\ peer[s] = "reset"
           /\ alive' = FALSE
           /\ UNCHANGED <<out, connections, connVars>>

\* HandleEvent with EPOLLOUT; write_buf_ is not empty while it is asked for.
HandleWrite(c) ==
    /\ LoopIdle
    /\ Watched(c) /\ "out" \in conn[c].events
    /\ Accepted(c, conn[c].writeBuf) > 0
    /\ UNCHANGED <<clientVars, reading, closing, pending, running, quit, poolVars,
                   delivered, early, handled>>
    /\ Write(c, conn[c].writeBuf, FALSE)

\* HandleEvent goes on to HandleWrite, if revents has EPOLLOUT, although the channel
\* is out of the loop: DisableWriting then puts it back, without events, so that
\* ~TcpConnection leaves it in channels_.  If nobody held the connection, HandleEvent
\* uses what was destroyed.
WriteAfterClose(c) ==
    /\ alive /\ closing = c
    /\ closing' = Nil
    /\ UNCHANGED <<clientVars, reading, pending, running, quit, poolVars, delivered,
                   early, handled>>
    /\ \/ UNCHANGED <<out, connections, connVars, alive>>
       \/ conn[c].open /\ Write(c, conn[c].writeBuf, FALSE)
       \/ /\ ~ conn[c].open
          /\ alive' = FALSE
          /\ UNCHANGED <<out, connections, connVars>>

\* HandleEvent with EPOLLERR, or EPOLLHUP and nothing to read.
HandleError(c) ==
    /\ LoopIdle
    /\ Watched(c) /\ peer[c] = "reset"
    /\ UNCHANGED <<clientVars, out, reading, closing, pending, running, quit, poolVars,
                   historyVars>>
    /\ HandleClose(c)

-----------------------------------------------------------------------------
(* The loop thread: pending tasks.                                         *)

\* HandlePendingTasks takes all of them.
HandlePendingTasks ==
    /\ LoopIdle /\ pending # <<>>
    /\ running' = [tasks |-> pending, done |-> 0]
    /\ pending' = <<>>
    /\ UNCHANGED <<clientVars, out, connVars, connections, reading, closing, quit, poolVars,
                   historyVars>>

\* Mutant of SendsNow: the buffered bytes are not waited for.
SendsNowAlways(c) == TRUE

\* Send writes only if nothing is buffered before it.
SendsNow(c) == conn[c].writeBuf = <<>>

\* The next task: conn->Send.  The tasks, and what they hold, go when all have run.
Send ==
    LET m == running.tasks[running.done + 1]
        c == m[1]
    IN  /\ alive /\ running.tasks # <<>>
        /\ running' = IF running.done + 1 = Len(running.tasks) THEN NotRunning
                      ELSE [running EXCEPT !.done = @ + 1]
        /\ UNCHANGED <<clientVars, reading, closing, pending, quit, poolVars, delivered,
                       early, handled>>
        /\ \/ SendsNow(c) /\ Write(c, Frame(m), TRUE)
           \/ /\ ~ SendsNow(c)
              /\ UNCHANGED <<out, connections, alive>>
              /\ Release([conn EXCEPT ![c].writeBuf = @ \o Frame(m)], channels)

-----------------------------------------------------------------------------
(* The thread pool.                                                        *)

\* Mutant of WorkerExits: a worker does not look at the queue.
WorkerExitsAtOnce == stop # "no"

WorkerExits == stop # "no" /\ queue = <<>>

\* WorkerLoop: the predicate of the wait, and what follows when it is true.
WorkerCheck(w) ==
    /\ alive /\ worker[w].pc = "check" /\ QueueFree
    /\ \/ /\ WorkerExits
          /\ worker' = [worker EXCEPT ![w].pc = "exit"]
          /\ UNCHANGED queue
       \/ /\ ~ WorkerExits /\ queue # <<>>
          /\ worker' = [worker EXCEPT ![w] = [pc |-> "run", task |-> Head(queue)]]
          /\ queue' = Tail(queue)
       \/ /\ ~ WorkerExits /\ queue = <<>>
          /\ worker' = [worker EXCEPT ![w].pc = "block"]
          /\ UNCHANGED queue
    /\ UNCHANGED <<clientVars, out, connVars, loopVars, stop, historyVars>>

\* The wait gives up the mutex and sleeps.
WorkerSleep(w) ==
    /\ alive /\ worker[w].pc = "block"
    /\ worker' = [worker EXCEPT ![w].pc = "asleep"]
    /\ UNCHANGED <<clientVars, out, connVars, loopVars, queue, stop, historyVars>>

\* RunInLoop.  The loop looks at the tasks whenever it is idle: the eventfd wakes
\* it, and epoll_wait waits 10 ms at most.
RunInLoop(m) == pending' = Append(pending, m)

\* ProcessRequest, up to RunInLoop with the response; a request that does not parse
\* has none.
WorkerRun(w) ==
    LET m == worker[w].task
    IN  /\ alive /\ worker[w].pc = "run"
        /\ IF m \in Garbled THEN UNCHANGED pending ELSE RunInLoop(m)
        /\ handled' = handled \cup {m}
        /\ worker' = [worker EXCEPT ![w].pc = "ran"]
        /\ UNCHANGED <<clientVars, out, connVars, connections, reading, closing, running, quit,
                       queue, stop, delivered, early, alive>>

\* The task goes out of scope; the worker may be the last to hold the connection.
WorkerDone(w) ==
    /\ alive /\ worker[w].pc = "ran"
    /\ worker' = [worker EXCEPT ![w] = Idle]
    /\ UNCHANGED <<clientVars, out, loopVars, queue, stop, historyVars>>
    /\ Release(conn, channels)

\* Stop of the pool stores stop_ without the mutex ...
Stop ==
    /\ alive /\ stop = "no"
    /\ stop' = "stored"
    /\ UNCHANGED <<clientVars, out, connVars, loopVars, queue, worker, historyVars>>

\* ... and notifies the workers that wait by then.
StopNotify ==
    /\ alive /\ stop = "stored"
    /\ stop' = "notified"
    /\ worker' = [w \in Workers |-> IF worker[w].pc = "asleep"
                                    THEN [worker[w] EXCEPT !.pc = "check"] ELSE worker[w]]
    /\ UNCHANGED <<clientVars, out, connVars, loopVars, queue, historyVars>>

\* With all workers joined the server calls Quit; this is the test of the loop
\* that sees it.
Quit ==
    /\ LoopIdle /\ stop = "notified"
    /\ \A w \in Workers : worker[w].pc = "exit"
    /\ quit' = TRUE
    /\ UNCHANGED <<clientVars, out, connVars, connections, reading, closing, pending, running,
                   poolVars, historyVars>>

-----------------------------------------------------------------------------
LoopStep ==
    \/ \E c \in Conns :
        \/ HandleNewConnection(c) \/ HandleRead(c) \/ ProcessMessage(c)
        \/ ReadBlocks(c) \/ ReadCloses(c) \/ HandleWrite(c) \/ WriteAfterClose(c)
        \/ HandleError(c)
    \/ HandlePendingTasks
    \/ Send

WorkerStep(w) == WorkerCheck(w) \/ WorkerSleep(w) \/ WorkerRun(w) \/ WorkerDone(w)

ClientStep(c) == ClientWrite(c) \/ ClientRead(c) \/ ClientClose(c) \/ ClientReset(c)

Next ==
    \/ LoopStep
    \/ \E w \in Workers : WorkerStep(w)
    \/ \E c \in Conns : ClientStep(c)
    \/ Stop \/ StopNotify \/ Quit

\* The server does not stop while one of its threads can do something, and
\* clients read what they are sent.
Fairness ==
    /\ WF_vars(LoopStep \/ \E w \in Workers : WorkerStep(w))
    /\ WF_vars(\E c \in Conns : ClientRead(c))

Spec == Init /\ [][Next]_vars /\ Fairness

-----------------------------------------------------------------------------
(* Properties.                                                             *)

\* Wherever TCP cuts the stream of a client, the messages handed to the server
\* are the requests of that client, whole, in order and each once (HandleRead,
\* ProcessMessages).
RequestsWhole ==
    \A c \in Conns : \A k \in 1..Len(delivered[c]) : delivered[c][k] = Frame(<<c, k>>)

\* The bytes are frames, one after the other; the last one may be cut.
InFrames(bytes) ==
    \A j \in 1..Len(bytes) :
        IF j = 1 \/ bytes[j - 1][2] = FrameSize(bytes[j - 1][1])
        THEN bytes[j][2] = 1
        ELSE bytes[j] = <<bytes[j - 1][1], bytes[j - 1][2] + 1>>

\* What was written to a client are whole responses to requests of its own, the
\* last one perhaps not yet complete, each at most once, in spite of partial
\* writes, of responses that wait behind them, and of descriptors that are used
\* again for another client while a worker still holds the connection (Send,
\* HandleWrite, ~TcpConnection).
ResponsesWhole ==
    \A c \in Conns :
        /\ InFrames(out[c]) /\ IsInjective(out[c])
        /\ \A j \in 1..Len(out[c]) : out[c][j][1] \in handled /\ out[c][j][1][1] = c

\* A task the pool took before it was stopped is run: no wake-up of Submit is
\* lost, and workers that see stop_ empty the queue first (Submit, WorkerLoop).
TasksRun == []<>(early \subseteq handled \/ ~ alive)

\* The client has read the last byte of the response to m.
Arrived(m) ==
    \E i \in 1..got[m[1]] : out[m[1]][i] = <<m, FrameSize(m)>>

\* The response to a request that parses is read by its client unless the client
\* goes away, the process is killed or the server stops: none is left in write_buf_
\* (ProcessRequest, RunInLoop, Send, HandleWrite).
ResponsesArrive ==
    []<>(quit \/ ~ alive \/ \A m \in early \ Garbled : peer[m[1]] # "open" \/ Arrived(m))

\* The Channel of a connection that was destroyed is still in channels_, so that the
\* connection that has the descriptor now is not watched.
Shadowed(c) == channels[conn[c].fd] \notin {c, Nil}

\* What a client writes is read, also after its connection had to wait for
\* EPOLLOUT, was given a descriptor that was used before, or both; except on a
\* descriptor of which the loop has kept the Channel of a connection that was
\* closed in the middle of HandleEvent (HandleRead, UpdateChannel, ~TcpConnection).
BytesRead ==
    []<>(quit \/ ~ alive
            \/ \A c \in Conns : peer[c] = "open" => inflow[c] = <<>> \/ Shadowed(c))
=============================================================================
