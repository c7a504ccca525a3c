---------------------------- MODULE NetServer_proofs ----------------------------
(***************************************************************************)
(* Proofs about NetServer, for every set of clients and workers, every     *)
(* number of descriptors and requests, and every size of header and send   *)
(* buffer: requests arrive whole and in order, and responses are written   *)
(* whole, once and to the client that made the request.                    *)
(***************************************************************************)
EXTENDS NetServer, SequenceTheorems, TLAPS

-----------------------------------------------------------------------------
(* The inductive invariant.                                                *)

Msgs  == Conns \X Nat
Bytes == Msgs \X Nat

ConnType == [open : BOOLEAN, fd : Nat, readBuf : Seq(Bytes), writeBuf : Seq(Bytes),
             events : SUBSET {"in", "out"}]
WorkerType == [pc : {"check", "block", "asleep", "run", "ran", "exit"}, task : Msgs \cup {Nil}]

\* The types of sockets, connections and threads.
TypeOK ==
    /\ peer \in [Conns -> {"new", "open", "closed", "reset"}]
    /\ next \in [Conns -> Bytes]
    /\ inflow \in [Conns -> Seq(Bytes)] /\ out \in [Conns -> Seq(Bytes)]
    /\ got \in [Conns -> Nat]
    /\ socket \in [Fds -> Conns \cup {Nil}] /\ connections \in [Fds -> Conns \cup {Nil}]
    /\ conn \in [Conns -> ConnType]
    /\ reading \in Conns \cup {Nil}
    /\ pending \in Seq(Msgs) /\ queue \in Seq(Msgs)
    /\ running \in [tasks : Seq(Msgs), done : Nat]
    /\ worker \in [Workers -> WorkerType]
    /\ delivered \in [Conns -> Seq(Seq(Bytes))]
    /\ handled \in SUBSET Msgs

\* The messages a task of the pool or of the loop is about; each holds a
\* shared_ptr to its connection.
Tasks == ToSet(queue) \cup ToSet(pending) \cup ToSet(running.tasks)
         \cup ({worker[w].task : w \in Workers} \ {Nil})

\* A connection that exists has its descriptor to itself.
FdsOwned ==
    \A c \in Conns :
        IF conn[c].open
        THEN conn[c].fd \in Fds /\ socket[conn[c].fd] = c /\ peer[c] # "new"
        ELSE conn[c] = NoConn

\* No task has a connection that was destroyed.
TasksHold == \A m \in Tasks : conn[m[1]].open

\* The server reads from connections it has in its map only.
Listens(c) == "in" \in conn[c].events \/ reading = c

ListenersKept ==
    \A c \in Conns : Listens(c) => conn[c].open /\ connections[conn[c].fd] = c

\* The loop thread does one thing at a time.
OneThread ==
    /\ reading # Nil => running = NotRunning /\ closing = Nil
    /\ running # NotRunning => running.done < Len(running.tasks)

\* No more is in a send buffer than it takes.
RoomKept == \A c \in Conns : got[c] <= Len(out[c]) /\ Len(out[c]) <= got[c] + Room

LifeInv == FdsOwned /\ TasksHold /\ ListenersKept /\ OneThread /\ RoomKept

\* In a stream of requests each byte is followed by the rest of its frame, and
\* that by the first byte of the next request.
Chained(s) ==
    \A j \in 1..Len(s) :
        LET m == s[j][1]
            i == s[j][2]
        IN  /\ i \in 1..FrameSize(m)
            /\ \A x \in i..FrameSize(m) : j + (x - i) <= Len(s) => s[j + (x - i)] = <<m, x>>
            /\ LET k == j + (FrameSize(m) - i) + 1
               IN  k <= Len(s) => s[k] = <<<<m[1], m[2] + 1>>, 1>>

\* What the server has read and not processed, what it has not read, and what
\* the client writes next.
Unprocessed(c) == Append(conn[c].readBuf \o inflow[c], next[c])

StreamOf(c) ==
    peer[c] = "new" \/ Listens(c) =>
        /\ Chained(Unprocessed(c))
        /\ Unprocessed(c)[1] = <<<<c, Len(delivered[c]) + 1>>, 1>>

RequestInv == RequestsWhole /\ \A c \in Conns : StreamOf(c)

\* A message the server knows was delivered before.
Known(m) == m[2] <= Len(delivered[m[1]])

KnownInv == \A m \in Tasks \cup handled : Known(m)

\* Messages that were not handled wait in the queue or are with one worker.
UnhandledOnce ==
    /\ IsInjective(queue) /\ \A m \in ToSet(queue) : m \notin handled
    /\ \A w \in Workers : worker[w].pc \in {"run", "ran"} => worker[w].task \in Msgs
    /\ \A w \in Workers : worker[w].pc = "run" =>
          /\ worker[w].task \notin handled /\ worker[w].task \notin ToSet(queue)
          /\ \A v \in Workers \ {w} : worker[v].pc = "run" => worker[v].task # worker[w].task

\* What is written or waits in write_buf_.
Written(c) == out[c] \o conn[c].writeBuf

\* The response to m has not been sent.
Unsent(m) == \A j \in 1..Len(Written(m[1])) : Written(m[1])[j][1] # m

\* Responses that were not sent wait for the loop, once.
UnsentOnce ==
    /\ IsInjective(pending) /\ IsInjective(running.tasks)
    /\ \A m \in ToSet(pending) :
          m \in handled /\ m \notin ToSet(running.tasks) /\ Unsent(m)
    /\ \A k \in 1..Len(running.tasks) :
          running.tasks[k] \in handled /\ (k > running.done => Unsent(running.tasks[k]))

\* Frames of c with messages in H, each once.
Responses(c, s, H) ==
    /\ InFrames(s) /\ IsInjective(s)
    /\ \A j \in 1..Len(s) : s[j][1] \in H /\ s[j][1][1] = c

\* The last frame is complete.
Complete(s) == s # <<>> => s[Len(s)][2] = FrameSize(s[Len(s)][1])

WrittenInv ==
    \A c \in Conns :
        /\ Responses(c, Written(c), handled)
        /\ conn[c].open \/ peer[c] = "new" => Complete(Written(c))

ResponseInv == KnownInv /\ UnhandledOnce /\ UnsentOnce /\ WrittenInv

IInv == TypeOK /\ LifeInv /\ RequestInv /\ ResponseInv

-----------------------------------------------------------------------------
(* Bytes, frames and streams.                                              *)

LEMMA ByteParts ==
    ASSUME NEW b \in Bytes
    PROVE  /\ b[1] \in Msgs /\ b[2] \in Nat /\ b = <<b[1], b[2]>>
           /\ b[1][1] \in Conns /\ b[1][2] \in Nat
BY DEF Bytes, Msgs

\* A frame has its header at least.
LEMMA SizeType ==
    ASSUME NEW m \in Msgs
    PROVE  /\ BodySize(m) \in Nat /\ FrameSize(m) \in Nat \ {0}
           /\ FrameSize(m) = HeaderSize + BodySize(m) /\ FrameSize(m) >= HeaderSize
<1>1. m[2] \in Nat
    BY DEF Msgs
<1>2. m[2] % 2 \in Nat
    BY <1>1
<1>3. HeaderSize \in Nat \ {0}
    BY NetAssumption
<1> QED
    BY <1>2, <1>3 DEF BodySize, FrameSize

LEMMA FrameSeq ==
    ASSUME NEW m \in Msgs
    PROVE  /\ Frame(m) \in Seq(Bytes) /\ Len(Frame(m)) = FrameSize(m)
           /\ \A i \in 1..FrameSize(m) : Frame(m)[i] = <<m, i>>
<1>1. FrameSize(m) \in Nat
    BY SizeType
<1>2. \A i \in 1..FrameSize(m) : <<m, i>> \in Bytes
    BY <1>1 DEF Bytes
<1> HIDE DEF Bytes
<1>3. [i \in 1..FrameSize(m) |-> <<m, i>>] \in Seq(Bytes)
    BY <1>1, <1>2, IsASeq
<1> QED
    BY <1>1, <1>2, <1>3 DEF Frame

LEMMA ByteAfterType ==
    ASSUME NEW b \in Bytes
    PROVE  ByteAfter(b) \in Bytes
<1>1. b[1] \in Msgs /\ b[2] \in Nat /\ b[1][1] \in Conns /\ b[1][2] \in Nat
    BY ByteParts
<1>2. <<b[1], b[2] + 1>> \in Bytes
    BY <1>1 DEF Bytes
<1>3. <<b[1][1], b[1][2] + 1>> \in Msgs
    BY <1>1 DEF Msgs
<1>4. <<<<b[1][1], b[1][2] + 1>>, 1>> \in Bytes
    BY <1>3 DEF Bytes
<1> QED
    BY <1>2, <1>4 DEF ByteAfter

\* A stream to which the client adds its next byte is still one.
LEMMA ChainGrows ==
    ASSUME NEW s \in Seq(Bytes), s # <<>>, Chained(s)
    PROVE  Chained(Append(s, ByteAfter(s[Len(s)])))
<1> DEFINE n == Len(s)
           b == s[n]
           t == Append(s, ByteAfter(b))
<1>1. n \in Nat \ {0} /\ b \in Bytes
    BY EmptySeq, ElementOfSeq
<1>2. ByteAfter(b) \in Bytes
    BY <1>1, ByteAfterType
<1>3. /\ t \in Seq(Bytes) /\ Len(t) = n + 1 /\ t[n + 1] = ByteAfter(b)
      /\ \A j \in 1..n : t[j] = s[j]
    BY <1>1, <1>2
<1>4. b[1] \in Msgs /\ b[2] \in Nat /\ FrameSize(b[1]) \in Nat \ {0}
    BY <1>1, ByteParts, SizeType
<1>5. b[2] \in 1..FrameSize(b[1])
    BY <1>1 DEF Chained
<1>6. ASSUME NEW j \in 1..n
      PROVE  LET m == t[j][1]
                 i == t[j][2]
             IN  /\ i \in 1..FrameSize(m)
                 /\ \A x \in i..FrameSize(m) : j + (x - i) <= n + 1 => t[j + (x - i)] = <<m, x>>
                 /\ LET k == j + (FrameSize(m) - i) + 1
                    IN  k <= n + 1 => t[k] = <<<<m[1], m[2] + 1>>, 1>>
    <2> DEFINE m == s[j][1]
               i == s[j][2]
               k == j + (FrameSize(m) - i) + 1
    <2>1. t[j][1] = m /\ t[j][2] = i
        BY <1>3
    <2>2. s[j] \in Bytes
        BY <1>1, ElementOfSeq
    <2>3. m \in Msgs /\ i \in Nat /\ FrameSize(m) \in Nat \ {0} /\ m[1] \in Conns /\ m[2] \in Nat
        BY <2>2, ByteParts, SizeType
    <2>4. /\ i \in 1..FrameSize(m)
          /\ \A x \in i..FrameSize(m) : j + (x - i) <= n => s[j + (x - i)] = <<m, x>>
          /\ k <= n => s[k] = <<<<m[1], m[2] + 1>>, 1>>
        BY DEF Chained
    <2> HIDE DEF m, i
    <2>5. ASSUME NEW x \in i..FrameSize(m), j + (x - i) <= n + 1
          PROVE  t[j + (x - i)] = <<m, x>>
        <3>1. CASE j + (x - i) <= n
            <4>1. j + (x - i) \in 1..n
                BY <1>1, <2>3, <2>5, <3>1
            <4> QED
                BY <1>3, <2>4, <3>1, <4>1
        <3>2. CASE j + (x - i) = n + 1
            <4>1. x - 1 \in i..FrameSize(m) /\ j + ((x - 1) - i) = n
                BY <1>1, <2>3, <2>5, <3>2
            <4>2. b = <<m, x - 1>>
                BY <1>1, <2>4, <4>1
            <4>3. x - 1 < FrameSize(m) /\ (x - 1) + 1 = x
                BY <2>3, <2>5, <4>1
            <4>4. ByteAfter(b) = <<m, x>>
                BY <4>2, <4>3 DEF ByteAfter
            <4> QED
                BY <1>3, <3>2, <4>4
        <3> QED
            BY <1>1, <2>3, <2>5, <3>1, <3>2
    <2>6. ASSUME k <= n + 1
          PROVE  t[k] = <<<<m[1], m[2] + 1>>, 1>>
        <3>1. CASE k <= n
            <4>1. k \in 1..n
                BY <1>1, <2>3, <2>4, <3>1
            <4> QED
                BY <1>3, <2>4, <3>1, <4>1
        <3>2. CASE k = n + 1
            <4>1. FrameSize(m) \in i..FrameSize(m) /\ j + (FrameSize(m) - i) = n
                BY <1>1, <2>3, <2>4, <3>2
            <4>2. b = <<m, FrameSize(m)>>
                BY <1>1, <2>4, <4>1
            <4>3. ~ (FrameSize(m) < FrameSize(m))
                BY <2>3
            <4>4. ByteAfter(b) = <<<<m[1], m[2] + 1>>, 1>>
                BY <4>2, <4>3 DEF ByteAfter
            <4> QED
                BY <1>3, <3>2, <4>4
        <3> QED
            <4>1. i \in Nat /\ FrameSize(m) \in Nat /\ i <= FrameSize(m) /\ j \in Nat /\ n \in Nat
                BY <1>1, <2>3, <2>4
            <4>2. k \in Nat
                BY <4>1
            <4>3. k <= n \/ k = n + 1
                BY <2>6, <4>1, <4>2
            <4> QED
                BY <3>1, <3>2, <4>3
    <2> QED
        BY <2>1, <2>4, <2>5, <2>6
<1>7. LET m == t[n + 1][1]
          i == t[n + 1][2]
      IN  /\ i \in 1..FrameSize(m)
          /\ \A x \in i..FrameSize(m) :
                (n + 1) + (x - i) <= n + 1 => t[(n + 1) + (x - i)] = <<m, x>>
          /\ LET k == (n + 1) + (FrameSize(m) - i) + 1
             IN  k <= n + 1 => t[k] = <<<<m[1], m[2] + 1>>, 1>>
    <2> DEFINE d == ByteAfter(b)
    <2>1. d \in Bytes
        BY <1>2
    <2>2. d[1] \in Msgs /\ d[2] \in Nat /\ d = <<d[1], d[2]>> /\ FrameSize(d[1]) \in Nat \ {0}
        BY <2>1, ByteParts, SizeType
    <2>3. d[2] \in 1..FrameSize(d[1])
        <3>1. CASE b[2] < FrameSize(b[1])
            <4>1. d[1] = b[1] /\ d[2] = b[2] + 1
                BY <3>1 DEF ByteAfter
            <4> QED
                BY <1>4, <3>1, <4>1
        <3>2. CASE ~ (b[2] < FrameSize(b[1]))
            <4>1. d[2] = 1
                BY <3>2 DEF ByteAfter
            <4> QED
                BY <2>2, <4>1
        <3> QED
            BY <3>1, <3>2
    <2> HIDE DEF d
    <2>4. t[n + 1] = d
        BY <1>3 DEF d
    <2>5. ASSUME NEW x \in d[2]..FrameSize(d[1]), (n + 1) + (x - d[2]) <= n + 1
          PROVE  t[(n + 1) + (x - d[2])] = <<d[1], x>>
        <3>1. x = d[2] /\ (n + 1) + (x - d[2]) = n + 1
            BY <1>1, <2>2, <2>5
        <3> QED
            BY <2>2, <2>4, <3>1
    <2>6. ~ ((n + 1) + (FrameSize(d[1]) - d[2]) + 1 <= n + 1)
        BY <1>1, <2>2, <2>3
    <2> QED
        BY <2>3, <2>4, <2>5, <2>6
<1> HIDE DEF t
<1>8. \A j \in 1..Len(t) : j \in 1..n \/ j = n + 1
    BY <1>1, <1>3
<1>9. Chained(t)
    BY <1>3, <1>6, <1>7, <1>8 DEF Chained
<1> QED
    BY <1>9 DEF t

\* So is what is left of it when bytes are taken from its start.
LEMMA ChainCut ==
    ASSUME NEW s \in Seq(Bytes), Chained(s), NEW n \in Nat, n <= Len(s)
    PROVE  Chained(SubSeq(s, n + 1, Len(s)))
<1> DEFINE t == SubSeq(s, n + 1, Len(s))
<1>1. Len(s) \in Nat
    BY LenProperties
<1>2. \A i \in (n + 1)..Len(s) : s[i] \in Bytes
    BY <1>1, ElementOfSeq
<1>3. /\ Len(t) = Len(s) - n
      /\ \A j \in 1..(Len(s) - n) : t[j] = s[n + j]
    <2>1. n + 1 \in Int /\ Len(s) \in Int
        BY <1>1
    <2>2. /\ Len(t) = IF n + 1 <= Len(s) THEN Len(s) - (n + 1) + 1 ELSE 0
          /\ \A i \in 1..(Len(s) - (n + 1) + 1) : t[i] = s[(n + 1) + i - 1]
        BY <1>2, <2>1, SubSeqProperties
    <2> QED
        BY <1>1, <2>2
<1> HIDE DEF t
<1>4. ASSUME NEW j \in 1..Len(t)
      PROVE  LET m == t[j][1]
                 i == t[j][2]
             IN  /\ i \in 1..FrameSize(m)
                 /\ \A x \in i..FrameSize(m) :
                       j + (x - i) <= Len(t) => t[j + (x - i)] = <<m, x>>
                 /\ LET k == j + (FrameSize(m) - i) + 1
                    IN  k <= Len(t) => t[k] = <<<<m[1], m[2] + 1>>, 1>>
    <2> DEFINE m == s[n + j][1]
               i == s[n + j][2]
    <2>1. n + j \in 1..Len(s) /\ t[j] = s[n + j]
        BY <1>1, <1>3
    <2>2. s[n + j] \in Bytes
        BY <2>1, ElementOfSeq
    <2>3. m \in Msgs /\ i \in Nat /\ FrameSize(m) \in Nat \ {0}
        BY <2>2, ByteParts, SizeType
    <2>4. /\ i \in 1..FrameSize(m)
          /\ \A x \in i..FrameSize(m) :
                (n + j) + (x - i) <= Len(s) => s[(n + j) + (x - i)] = <<m, x>>
          /\ (n + j) + (FrameSize(m) - i) + 1 <= Len(s)
                => s[(n + j) + (FrameSize(m) - i) + 1] = <<<<m[1], m[2] + 1>>, 1>>
        BY <2>1 DEF Chained
    <2> HIDE DEF m, i
    <2>5. ASSUME NEW x \in i..FrameSize(m), j + (x - i) <= Len(t)
          PROVE  t[j + (x - i)] = <<m, x>>
        <3>1. j + (x - i) \in 1..(Len(s) - n) /\ n + (j + (x - i)) = (n + j) + (x - i)
            BY <1>1, <1>3, <2>3, <2>5
        <3>2. (n + j) + (x - i) <= Len(s)
            BY <1>1, <2>3, <3>1
        <3> QED
            BY <1>3, <2>4, <3>1, <3>2
    <2>6. ASSUME j + (FrameSize(m) - i) + 1 <= Len(t)
          PROVE  t[j + (FrameSize(m) - i) + 1] = <<<<m[1], m[2] + 1>>, 1>>
        <3> DEFINE k == j + (FrameSize(m) - i) + 1
        <3>1. k \in 1..(Len(s) - n) /\ n + k = (n + j) + (FrameSize(m) - i) + 1
            <4>1. /\ i \in Nat /\ FrameSize(m) \in Nat /\ i <= FrameSize(m)
                  /\ j \in Nat /\ 1 <= j /\ Len(s) \in Nat /\ Len(t) = Len(s) - n
                BY <1>1, <1>3, <2>3, <2>4
            <4> QED
                BY <2>6, <4>1
        <3>2. n + k <= Len(s)
            BY <1>1, <2>3, <3>1
        <3> QED
            BY <1>3, <2>4, <3>1, <3>2
    <2> QED
        BY <2>1, <2>4, <2>5, <2>6 DEF m, i
<1>5. Chained(t)
    BY <1>4 DEF Chained
<1> QED
    BY <1>5 DEF t

\* A start of responses is one.
LEMMA ResponsesStart ==
    ASSUME NEW c \in Conns, NEW s \in Seq(Bytes), NEW t \in Seq(Bytes), NEW H,
           Responses(c, s \o t, H)
    PROVE  Responses(c, s, H)
<1>1. Len(s) \in Nat /\ Len(t) \in Nat /\ DOMAIN s = 1..Len(s)
    BY LenProperties
<1>2. /\ s \o t \in Seq(Bytes) /\ Len(s \o t) = Len(s) + Len(t)
      /\ \A j \in 1..Len(s) : j \in 1..Len(s \o t) /\ (s \o t)[j] = s[j]
    BY <1>1, ConcatProperties
<1>3. DOMAIN (s \o t) = 1..Len(s \o t)
    BY <1>2, LenProperties
<1> DEFINE u == s \o t
<1> HIDE DEF u
<1>4. InFrames(s)
    <2> SUFFICES ASSUME NEW j \in 1..Len(s)
                 PROVE  IF j = 1 \/ s[j - 1][2] = FrameSize(s[j - 1][1])
                        THEN s[j][2] = 1
                        ELSE s[j] = <<s[j - 1][1], s[j - 1][2] + 1>>
        BY DEF InFrames
    <2>1. j = 1 \/ j - 1 \in 1..Len(s)
        BY <1>1
    <2>2. IF j = 1 \/ u[j - 1][2] = FrameSize(u[j - 1][1])
          THEN u[j][2] = 1
          ELSE u[j] = <<u[j - 1][1], u[j - 1][2] + 1>>
        BY <1>2 DEF Responses, InFrames, u
    <2>3. u[j] = s[j] /\ (j # 1 => u[j - 1] = s[j - 1])
        BY <1>2, <2>1 DEF u
    <2> QED
        BY <2>2, <2>3
<1>5. IsInjective(s)
    BY <1>1, <1>2, <1>3 DEF Responses, IsInjective
<1>6. \A j \in 1..Len(s) : s[j][1] \in H /\ s[j][1][1] = c
    BY <1>2 DEF Responses
<1> QED
    BY <1>4, <1>5, <1>6 DEF Responses

\* Complete responses and one more are complete responses.
LEMMA ResponseAdded ==
    ASSUME NEW c \in Conns, NEW s \in Seq(Bytes), NEW H, NEW m \in Msgs,
           Responses(c, s, H), Complete(s), m \in H, m[1] = c,
           \A j \in 1..Len(s) : s[j][1] # m
    PROVE  Responses(c, s \o Frame(m), H) /\ Complete(s \o Frame(m))
<1> DEFINE f == Frame(m)
           u == s \o f
           n == Len(s)
<1>1. n \in Nat /\ DOMAIN s = 1..n
    BY LenProperties
<1>2. FrameSize(m) \in Nat \ {0}
    BY SizeType
<1>3. /\ f \in Seq(Bytes) /\ Len(f) = FrameSize(m)
      /\ \A i \in 1..FrameSize(m) : f[i] = <<m, i>>
    BY FrameSeq
<1> HIDE DEF f, n
<1>4. /\ u \in Seq(Bytes) /\ Len(u) = n + FrameSize(m)
      /\ \A j \in 1..(n + FrameSize(m)) : u[j] = IF j <= n THEN s[j] ELSE f[j - n]
    <2>1. /\ u \in Seq(Bytes) /\ Len(u) = Len(s) + Len(f)
          /\ \A j \in 1..(Len(s) + Len(f)) : u[j] = IF j <= Len(s) THEN s[j] ELSE f[j - Len(s)]
        BY <1>3, ConcatProperties
    <2> QED
        BY <1>3, <2>1 DEF n
<1>5. DOMAIN u = 1..(n + FrameSize(m))
    BY <1>4, LenProperties
<1> HIDE DEF u
<1>6. \A j \in 1..Len(u) : \/ j \in 1..n /\ u[j] = s[j]
                           \/ j \in (n + 1)..(n + FrameSize(m)) /\ u[j] = <<m, j - n>>
    <2> TAKE j \in 1..Len(u)
    <2>1. CASE j <= n
        BY <1>1, <1>2, <1>4, <2>1
    <2>2. CASE ~ (j <= n)
        <3>1. j - n \in 1..FrameSize(m) /\ j \in (n + 1)..(n + FrameSize(m))
            BY <1>1, <1>2, <1>4, <2>2
        <3> QED
            BY <1>3, <1>4, <2>2, <3>1
    <2> QED
        BY <2>1, <2>2
<1>7. InFrames(u)
    <2> SUFFICES ASSUME NEW j \in 1..Len(u)
                 PROVE  IF j = 1 \/ u[j - 1][2] = FrameSize(u[j - 1][1])
                        THEN u[j][2] = 1
                        ELSE u[j] = <<u[j - 1][1], u[j - 1][2] + 1>>
        BY DEF InFrames
    <2>1. CASE j <= n
        <3>1. j \in 1..n /\ u[j] = s[j] /\ (j # 1 => u[j - 1] = s[j - 1])
            BY <1>1, <1>2, <1>4, <2>1
        <3>2. IF j = 1 \/ s[j - 1][2] = FrameSize(s[j - 1][1])
              THEN s[j][2] = 1
              ELSE s[j] = <<s[j - 1][1], s[j - 1][2] + 1>>
            BY <3>1 DEF Responses, InFrames, n
        <3> QED
            BY <3>1, <3>2
    <2>2. CASE j = n + 1
        <3>1. u[j] = <<m, j - n>> /\ j - n = 1
            BY <1>1, <1>6, <2>2
        <3>2. j # 1 => s # <<>> /\ u[j - 1] = s[n]
            <4> HAVE j # 1
            <4>1. n \in 1..n /\ j - 1 = n /\ n \in 1..Len(u)
                BY <1>1, <1>2, <1>4, <2>2
            <4>2. s # <<>>
                BY <4>1, EmptySeq DEF n
            <4> QED
                BY <1>1, <1>4, <4>1, <4>2
        <3>3. j # 1 => u[j - 1][2] = FrameSize(u[j - 1][1])
            BY <3>2 DEF Complete, n
        <3> QED
            BY <3>1, <3>3
    <2>3. CASE j > n + 1
        <3>1. /\ j - 1 \in 1..Len(u) /\ ~ (j - 1 \in 1..n) /\ ~ (j \in 1..n) /\ j # 1
              /\ (j - 1) - n \in Nat /\ (j - 1) - n < FrameSize(m) /\ j - n = ((j - 1) - n) + 1
            BY <1>1, <1>2, <1>4, <2>3
        <3>2. u[j] = <<m, j - n>> /\ u[j - 1] = <<m, (j - 1) - n>>
            BY <1>6, <3>1
        <3>3. (j - 1) - n # FrameSize(m)
            BY <1>2, <3>1
        <3> QED
            BY <3>1, <3>2, <3>3
    <2> QED
        BY <1>1, <1>4, <2>1, <2>2, <2>3
<1>8. IsInjective(u)
    <2> SUFFICES ASSUME NEW a \in 1..Len(u), NEW b \in 1..Len(u), u[a] = u[b]
                 PROVE  a = b
        BY <1>4, <1>5 DEF IsInjective
    <2>1. CASE a \in 1..n /\ u[a] = s[a] /\ b \in 1..n /\ u[b] = s[b]
        BY <1>1, <2>1 DEF Responses, IsInjective
    <2>2. CASE a \in 1..n /\ u[a] = s[a] /\ u[b] = <<m, b - n>>
        <3>0. s[a] = <<m, b - n>>
            BY <2>2
        <3>1. s[a][1] = m
            BY <3>0
        <3> QED
            BY <2>2, <3>1 DEF n
    <2>3. CASE b \in 1..n /\ u[b] = s[b] /\ u[a] = <<m, a - n>>
        <3>1. s[b][1] = m
            BY <2>3
        <3> QED
            BY <2>3, <3>1 DEF n
    <2>4. CASE u[a] = <<m, a - n>> /\ u[b] = <<m, b - n>>
        <3>0. <<m, a - n>> = <<m, b - n>>
            BY <2>4
        <3>1. a - n = b - n
            BY <3>0
        <3> QED
            BY <1>1, <1>2, <1>4, <3>1
    <2> QED
        BY <1>6, <2>1, <2>2, <2>3, <2>4
<1>9. \A j \in 1..Len(u) : u[j][1] \in H /\ u[j][1][1] = c
    <2> TAKE j \in 1..Len(u)
    <2>1. CASE j \in 1..n /\ u[j] = s[j]
        BY <2>1 DEF Responses, n
    <2>2. CASE u[j] = <<m, j - n>>
        BY <2>2
    <2> QED
        BY <1>6, <2>1, <2>2
<1>10. Complete(u)
    <2>1. Len(u) \in 1..Len(u) /\ ~ (Len(u) \in 1..n) /\ Len(u) - n = FrameSize(m)
        BY <1>1, <1>2, <1>4
    <2>2. u[Len(u)] = <<m, FrameSize(m)>>
        BY <1>6, <2>1
    <2> QED
        BY <2>2 DEF Complete
<1> QED
    BY <1>7, <1>8, <1>9, <1>10 DEF Responses, u, f

LEMMA BytesAssociative ==
    ASSUME NEW x \in Seq(Bytes), NEW y \in Seq(Bytes), NEW z \in Seq(Bytes)
    PROVE  (x \o y) \o z = x \o (y \o z)
BY ConcatAssociative

\* write takes a part of the bytes, the rest goes to write_buf_.
LEMMA CutBytes ==
    ASSUME NEW s \in Seq(Bytes), NEW b \in Seq(Bytes), NEW n \in Nat, n <= Len(b)
    PROVE  /\ SubSeq(b, 1, n) \in Seq(Bytes) /\ SubSeq(b, n + 1, Len(b)) \in Seq(Bytes)
           /\ Len(SubSeq(b, 1, n)) = n
           /\ (s \o SubSeq(b, 1, n)) \o SubSeq(b, n + 1, Len(b)) = s \o b
<1>1. Len(b) \in Nat /\ \A i \in 1..Len(b) : b[i] \in Bytes
    BY LenProperties, ElementOfSeq
<1>2. SubSeq(b, 1, n) \in Seq(Bytes) /\ Len(SubSeq(b, 1, n)) = n
    <2>1. \A i \in 1..n : b[i] \in Bytes
        BY <1>1
    <2>2. /\ SubSeq(b, 1, n) \in Seq(Bytes)
          /\ Len(SubSeq(b, 1, n)) = IF 1 <= n THEN n - 1 + 1 ELSE 0
        BY <2>1, SubSeqProperties
    <2> QED
        BY <2>2
<1>3. SubSeq(b, n + 1, Len(b)) \in Seq(Bytes)
    <2>1. \A i \in (n + 1)..Len(b) : b[i] \in Bytes
        BY <1>1
    <2>2. n + 1 \in Int /\ Len(b) \in Int
        BY <1>1
    <2> QED
        BY <2>1, <2>2, SubSeqProperties
<1>4. SubSeq(b, 1, n) \o SubSeq(b, n + 1, Len(b)) = b
    <2>1. /\ 1 \in 1..(Len(b) + 1) /\ n \in (1 - 1)..Len(b) /\ Len(b) \in n..Len(b)
        BY <1>1
    <2>2. SubSeq(b, 1, n) \o SubSeq(b, n + 1, Len(b)) = SubSeq(b, 1, Len(b))
        BY <2>1, ConcatAdjacentSubSeq
    <2> QED
        BY <2>2, SubSeqFull
<1>5. ASSUME NEW x \in Seq(Bytes), NEW y \in Seq(Bytes), x \o y = b
      PROVE  (s \o x) \o y = s \o b
    <2>1. (s \o x) \o y = s \o (x \o y)
        BY BytesAssociative, ZenonT(60)
    <2> QED
        BY <1>5, <2>1, Zenon
<1>6. (s \o SubSeq(b, 1, n)) \o SubSeq(b, n + 1, Len(b)) = s \o b
    BY <1>2, <1>3, <1>4, <1>5, Zenon
<1> QED
    BY <1>2, <1>3, <1>6, Zenon

-----------------------------------------------------------------------------
(* What a step makes of the connections.                                   *)

\* The connections as a step leaves them, before those nobody holds are
\* destroyed: the same ones, reading no more than before.
Shell(cs) ==
    /\ cs \in [Conns -> ConnType]
    /\ \A c \in Conns :
        /\ cs[c].open = conn[c].open /\ cs[c].fd = conn[c].fd
        /\ ~ conn[c].open => cs[c] = NoConn
        /\ "in" \in cs[c].events => "in" \in conn[c].events

\* They stay, or are destroyed with nobody holding them.
Lives(cs) ==
    /\ conn' \in [Conns -> ConnType] /\ socket' \in [Fds -> Conns \cup {Nil}]
    /\ \A c \in Conns :
        /\ conn'[c] = cs[c] \/ (conn'[c] = NoConn /\ c \notin Held)
        /\ conn'[c].open => socket'[conn'[c].fd] = c

\* Those that leave the map of the server are not read from any more.
Closes(cs) ==
    /\ connections' \in [Fds -> Conns \cup {Nil}]
    /\ \A f \in Fds :
        \/ connections'[f] = connections[f]
        \/ \E x \in Conns : /\ conn[x].open /\ conn[x].fd = f
                            /\ cs[x].events = {} /\ reading' # x

\* What is written or buffered stays so, but that of c may become s.
Puts(cs, c, s) ==
    /\ out' \in [Conns -> Seq(Bytes)]
    /\ \A d \in Conns : Len(out[d]) <= Len(out'[d]) /\ Len(out'[d]) <= got[d] + Room
    /\ \A d \in Conns \ {c} : out'[d] \o cs[d].writeBuf = Written(d)
    /\ out'[c] \o cs[c].writeBuf \in {Written(c), s}

SameBuffers(cs) == \A c \in Conns : cs[c].readBuf = conn[c].readBuf

LEMMA NoConnType == NoConn \in ConnType /\ NoConn.open = FALSE /\ NoConn.events = {}
                    /\ NoConn.readBuf = <<>> /\ NoConn.writeBuf = <<>>
<1>1. <<>> \in Seq(Bytes)
    BY EmptySeq
<1> QED
    BY <1>1 DEF NoConn, ConnType

LEMMA ConnParts ==
    ASSUME TypeOK, NEW c \in Conns
    PROVE  /\ conn[c] \in ConnType /\ conn[c].open \in BOOLEAN /\ conn[c].fd \in Nat
           /\ conn[c].readBuf \in Seq(Bytes) /\ conn[c].writeBuf \in Seq(Bytes)
           /\ conn[c].events \in SUBSET {"in", "out"}
BY DEF TypeOK, ConnType

LEMMA WrittenType ==
    ASSUME TypeOK, NEW c \in Conns
    PROVE  out[c] \in Seq(Bytes) /\ Written(c) \in Seq(Bytes)
<1>1. out[c] \in Seq(Bytes) /\ conn[c].writeBuf \in Seq(Bytes)
    BY ConnParts DEF TypeOK
<1> QED
    BY <1>1, ConcatProperties DEF Written

LEMMA HeldIs == Held = ToSet(connections') \cup {m[1] : m \in Tasks'}
BY DEF Held, Tasks

LEMMA SameShell ==
    ASSUME TypeOK, FdsOwned
    PROVE  Shell(conn) /\ SameBuffers(conn)
BY DEF TypeOK, FdsOwned, Shell, SameBuffers

\* Other fields of one connection change.
LEMMA OneShell ==
    ASSUME FdsOwned, NEW x \in Conns, NEW cs \in [Conns -> ConnType],
           \A d \in Conns \ {x} : cs[d] = conn[d],
           conn[x].open, cs[x].open = conn[x].open, cs[x].fd = conn[x].fd,
           "in" \in cs[x].events => "in" \in conn[x].events
    PROVE  Shell(cs)
BY DEF FdsOwned, Shell

LEMMA Released ==
    ASSUME TypeOK, FdsOwned, NEW cs, NEW ch, Shell(cs), Release(cs, ch)
    PROVE  Lives(cs)
<1> DEFINE lost == {c \in Conns : cs[c].open /\ c \notin Held}
<1>1. /\ \A c \in Conns : conn'[c] = IF c \in lost THEN NoConn ELSE cs[c]
      /\ conn' \in [Conns -> ConnType]
    BY NoConnType DEF Release, Shell
<1>2. socket' = [f \in Fds |-> IF \E c \in lost : cs[c].fd = f THEN Nil ELSE socket[f]]
    BY DEF Release
<1>3. socket' \in [Fds -> Conns \cup {Nil}]
    BY <1>2 DEF TypeOK
<1>4. ASSUME NEW c \in Conns, conn'[c].open
      PROVE  socket'[conn'[c].fd] = c
    <2>1. conn'[c] = cs[c] /\ cs[c].open /\ c \notin lost
        BY <1>1, <1>4, NoConnType
    <2>2. conn[c].open /\ conn'[c].fd = conn[c].fd /\ conn[c].fd \in Fds /\ socket[conn[c].fd] = c
        BY <2>1 DEF Shell, FdsOwned
    <2>3. ASSUME NEW d \in Conns, cs[d].open, cs[d].fd = conn[c].fd
          PROVE  d = c
        BY <2>2, <2>3 DEF Shell, FdsOwned
    <2>4. ~ \E d \in lost : cs[d].fd = conn[c].fd
        BY <2>1, <2>3
    <2> QED
        BY <1>2, <2>2, <2>4
<1>5. \A c \in Conns : conn'[c] = cs[c] \/ (conn'[c] = NoConn /\ c \notin Held)
    BY <1>1
<1> QED
    BY <1>1, <1>3, <1>4, <1>5 DEF Lives

\* No connection is destroyed.
LEMMA AllLive ==
    ASSUME TypeOK, FdsOwned, Shell(conn'), UNCHANGED socket
    PROVE  Lives(conn')
<1>1. \A c \in Conns : conn'[c].open => socket'[conn'[c].fd] = c
    BY DEF Shell, FdsOwned
<1> QED
    BY <1>1 DEF Lives, Shell, TypeOK

LEMMA ClosesNone ==
    ASSUME TypeOK, NEW cs, UNCHANGED connections
    PROVE  Closes(cs)
BY DEF Closes, TypeOK

LEMMA Closed ==
    ASSUME TypeOK, FdsOwned, NEW c \in Conns, conn[c].open, reading' # c, HandleClose(c)
    PROVE  \E cs : /\ Shell(cs) /\ Lives(cs) /\ Closes(cs) /\ SameBuffers(cs)
                   /\ \A d \in Conns : cs[d].writeBuf = conn[d].writeBuf
<1> DEFINE cs == DisableAll(c)
           k == [conn[c] EXCEPT !.events = {}]
<1>1. cs = [conn EXCEPT ![c] = k]
    BY DEF DisableAll, TypeOK
<1>2. conn[c] \in ConnType
    BY ConnParts
<1>3. k \in ConnType /\ k.open = conn[c].open /\ k.fd = conn[c].fd /\ k.events = {}
      /\ k.readBuf = conn[c].readBuf /\ k.writeBuf = conn[c].writeBuf
    BY <1>2 DEF ConnType
<1> HIDE DEF cs, k
<1>4. /\ cs \in [Conns -> ConnType] /\ cs[c] = k
      /\ \A d \in Conns \ {c} : cs[d] = conn[d]
    BY <1>1, <1>3 DEF TypeOK
<1>10. Shell(cs)
    BY <1>3, <1>4, OneShell
<1>11. SameBuffers(cs)
    BY <1>3, <1>4 DEF SameBuffers
<1>5. Release(cs, RemoveChannel(c))
    BY DEF HandleClose, cs
<1>6. Lives(cs)
    BY <1>5, <1>10, Released
<1>7. conn[c].fd \in Fds
    BY DEF FdsOwned
<1>8. Closes(cs)
    <2>1. connections' = [connections EXCEPT ![conn[c].fd] = Nil]
        BY DEF HandleClose
    <2>2. connections' \in [Fds -> Conns \cup {Nil}]
        BY <2>1 DEF TypeOK
    <2>3. \A f \in Fds : f # conn[c].fd => connections'[f] = connections[f]
        BY <2>1 DEF TypeOK
    <2> QED
        BY <1>3, <1>4, <1>7, <2>2, <2>3 DEF Closes
<1>9. \A d \in Conns : cs[d].writeBuf = conn[d].writeBuf
    BY <1>3, <1>4
<1> QED
    BY <1>6, <1>8, <1>9, <1>10, <1>11

LEMMA EventsType ==
    ASSUME TypeOK, NEW c \in Conns, NEW rest, NEW sending
    PROVE  /\ EventsAfter(c, rest, sending) \in SUBSET {"in", "out"}
           /\ "in" \in EventsAfter(c, rest, sending) => "in" \in conn[c].events
BY ConnParts DEF EventsAfter

LEMMA PutsNothing ==
    ASSUME TypeOK, RoomKept, NEW cs, NEW c \in Conns, NEW s, UNCHANGED out,
           \A d \in Conns : cs[d].writeBuf = conn[d].writeBuf
    PROVE  Puts(cs, c, s)
<1>1. \A d \in Conns : Len(out[d]) \in Nat /\ Len(out[d]) <= got[d] + Room
    <2>1. \A d \in Conns : out[d] \in Seq(Bytes)
        BY DEF TypeOK
    <2>2. \A d \in Conns : Len(out[d]) \in Nat
        BY <2>1, LenProperties
    <2> QED
        BY <2>2 DEF RoomKept
<1>2. \A d \in Conns : out'[d] \o cs[d].writeBuf = Written(d)
    BY DEF Written
<1>3. out' \in [Conns -> Seq(Bytes)]
    BY DEF TypeOK
<1>4. \A d \in Conns : Len(out[d]) <= Len(out'[d]) /\ Len(out'[d]) <= got[d] + Room
    BY <1>1
<1>5. out'[c] \o cs[c].writeBuf \in {Written(c), s}
    BY <1>2
<1> QED
    BY <1>2, <1>3, <1>4, <1>5, Zenon DEF Puts

\* A socket takes no more than it has room for.
LEMMA AcceptedType ==
    ASSUME TypeOK, RoomKept, NEW c \in Conns, NEW b \in Seq(Bytes)
    PROVE  /\ Accepted(c, b) \in Nat /\ Accepted(c, b) <= Len(b)
           /\ Len(out[c]) + Accepted(c, b) <= got[c] + Room
<1>1. Len(out[c]) \in Nat /\ Len(b) \in Nat /\ got[c] \in Nat /\ Room \in Nat
    BY LenProperties, NetAssumption DEF TypeOK
<1>2. got[c] <= Len(out[c]) /\ Len(out[c]) <= got[c] + Room
    BY DEF RoomKept
<1> QED
    BY <1>1, <1>2 DEF Accepted

\* A worker queues the response to its request, or none.
LEMMA RunQueues ==
    ASSUME NEW w \in Workers, WorkerRun(w)
    PROVE  pending' = pending \/ pending' = Append(pending, worker[w].task)
BY DEF WorkerRun, RunInLoop

\* No connection changes.
LEMMA Untouched ==
    ASSUME TypeOK, LifeInv, NEW c \in Conns, NEW s, UNCHANGED <<out, connections, connVars>>
    PROVE  \E cs : /\ Shell(cs) /\ Lives(cs) /\ Closes(cs) /\ SameBuffers(cs)
                   /\ Puts(cs, c, s)
<1> USE DEF LifeInv, connVars
<1>1. Shell(conn) /\ SameBuffers(conn)
    BY SameShell
<1>2. Lives(conn)
    <2>1. Shell(conn')
        BY <1>1 DEF Shell
    <2>2. Lives(conn')
        BY <2>1, AllLive
    <2> QED
        BY <2>2
<1>3. Closes(conn)
    BY ClosesNone
<1>4. Puts(conn, c, s)
    BY PutsNothing
<1> QED
    BY <1>1, <1>2, <1>3, <1>4

LEMMA Writes ==
    ASSUME TypeOK, LifeInv, NEW c \in Conns, conn[c].open, reading' # c,
           NEW b \in Seq(Bytes), NEW sending, Write(c, b, sending)
    PROVE  \E cs : /\ Shell(cs) /\ Lives(cs) /\ Closes(cs) /\ SameBuffers(cs)
                   /\ Puts(cs, c, out[c] \o b)
<1> USE DEF LifeInv
<1>1. conn[c].fd \in Fds /\ socket[conn[c].fd] = c /\ c # Nil
    BY NetAssumption DEF FdsOwned
<1> DEFINE n == Accepted(c, b)
           rest == SubSeq(b, n + 1, Len(b))
           ev == EventsAfter(c, rest, sending)
           cs == [conn EXCEPT ![c].writeBuf = rest, ![c].events = ev]
<1>2. n \in Nat /\ n <= Len(b) /\ Len(out[c]) + n <= got[c] + Room
    BY AcceptedType
<1>3. ASSUME /\ out' = [out EXCEPT ![c] = @ \o SubSeq(b, 1, n)] /\ UNCHANGED connections
             /\ \E ch : Release(cs, ch)
      PROVE  \E ds : /\ Shell(ds) /\ Lives(ds) /\ Closes(ds) /\ SameBuffers(ds)
                     /\ Puts(ds, c, out[c] \o b)
    <2> DEFINE k == [conn[c] EXCEPT !.writeBuf = rest, !.events = ev]
    <2>1. conn[c] \in ConnType /\ conn[c].events \in SUBSET {"in", "out"}
        BY ConnParts
    <2>2. /\ SubSeq(b, 1, n) \in Seq(Bytes) /\ rest \in Seq(Bytes)
          /\ Len(SubSeq(b, 1, n)) = n
          /\ (out[c] \o SubSeq(b, 1, n)) \o rest = out[c] \o b
        BY <1>2, CutBytes DEF TypeOK
    <2>3. ev \in SUBSET {"in", "out"} /\ ("in" \in ev => "in" \in conn[c].events)
        BY <2>1, EventsType
    <2> HIDE DEF rest, ev, n
    <2>4. /\ k \in ConnType /\ k.open = conn[c].open /\ k.fd = conn[c].fd /\ k.events = ev
          /\ k.readBuf = conn[c].readBuf /\ k.writeBuf = rest
        BY <2>1, <2>2, <2>3 DEF ConnType
    <2>5. cs = [conn EXCEPT ![c] = k]
        BY DEF TypeOK, ev
    <2> HIDE DEF k, cs
    <2>6. /\ cs \in [Conns -> ConnType] /\ cs[c] = k
          /\ \A d \in Conns \ {c} : cs[d] = conn[d]
        BY <2>4, <2>5 DEF TypeOK
    <2>7. Shell(cs)
        BY <2>3, <2>4, <2>6, OneShell
    <2>8. SameBuffers(cs)
        BY <2>4, <2>6 DEF SameBuffers
    <2>9. Lives(cs)
        BY <1>3, <2>7, Released
    <2>10. Closes(cs)
        BY <1>3, ClosesNone
    <2>11. /\ out[c] \o SubSeq(b, 1, n) \in Seq(Bytes)
           /\ Len(out[c] \o SubSeq(b, 1, n)) = Len(out[c]) + n
        <3>1. out[c] \in Seq(Bytes)
            BY DEF TypeOK
        <3>2. /\ out[c] \o SubSeq(b, 1, n) \in Seq(Bytes)
              /\ Len(out[c] \o SubSeq(b, 1, n)) = Len(out[c]) + Len(SubSeq(b, 1, n))
            BY <2>2, <3>1, ConcatProperties
        <3> QED
            BY <2>2, <3>2
    <2>12. /\ out' \in [Conns -> Seq(Bytes)] /\ out'[c] = out[c] \o SubSeq(b, 1, n)
           /\ \A d \in Conns \ {c} : out'[d] = out[d]
        BY <1>3, <2>11 DEF TypeOK
    <2>13. \A d \in Conns : Len(out[d]) <= Len(out'[d]) /\ Len(out'[d]) <= got[d] + Room
        <3>1. \A d \in Conns : Len(out[d]) \in Nat
            BY LenProperties DEF TypeOK
        <3>2. \A d \in Conns : Len(out[d]) <= got[d] + Room
            BY DEF RoomKept
        <3>3. Len(out'[c]) = Len(out[c]) + n
            BY <2>11, <2>12
        <3>4. Len(out[c]) <= Len(out'[c]) /\ Len(out'[c]) <= got[c] + Room
            BY <1>2, <3>1, <3>3
        <3>5. \A d \in Conns \ {c} : Len(out[d]) <= Len(out'[d]) /\ Len(out'[d]) <= got[d] + Room
            BY <2>12, <3>1, <3>2
        <3> QED
            BY <3>4, <3>5
    <2>14. out'[c] \o cs[c].writeBuf = out[c] \o b
        BY <2>2, <2>4, <2>6, <2>12, Zenon
    <2>15. \A d \in Conns \ {c} : out'[d] \o cs[d].writeBuf = Written(d)
        BY <2>6, <2>12 DEF Written
    <2>16. Puts(cs, c, out[c] \o b)
        BY <2>12, <2>13, <2>14, <2>15 DEF Puts
    <2> QED
        BY <2>7, <2>8, <2>9, <2>10, <2>16
<1>4. CASE UNCHANGED out /\ HandleClose(c)
    <2>1. PICK ds : /\ Shell(ds) /\ Lives(ds) /\ Closes(ds) /\ SameBuffers(ds)
                    /\ \A d \in Conns : ds[d].writeBuf = conn[d].writeBuf
        BY <1>4, Closed
    <2>2. Puts(ds, c, out[c] \o b)
        BY <1>4, <2>1, PutsNothing
    <2> QED
        BY <2>1, <2>2
<1>5. CASE UNCHANGED <<out, connections, connVars>>
    BY <1>5, Untouched
<1> QED
    BY <1>1, <1>3, <1>4, <1>5 DEF Write

\* HandleRead that ends, HandleWrite, also after it, and HandleError: nothing new is written.
LEMMA ConnEffect ==
    ASSUME TypeOK, LifeInv, NEW c \in Conns,
           ReadCloses(c) \/ HandleWrite(c) \/ WriteAfterClose(c) \/ HandleError(c)
    PROVE  /\ reading' = Nil
           /\ \E cs : /\ Shell(cs) /\ Lives(cs) /\ Closes(cs) /\ SameBuffers(cs)
                      /\ Puts(cs, c, Written(c))
<1> USE DEF LifeInv
<1>1. reading' = Nil /\ c # Nil
    <2>1. c # Nil
        BY NetAssumption
    <2> QED
        BY <2>1 DEF ReadCloses, HandleWrite, WriteAfterClose, HandleError, LoopIdle, OneThread
<1>2. Reads(c) => conn[c].open
    BY DEF Reads, ListenersKept, Listens
<1>3. CASE conn[c].open /\ UNCHANGED out /\ HandleClose(c)
    <2>1. PICK ds : /\ Shell(ds) /\ Lives(ds) /\ Closes(ds) /\ SameBuffers(ds)
                    /\ \A d \in Conns : ds[d].writeBuf = conn[d].writeBuf
        BY <1>1, <1>3, Closed
    <2>2. Puts(ds, c, Written(c))
        BY <1>3, <2>1, PutsNothing
    <2> QED
        BY <1>1, <2>1, <2>2
<1>4. CASE conn[c].open /\ Write(c, conn[c].writeBuf, FALSE)
    <2>1. conn[c].writeBuf \in Seq(Bytes)
        BY ConnParts
    <2>2. \E cs : /\ Shell(cs) /\ Lives(cs) /\ Closes(cs) /\ SameBuffers(cs)
                  /\ Puts(cs, c, out[c] \o conn[c].writeBuf)
        BY <1>1, <1>4, <2>1, Writes
    <2> QED
        BY <1>1, <2>2 DEF Written
<1>5. CASE UNCHANGED <<out, connections, connVars>>
    BY <1>1, <1>5, Untouched
<1> QED
    BY <1>1, <1>2, <1>3, <1>4, <1>5
       DEF ReadCloses, HandleWrite, WriteAfterClose, HandleError, Watched

-----------------------------------------------------------------------------
(* Tasks.                                                                  *)

LEMMA ToSetType ==
    ASSUME NEW S, NEW s \in Seq(S)
    PROVE  /\ ToSet(s) \subseteq S
           /\ \A x : x \in ToSet(s) <=> \E i \in 1..Len(s) : s[i] = x
<1>1. DOMAIN s = 1..Len(s) /\ \A i \in 1..Len(s) : s[i] \in S
    BY LenProperties, ElementOfSeq
<1> QED
    BY <1>1 DEF ToSet

LEMMA ToSetAppend ==
    ASSUME NEW S, NEW s \in Seq(S), NEW e \in S
    PROVE  /\ ToSet(Append(s, e)) = ToSet(s) \cup {e}
           /\ IsInjective(s) /\ e \notin ToSet(s) => IsInjective(Append(s, e))
<1> DEFINE t == Append(s, e)
           n == Len(s)
<1>1. n \in Nat /\ DOMAIN s = 1..n
    BY LenProperties
<1>2. t \in Seq(S) /\ Len(t) = n + 1 /\ t[n + 1] = e /\ \A i \in 1..n : t[i] = s[i]
    BY <1>1
<1>3. DOMAIN t = 1..(n + 1)
    BY <1>2, LenProperties
<1> HIDE DEF t, n
<1>4. \A i \in 1..(n + 1) : i \in 1..n \/ i = n + 1
    BY <1>1
<1>5. n + 1 \in 1..(n + 1) /\ \A i \in 1..n : i \in 1..(n + 1)
    BY <1>1
<1>6. ToSet(t) = ToSet(s) \cup {e}
    BY <1>1, <1>2, <1>3, <1>4, <1>5 DEF ToSet
<1>7. ASSUME IsInjective(s), e \notin ToSet(s)
      PROVE  IsInjective(t)
    <2>1. \A i \in 1..n : t[i] # t[n + 1]
        BY <1>1, <1>2, <1>7 DEF ToSet
    <2> SUFFICES ASSUME NEW a \in 1..(n + 1), NEW b \in 1..(n + 1), t[a] = t[b]
                 PROVE  a = b
        BY <1>3 DEF IsInjective
    <2>2. CASE a \in 1..n /\ b \in 1..n
        BY <1>1, <1>2, <1>7, <2>2 DEF IsInjective
    <2> QED
        BY <1>4, <2>1, <2>2
<1> QED
    BY <1>6, <1>7 DEF t

LEMMA ToSetTail ==
    ASSUME NEW S, NEW s \in Seq(S), s # <<>>
    PROVE  /\ Head(s) \in S /\ Tail(s) \in Seq(S)
           /\ ToSet(s) = ToSet(Tail(s)) \cup {Head(s)}
           /\ IsInjective(s) => IsInjective(Tail(s)) /\ Head(s) \notin ToSet(Tail(s))
<1> DEFINE t == Tail(s)
           n == Len(s)
<1>1. n \in Nat \ {0} /\ DOMAIN s = 1..n
    BY EmptySeq, LenProperties
<1>2. /\ Head(s) \in S /\ t \in Seq(S) /\ Len(t) = n - 1
      /\ \A i \in 1..(n - 1) : t[i] = s[i + 1]
    <2>1. /\ Head(s) \in S /\ t \in Seq(S) /\ Len(t) = n - 1
          /\ \A i \in 1..Len(t) : t[i] = s[i + 1]
        BY HeadTailProperties
    <2> QED
        BY <2>1
<1>3. Head(s) = s[1]
    BY <1>1
<1>4. DOMAIN t = 1..(n - 1)
    BY <1>2, LenProperties
<1> HIDE DEF t, n
<1>5. /\ 1 \in 1..n
      /\ \A i \in 1..n : i = 1 \/ (i - 1 \in 1..(n - 1) /\ (i - 1) + 1 = i)
      /\ \A i \in 1..(n - 1) : i + 1 \in 1..n /\ i + 1 # 1
    BY <1>1
<1>6. ToSet(s) = ToSet(t) \cup {Head(s)}
    <2>1. \A i \in 1..n : s[i] \in ToSet(t) \cup {Head(s)}
        <3> TAKE i \in 1..n
        <3>1. CASE i = 1
            BY <1>3, <3>1
        <3>2. CASE i - 1 \in 1..(n - 1) /\ (i - 1) + 1 = i
            <4>1. t[i - 1] = s[i]
                BY <1>2, <3>2
            <4> QED
                BY <1>4, <3>2, <4>1 DEF ToSet
        <3> QED
            BY <1>5, <3>1, <3>2
    <2>2. \A i \in 1..(n - 1) : t[i] \in ToSet(s)
        <3> TAKE i \in 1..(n - 1)
        <3>1. t[i] = s[i + 1] /\ i + 1 \in 1..n
            BY <1>2, <1>5
        <3> QED
            BY <1>1, <3>1 DEF ToSet
    <2>3. Head(s) \in ToSet(s)
        BY <1>1, <1>3, <1>5 DEF ToSet
    <2> QED
        BY <1>1, <1>4, <2>1, <2>2, <2>3 DEF ToSet
<1>7. ASSUME IsInjective(s)
      PROVE  IsInjective(t) /\ Head(s) \notin ToSet(t)
    <2>1. \A a, b \in 1..(n - 1) : t[a] = t[b] => a = b
        <3> TAKE a, b \in 1..(n - 1)
        <3> HAVE t[a] = t[b]
        <3>1. s[a + 1] = s[b + 1] /\ a + 1 \in 1..n /\ b + 1 \in 1..n
            BY <1>2, <1>5
        <3>2. a + 1 = b + 1
            BY <1>1, <1>7, <3>1 DEF IsInjective
        <3> QED
            BY <3>2
    <2>2. \A a \in 1..(n - 1) : t[a] # s[1]
        <3> TAKE a \in 1..(n - 1)
        <3>1. t[a] = s[a + 1] /\ a + 1 \in 1..n /\ a + 1 # 1 /\ 1 \in 1..n
            BY <1>2, <1>5
        <3>2. s[a + 1] # s[1]
            BY <1>1, <1>7, <3>1 DEF IsInjective
        <3> QED
            BY <3>1, <3>2
    <2> QED
        BY <1>3, <1>4, <2>1, <2>2 DEF IsInjective, ToSet
<1> QED
    BY <1>2, <1>6, <1>7 DEF t

LEMMA EmptyTasks == ToSet(<<>>) = {} /\ IsInjective(<<>>)
BY DEF ToSet, IsInjective

LEMMA TaskType ==
    ASSUME TypeOK
    PROVE  /\ Tasks \subseteq Msgs
           /\ \A m \in Tasks : m[1] \in Conns /\ m[2] \in Nat
<1>1. /\ ToSet(queue) \subseteq Msgs /\ ToSet(pending) \subseteq Msgs
      /\ ToSet(running.tasks) \subseteq Msgs
    <2>1. queue \in Seq(Msgs) /\ pending \in Seq(Msgs) /\ running.tasks \in Seq(Msgs)
        BY DEF TypeOK
    <2> QED
        BY <2>1, ToSetType
<1>2. \A w \in Workers : worker[w].task \in Msgs \cup {Nil}
    BY DEF TypeOK, WorkerType
<1>3. Tasks \subseteq Msgs
    BY <1>1, <1>2 DEF Tasks
<1> QED
    BY <1>3 DEF Msgs

LEMMA NextTaskType ==
    ASSUME TypeOK'
    PROVE  \A m \in Tasks' : m \in Msgs /\ m[1] \in Conns
<1>1. /\ ToSet(queue') \subseteq Msgs /\ ToSet(pending') \subseteq Msgs
      /\ ToSet(running'.tasks) \subseteq Msgs
    <2>1. queue' \in Seq(Msgs) /\ pending' \in Seq(Msgs) /\ running'.tasks \in Seq(Msgs)
        BY DEF TypeOK
    <2> QED
        BY <2>1, ToSetType
<1>2. \A w \in Workers : worker'[w].task \in Msgs \cup {Nil}
    BY DEF TypeOK, WorkerType
<1>3. Tasks' \subseteq Msgs
    BY <1>1, <1>2 DEF Tasks
<1> QED
    BY <1>3 DEF Msgs

-----------------------------------------------------------------------------
(* Send and the end of a task.                                             *)

\* The message of the task that runs.
SentMsg == running.tasks[running.done + 1]

LEMMA SendTask ==
    ASSUME TypeOK, LifeInv, Send
    PROVE  /\ SentMsg \in Msgs /\ SentMsg \in Tasks /\ SentMsg[1] \in Conns
           /\ running.done + 1 \in 1..Len(running.tasks)
           /\ conn[SentMsg[1]].open /\ reading = Nil /\ reading' = Nil
<1>1. running.tasks \in Seq(Msgs) /\ running.done \in Nat /\ Len(running.tasks) \in Nat
    <2>1. running.tasks \in Seq(Msgs) /\ running.done \in Nat
        BY DEF TypeOK
    <2> QED
        BY <2>1, LenProperties
<1>2. running # NotRunning
    <2>1. running.tasks # <<>>
        BY DEF Send
    <2> QED
        BY <2>1 DEF NotRunning
<1>3. running.done + 1 \in 1..Len(running.tasks)
    BY <1>1, <1>2 DEF LifeInv, OneThread
<1>4. SentMsg \in ToSet(running.tasks)
    BY <1>1, <1>3, ToSetType DEF SentMsg
<1>5. SentMsg \in Tasks
    BY <1>4 DEF Tasks
<1>6. SentMsg \in Msgs /\ SentMsg[1] \in Conns
    BY <1>5, TaskType
<1>7. conn[SentMsg[1]].open
    BY <1>5 DEF LifeInv, TasksHold
<1>8. reading = Nil /\ reading' = Nil
    BY <1>2 DEF LifeInv, OneThread, Send
<1> QED
    BY <1>3, <1>5, <1>6, <1>7, <1>8

LEMMA SendEffect ==
    ASSUME TypeOK, LifeInv, Send
    PROVE  LET m == SentMsg
           IN  \E cs : /\ Shell(cs) /\ Lives(cs) /\ Closes(cs) /\ SameBuffers(cs)
                       /\ Puts(cs, m[1], Written(m[1]) \o Frame(m))
<1> DEFINE m == SentMsg
           c == m[1]
<1>1. m \in Msgs /\ c \in Conns /\ conn[c].open /\ reading' = Nil /\ c # Nil
    BY SendTask, NetAssumption
<1>2. Frame(m) \in Seq(Bytes)
    BY <1>1, FrameSeq
<1>3. out[c] \in Seq(Bytes) /\ conn[c].writeBuf \in Seq(Bytes) /\ conn[c] \in ConnType
    BY <1>1, ConnParts DEF TypeOK
<1>4. \/ SendsNow(c) /\ Write(c, Frame(m), TRUE)
      \/ /\ ~ SendsNow(c)
         /\ UNCHANGED <<out, connections, alive>>
         /\ Release([conn EXCEPT ![c].writeBuf = @ \o Frame(m)], channels)
    BY DEF Send, SentMsg
<1> HIDE DEF m, c
<1>5. CASE SendsNow(c) /\ Write(c, Frame(m), TRUE)
    <2>1. Written(c) = out[c]
        BY <1>3, <1>5, ConcatEmptySeq DEF SendsNow, Written
    <2>2. \E cs : /\ Shell(cs) /\ Lives(cs) /\ Closes(cs) /\ SameBuffers(cs)
                  /\ Puts(cs, c, out[c] \o Frame(m))
        BY <1>1, <1>2, <1>5, Writes
    <2> QED
        BY <2>1, <2>2 DEF c, m
<1>6. CASE /\ UNCHANGED <<out, connections>>
           /\ Release([conn EXCEPT ![c].writeBuf = @ \o Frame(m)], channels)
    <2> DEFINE wb == conn[c].writeBuf \o Frame(m)
               cs == [conn EXCEPT ![c].writeBuf = @ \o Frame(m)]
               k == [conn[c] EXCEPT !.writeBuf = wb]
    <2>1. wb \in Seq(Bytes)
        BY <1>2, <1>3, ConcatProperties
    <2>2. cs = [conn EXCEPT ![c] = k]
        BY <1>1 DEF TypeOK
    <2>3. Release(cs, channels)
        BY <1>6
    <2> HIDE DEF wb, cs
    <2>4. /\ k \in ConnType /\ k.open = conn[c].open /\ k.fd = conn[c].fd
          /\ k.events = conn[c].events
          /\ k.readBuf = conn[c].readBuf /\ k.writeBuf = wb
        BY <1>3, <2>1 DEF ConnType
    <2> HIDE DEF k
    <2>5. /\ cs \in [Conns -> ConnType] /\ cs[c] = k
          /\ \A d \in Conns \ {c} : cs[d] = conn[d]
        BY <1>1, <2>2, <2>4 DEF TypeOK
    <2>6. Shell(cs)
        BY <1>1, <2>4, <2>5, OneShell DEF LifeInv
    <2>7. SameBuffers(cs)
        BY <2>4, <2>5 DEF SameBuffers
    <2>8. Lives(cs)
        BY <2>3, <2>6, Released DEF LifeInv
    <2>9. Closes(cs)
        BY <1>6, ClosesNone
    <2>10. out'[c] \o cs[c].writeBuf = Written(c) \o Frame(m)
        <3>1. (out[c] \o conn[c].writeBuf) \o Frame(m) = out[c] \o (conn[c].writeBuf \o Frame(m))
            BY <1>2, <1>3, BytesAssociative, Zenon
        <3> QED
            BY <1>6, <2>4, <2>5, <3>1, Zenon DEF Written, wb
    <2>11. Puts(conn, c, Written(c))
        BY <1>1, <1>6, PutsNothing DEF LifeInv
    <2>12. \A d \in Conns \ {c} : out'[d] \o cs[d].writeBuf = Written(d)
        BY <2>5, <2>11 DEF Puts
    <2>13. Puts(cs, c, Written(c) \o Frame(m))
        BY <2>10, <2>11, <2>12 DEF Puts
    <2> QED
        BY <2>6, <2>7, <2>8, <2>9, <2>13 DEF c, m
<1> QED
    BY <1>4, <1>5, <1>6

LEMMA DoneEffect ==
    ASSUME TypeOK, LifeInv, NEW w \in Workers, WorkerDone(w)
    PROVE  /\ Shell(conn) /\ Lives(conn) /\ Closes(conn) /\ SameBuffers(conn)
           /\ \A c \in Conns : Puts(conn, c, Written(c))
<1>1. Shell(conn) /\ SameBuffers(conn)
    BY SameShell DEF LifeInv
<1>2. Lives(conn)
    BY <1>1, Released DEF LifeInv, WorkerDone
<1>3. Closes(conn)
    BY ClosesNone DEF WorkerDone, connVars, loopVars
<1>4. \A c \in Conns : Puts(conn, c, Written(c))
    BY PutsNothing DEF WorkerDone, LifeInv
<1> QED
    BY <1>1, <1>2, <1>3, <1>4

-----------------------------------------------------------------------------
(* Type correctness.                                                       *)

LEMMA InitType == Init => TypeOK
<1> SUFFICES ASSUME Init PROVE TypeOK
    OBVIOUS
<1> USE DEF Init
<1>1. <<>> \in Seq(Bytes) /\ <<>> \in Seq(Msgs) /\ <<>> \in Seq(Seq(Bytes))
    BY EmptySeq
<1>2. next \in [Conns -> Bytes]
    BY DEF Bytes, Msgs
<1>3. conn \in [Conns -> ConnType]
    BY NoConnType
<1>4. worker \in [Workers -> WorkerType]
    BY DEF WorkerType, Idle
<1>5. running \in [tasks : Seq(Msgs), done : Nat]
    BY <1>1 DEF NotRunning
<1> QED
    BY <1>1, <1>2, <1>3, <1>4, <1>5 DEF TypeOK

LEMMA ClientTypes ==
    ASSUME TypeOK, NEW c \in Conns, ClientStep(c)
    PROVE  TypeOK'
<1>1. CASE ClientWrite(c)
    <2>1. next[c] \in Bytes /\ ByteAfter(next[c]) \in Bytes
        BY ByteAfterType DEF TypeOK
    <2>2. Append(inflow[c], next[c]) \in Seq(Bytes)
        BY <2>1 DEF TypeOK
    <2>3. inflow' \in [Conns -> Seq(Bytes)] /\ next' \in [Conns -> Bytes]
        BY <1>1, <2>1, <2>2 DEF ClientWrite, TypeOK
    <2> QED
        BY <1>1, <2>3 DEF ClientWrite, TypeOK, connVars, loopVars, poolVars, historyVars
<1>2. CASE ClientRead(c)
    <2>1. out[c] \in Seq(Bytes)
        BY DEF TypeOK
    <2>2. Len(out[c]) \in Nat
        BY <2>1, LenProperties
    <2>3. got' \in [Conns -> Nat]
        BY <1>2, <2>2 DEF ClientRead, TypeOK
    <2> QED
        BY <1>2, <2>3 DEF ClientRead, TypeOK, connVars, loopVars, poolVars, historyVars
<1>3. CASE ClientClose(c) \/ ClientReset(c)
    <2>1. peer' \in [Conns -> {"new", "open", "closed", "reset"}]
        BY <1>3 DEF ClientClose, ClientReset, TypeOK
    <2> QED
        BY <1>3, <2>1 DEF ClientClose, ClientReset, TypeOK, connVars, loopVars, poolVars, historyVars
<1> QED
    BY <1>1, <1>2, <1>3 DEF ClientStep

\* Submit changes no task and wakes one worker at most.
LEMMA Submits ==
    ASSUME TypeOK, NEW m \in Msgs, Submit(m)
    PROVE  /\ queue' = Append(queue, m) /\ queue' \in Seq(Msgs)
           /\ worker' \in [Workers -> WorkerType]
           /\ \A w \in Workers :
                 /\ worker'[w].task = worker[w].task
                 /\ worker'[w].pc = worker[w].pc \/ worker'[w].pc = "check"
<1>1. queue' = Append(queue, m) /\ queue' \in Seq(Msgs)
    BY DEF Submit, TypeOK
<1>2. worker' \in [Workers -> WorkerType]
      /\ \A w \in Workers :
            /\ worker'[w].task = worker[w].task
            /\ worker'[w].pc = worker[w].pc \/ worker'[w].pc = "check"
    <2>1. CASE UNCHANGED worker
        BY <2>1 DEF TypeOK
    <2>2. ASSUME NEW v \in Workers, worker' = [worker EXCEPT ![v].pc = "check"]
          PROVE  <1>2!1 /\ <1>2!2
        BY <2>2 DEF TypeOK, WorkerType
    <2> QED
        BY <2>1, <2>2 DEF Submit
<1> QED
    BY <1>1, <1>2

\* A whole message at the start of a buffer.
LEMMA MessageType ==
    ASSUME TypeOK, NEW c \in Conns, HasMessage(conn[c].readBuf)
    PROVE  LET buf == conn[c].readBuf
               m == buf[1][1]
           IN  /\ buf \in Seq(Bytes) /\ buf[1] \in Bytes /\ m \in Msgs
               /\ FrameSize(m) \in Nat \ {0} /\ FrameSize(m) = HeaderSize + MsgLen(buf)
               /\ Len(buf) \in Nat /\ FrameSize(m) <= Len(buf)
               /\ RestOf(buf) = SubSeq(buf, FrameSize(m) + 1, Len(buf))
               /\ RestOf(buf) \in Seq(Bytes)
               /\ SubSeq(buf, 1, FrameSize(m)) \in Seq(Bytes)
<1> DEFINE buf == conn[c].readBuf
           m == buf[1][1]
<1>1. buf \in Seq(Bytes) /\ Len(buf) \in Nat
    BY ConnParts, LenProperties
<1> HIDE DEF buf
<1>2. Len(buf) >= HeaderSize /\ Len(buf) >= HeaderSize + MsgLen(buf)
    BY DEF HasMessage, buf
<1>3. 1 \in 1..Len(buf)
    BY <1>1, <1>2, NetAssumption
<1>4. buf[1] \in Bytes
    BY <1>1, <1>3, ElementOfSeq
<1>5. m \in Msgs
    BY <1>4, ByteParts
<1> HIDE DEF m
<1>6. FrameSize(m) \in Nat \ {0} /\ FrameSize(m) = HeaderSize + BodySize(m)
    BY <1>5, SizeType
<1>7. MsgLen(buf) = BodySize(m)
    BY DEF MsgLen, m
<1>8. FrameSize(m) = HeaderSize + MsgLen(buf) /\ FrameSize(m) <= Len(buf)
    BY <1>2, <1>6, <1>7
<1>9. RestOf(buf) = SubSeq(buf, FrameSize(m) + 1, Len(buf))
    BY <1>8 DEF RestOf
<1>10. /\ SubSeq(buf, 1, FrameSize(m)) \in Seq(Bytes)
       /\ SubSeq(buf, FrameSize(m) + 1, Len(buf)) \in Seq(Bytes)
    BY <1>1, <1>6, <1>8, CutBytes
<1> QED
    BY <1>1, <1>4, <1>5, <1>6, <1>8, <1>9, <1>10, Zenon DEF buf, m

LEMMA ReaderTypes ==
    ASSUME TypeOK, NEW c \in Conns,
           HandleNewConnection(c) \/ HandleRead(c) \/ ProcessMessage(c) \/ ReadBlocks(c)
    PROVE  TypeOK'
<1>1. CASE HandleNewConnection(c)
    <2>1. PICK f \in Fds :
            /\ socket' = [socket EXCEPT ![f] = c]
            /\ connections' = [connections EXCEPT ![f] = c]
            /\ conn' = [conn EXCEPT ![c] = [NoConn EXCEPT !.open = TRUE, !.fd = f,
                                                          !.events = {"in"}]]
        BY <1>1 DEF HandleNewConnection
    <2>2. f \in Nat
        BY NetAssumption DEF Fds
    <2>3. [NoConn EXCEPT !.open = TRUE, !.fd = f, !.events = {"in"}] \in ConnType
        BY <2>2, NoConnType DEF ConnType
    <2>4. conn' \in [Conns -> ConnType]
        BY <2>1, <2>3 DEF TypeOK
    <2>5. /\ socket' \in [Fds -> Conns \cup {Nil}] /\ connections' \in [Fds -> Conns \cup {Nil}]
          /\ peer' \in [Conns -> {"new", "open", "closed", "reset"}]
        BY <1>1, <2>1 DEF TypeOK, HandleNewConnection
    <2> QED
        BY <1>1, <2>4, <2>5 DEF HandleNewConnection, TypeOK, poolVars, historyVars
<1>2. CASE HandleRead(c)
    <2>1. conn[c] \in ConnType /\ conn[c].readBuf \in Seq(Bytes) /\ inflow[c] \in Seq(Bytes)
        BY ConnParts DEF TypeOK
    <2>2. conn[c].readBuf \o inflow[c] \in Seq(Bytes) /\ <<>> \in Seq(Bytes)
        BY <2>1, ConcatProperties, EmptySeq
    <2>3. conn' = [conn EXCEPT ![c] = [@ EXCEPT !.readBuf = conn[c].readBuf \o inflow[c]]]
        BY <1>2 DEF HandleRead, TypeOK
    <2>4. [conn[c] EXCEPT !.readBuf = conn[c].readBuf \o inflow[c]] \in ConnType
        BY <2>1, <2>2 DEF ConnType
    <2>5. conn' \in [Conns -> ConnType]
        BY <2>3, <2>4 DEF TypeOK
    <2>6. inflow' \in [Conns -> Seq(Bytes)]
        BY <1>2, <2>2 DEF HandleRead, TypeOK
    <2> QED
        BY <1>2, <2>5, <2>6 DEF HandleRead, TypeOK, poolVars, historyVars
<1>3. CASE ProcessMessage(c)
    <2> DEFINE buf == conn[c].readBuf
               m == buf[1][1]
    <2>1. HasMessage(buf) /\ Submit(m)
        BY <1>3 DEF ProcessMessage
    <2>2. /\ m \in Msgs /\ RestOf(buf) \in Seq(Bytes) /\ FrameSize(m) = HeaderSize + MsgLen(buf)
          /\ SubSeq(buf, 1, FrameSize(m)) \in Seq(Bytes)
        BY <2>1, MessageType
    <2>3. queue' \in Seq(Msgs) /\ worker' \in [Workers -> WorkerType]
        BY <2>1, <2>2, Submits
    <2>4. conn[c] \in ConnType
        BY ConnParts
    <2>5. conn' = [conn EXCEPT ![c] = [@ EXCEPT !.readBuf = RestOf(buf)]]
        BY <1>3 DEF ProcessMessage, TypeOK
    <2>6. [conn[c] EXCEPT !.readBuf = RestOf(buf)] \in ConnType
        BY <2>2, <2>4 DEF ConnType
    <2>7. conn' \in [Conns -> ConnType]
        BY <2>5, <2>6 DEF TypeOK
    <2>8. delivered' = [delivered EXCEPT ![c] = Append(@, SubSeq(buf, 1, FrameSize(m)))]
        BY <1>3, <2>2 DEF ProcessMessage
    <2>9. delivered[c] \in Seq(Seq(Bytes))
        BY DEF TypeOK
    <2>10. Append(delivered[c], SubSeq(buf, 1, FrameSize(m))) \in Seq(Seq(Bytes))
        BY <2>2, <2>9
    <2>11. delivered' \in [Conns -> Seq(Seq(Bytes))]
        BY <2>8, <2>10 DEF TypeOK
    <2> QED
        BY <1>3, <2>3, <2>7, <2>11 DEF ProcessMessage, TypeOK, clientVars, connVars, loopVars
<1>4. CASE ReadBlocks(c)
    BY <1>4 DEF ReadBlocks, TypeOK, clientVars, connVars, poolVars, historyVars
<1> QED
    BY <1>1, <1>2, <1>3, <1>4

LEMMA LoopTypes ==
    ASSUME TypeOK, LifeInv,
           \/ \E c \in Conns : ReadCloses(c) \/ HandleWrite(c) \/ WriteAfterClose(c) \/ HandleError(c)
           \/ HandlePendingTasks
           \/ Send
    PROVE  TypeOK'
<1>1. CASE \E c \in Conns : ReadCloses(c) \/ HandleWrite(c) \/ WriteAfterClose(c) \/ HandleError(c)
    <2>1. PICK c \in Conns : ReadCloses(c) \/ HandleWrite(c) \/ WriteAfterClose(c) \/ HandleError(c)
        BY <1>1
    <2>2. PICK cs : Lives(cs) /\ Closes(cs) /\ Puts(cs, c, Written(c))
        BY <2>1, ConnEffect
    <2>3. /\ conn' \in [Conns -> ConnType] /\ socket' \in [Fds -> Conns \cup {Nil}]
          /\ connections' \in [Fds -> Conns \cup {Nil}] /\ out' \in [Conns -> Seq(Bytes)]
        BY <2>2 DEF Lives, Closes, Puts
    <2>4. /\ UNCHANGED <<clientVars, pending, running, poolVars, delivered, handled>>
          /\ reading' \in {reading, Nil}
        BY <2>1 DEF ReadCloses, HandleWrite, WriteAfterClose, HandleError, historyVars
    <2> QED
        BY <2>3, <2>4 DEF TypeOK, clientVars, poolVars
<1>2. CASE HandlePendingTasks
    <2>1. running' \in [tasks : Seq(Msgs), done : Nat] /\ pending' \in Seq(Msgs)
        BY <1>2, EmptySeq DEF HandlePendingTasks, TypeOK
    <2> QED
        BY <1>2, <2>1 DEF HandlePendingTasks, TypeOK, clientVars, connVars, poolVars, historyVars
<1>3. CASE Send
    <2>1. PICK cs : /\ Lives(cs) /\ Closes(cs)
                    /\ Puts(cs, SentMsg[1], Written(SentMsg[1]) \o Frame(SentMsg))
        BY <1>3, SendEffect
    <2>2. /\ conn' \in [Conns -> ConnType] /\ socket' \in [Fds -> Conns \cup {Nil}]
          /\ connections' \in [Fds -> Conns \cup {Nil}] /\ out' \in [Conns -> Seq(Bytes)]
        BY <2>1 DEF Lives, Closes, Puts
    <2>3. UNCHANGED <<clientVars, reading, pending, poolVars, delivered, handled>>
        BY <1>3 DEF Send
    <2>4. running' = NotRunning \/ running' = [running EXCEPT !.done = @ + 1]
        BY <1>3 DEF Send
    <2>5. running' \in [tasks : Seq(Msgs), done : Nat]
        <3>1. <<>> \in Seq(Msgs)
            BY EmptySeq
        <3>2. NotRunning \in [tasks : Seq(Msgs), done : Nat]
            BY <3>1 DEF NotRunning
        <3>3. [running EXCEPT !.done = @ + 1] \in [tasks : Seq(Msgs), done : Nat]
            <4>1. /\ running \in [tasks : Seq(Msgs), done : Nat]
                  /\ running.done \in Nat /\ running.done + 1 \in Nat
                BY DEF TypeOK
            <4> QED
                BY <4>1
        <3> QED
            BY <2>4, <3>2, <3>3
    <2> QED
        BY <2>2, <2>3, <2>5 DEF TypeOK, clientVars, poolVars
<1> QED
    BY <1>1, <1>2, <1>3

LEMMA PoolTypes ==
    ASSUME TypeOK, LifeInv, UnhandledOnce,
           (\E w \in Workers : WorkerStep(w)) \/ Stop \/ StopNotify \/ Quit
    PROVE  TypeOK'
<1>1. ASSUME NEW w \in Workers, WorkerCheck(w) PROVE TypeOK'
    <2>1. queue # <<>> => Head(queue) \in Msgs /\ Tail(queue) \in Seq(Msgs)
        BY ToSetTail DEF TypeOK
    <2>2. worker' \in [Workers -> WorkerType] /\ queue' \in Seq(Msgs)
        <3>1. ASSUME NEW x \in {"exit", "block"}, worker' = [worker EXCEPT ![w].pc = x],
                     UNCHANGED queue
              PROVE  worker' \in [Workers -> WorkerType] /\ queue' \in Seq(Msgs)
            BY <3>1 DEF TypeOK, WorkerType
        <3>2. CASE /\ queue # <<>> /\ queue' = Tail(queue)
                   /\ worker' = [worker EXCEPT ![w] = [pc |-> "run", task |-> Head(queue)]]
            BY <2>1, <3>2 DEF TypeOK, WorkerType
        <3> QED
            BY <1>1, <3>1, <3>2 DEF WorkerCheck
    <2> QED
        BY <1>1, <2>2 DEF WorkerCheck, TypeOK, clientVars, connVars, loopVars, historyVars
<1>2. ASSUME NEW w \in Workers, WorkerSleep(w) PROVE TypeOK'
    <2>1. worker' \in [Workers -> WorkerType]
        BY <1>2 DEF WorkerSleep, TypeOK, WorkerType
    <2> QED
        BY <1>2, <2>1 DEF WorkerSleep, TypeOK, clientVars, connVars, loopVars, historyVars
<1>3. ASSUME NEW w \in Workers, WorkerRun(w) PROVE TypeOK'
    <2>0. worker[w].task \in Msgs
        BY <1>3 DEF WorkerRun, UnhandledOnce
    <2>1. worker' \in [Workers -> WorkerType]
        BY <1>3 DEF WorkerRun, TypeOK, WorkerType
    <2>2. pending' \in Seq(Msgs) /\ handled' \in SUBSET Msgs
        <3>1. pending \in Seq(Msgs) /\ Append(pending, worker[w].task) \in Seq(Msgs)
            BY <2>0 DEF TypeOK
        <3>2. pending' \in Seq(Msgs)
            BY <1>3, <3>1, RunQueues, Zenon
        <3> QED
            BY <1>3, <2>0, <3>2 DEF WorkerRun, TypeOK
    <2> QED
        BY <1>3, <2>1, <2>2 DEF WorkerRun, TypeOK, clientVars, connVars
<1>4. ASSUME NEW w \in Workers, WorkerDone(w) PROVE TypeOK'
    <2>1. conn' \in [Conns -> ConnType] /\ socket' \in [Fds -> Conns \cup {Nil}]
        BY <1>4, DoneEffect DEF Lives
    <2>2. worker' \in [Workers -> WorkerType]
        BY <1>4 DEF WorkerDone, TypeOK, WorkerType, Idle
    <2> QED
        BY <1>4, <2>1, <2>2 DEF WorkerDone, TypeOK, clientVars, connVars, loopVars, historyVars
<1>5. ASSUME StopNotify PROVE TypeOK'
    <2>1. ASSUME NEW w \in Workers
          PROVE  worker[w] \in WorkerType /\ [worker[w] EXCEPT !.pc = "check"] \in WorkerType
        <3>1. worker[w] \in WorkerType
            BY DEF TypeOK
        <3> QED
            BY <3>1 DEF WorkerType
    <2>2. worker' \in [Workers -> WorkerType]
        BY <1>5, <2>1 DEF StopNotify
    <2> QED
        BY <1>5, <2>2 DEF StopNotify, TypeOK, clientVars, connVars, loopVars, historyVars
<1>6. ASSUME Stop \/ Quit PROVE TypeOK'
    BY <1>6 DEF Stop, Quit, TypeOK, clientVars, connVars, loopVars, poolVars, historyVars
<1> QED
    BY <1>1, <1>2, <1>3, <1>4, <1>5, <1>6 DEF WorkerStep

-----------------------------------------------------------------------------
(* Connections, descriptors and tasks.                                     *)

LEMMA InitLife == Init => LifeInv
<1> SUFFICES ASSUME Init PROVE LifeInv
    OBVIOUS
<1>0. TypeOK
    BY InitType
<1>1. FdsOwned /\ ListenersKept
    BY NoConnType, NetAssumption DEF Init, FdsOwned, ListenersKept, Listens
<1>2. Tasks = {}
    <2>1. \A w \in Workers : worker[w].task = Nil
        BY DEF Init, Idle
    <2>2. queue = <<>> /\ pending = <<>> /\ running.tasks = <<>>
        BY DEF Init, NotRunning
    <2> QED
        BY <2>1, <2>2, EmptyTasks DEF Tasks
<1>3. TasksHold
    BY <1>2 DEF TasksHold
<1>4. OneThread
    BY DEF Init, OneThread
<1>5. RoomKept
    <2>1. \A c \in Conns : got[c] = 0 /\ Len(out[c]) = 0
        BY EmptySeq DEF Init
    <2> QED
        BY <2>1, NetAssumption DEF RoomKept
<1> QED
    BY <1>1, <1>3, <1>4, <1>5 DEF LifeInv

\* What all steps but accept have in common.
LEMMA LifeKept ==
    ASSUME TypeOK, TypeOK', LifeInv, NEW cs, Shell(cs), Lives(cs), Closes(cs),
           \A m \in Tasks' : conn[m[1]].open,
           \A c \in Conns : reading' = c => Listens(c),
           \A c \in Conns : peer'[c] = "new" => peer[c] = "new",
           OneThread', RoomKept'
    PROVE  LifeInv'
<1> USE DEF LifeInv
<1>1. ASSUME NEW c \in Conns, conn'[c].open
      PROVE  /\ conn'[c] = cs[c] /\ conn[c].open /\ conn'[c].fd = conn[c].fd
             /\ conn[c].fd \in Fds /\ socket[conn[c].fd] = c /\ peer[c] # "new"
             /\ socket'[conn'[c].fd] = c
    <2>1. conn'[c] = cs[c] /\ socket'[conn'[c].fd] = c
        BY <1>1, NoConnType DEF Lives
    <2>2. conn[c].open /\ conn'[c].fd = conn[c].fd
        BY <1>1, <2>1 DEF Shell
    <2> QED
        BY <2>1, <2>2 DEF FdsOwned
<1>2. ASSUME NEW c \in Conns, ~ conn'[c].open
      PROVE  conn'[c] = NoConn
    BY <1>2 DEF Lives, Shell, FdsOwned
<1>3. FdsOwned'
    BY <1>1, <1>2 DEF FdsOwned
<1>4. TasksHold'
    <2> SUFFICES ASSUME NEW m \in Tasks' PROVE conn'[m[1]].open
        BY DEF TasksHold
    <2>1. m[1] \in Conns
        BY NextTaskType
    <2>2. m[1] \in Held
        BY HeldIs
    <2>3. conn'[m[1]] = cs[m[1]]
        BY <2>1, <2>2 DEF Lives
    <2> QED
        BY <2>1, <2>3 DEF Shell
<1>5. ListenersKept'
    <2> SUFFICES ASSUME NEW c \in Conns, "in" \in conn'[c].events \/ reading' = c
                 PROVE  conn'[c].open /\ connections'[conn'[c].fd] = c
        BY DEF ListenersKept, Listens
    <2>1. "in" \in conn'[c].events =>
             conn'[c] = cs[c] /\ "in" \in cs[c].events /\ "in" \in conn[c].events
        BY NoConnType DEF Lives, Shell
    <2>2. Listens(c)
        BY <2>1 DEF Listens
    <2>3. conn[c].open /\ connections[conn[c].fd] = c /\ conn[c].fd \in Fds
          /\ socket[conn[c].fd] = c
        BY <2>2 DEF ListenersKept, FdsOwned
    <2>4. ASSUME NEW x \in Conns, conn[x].open, conn[x].fd = conn[c].fd,
                 cs[x].events = {}, reading' # x
          PROVE  FALSE
        <3>1. x = c
            BY <2>3, <2>4 DEF FdsOwned
        <3> QED
            BY <2>1, <2>4, <3>1
    <2>5. connections'[conn[c].fd] = c
        BY <2>3, <2>4 DEF Closes
    <2>6. c \in ToSet(connections')
        <3>1. connections' \in [Fds -> Conns \cup {Nil}]
            BY DEF Closes
        <3> QED
            BY <2>3, <2>5, <3>1 DEF ToSet
    <2>7. conn'[c] = cs[c]
        BY <2>6, HeldIs DEF Lives
    <2>8. conn'[c].open /\ conn'[c].fd = conn[c].fd
        BY <2>3, <2>7 DEF Shell
    <2> QED
        BY <2>5, <2>8
<1> QED
    BY <1>3, <1>4, <1>5

\* A step that leaves the connections alone.
LEMMA LifeSame ==
    ASSUME TypeOK, TypeOK', LifeInv, UNCHANGED <<conn, socket, connections, out>>,
           Tasks' \subseteq Tasks,
           \A c \in Conns : reading' = c => Listens(c),
           \A c \in Conns : peer'[c] = "new" => peer[c] = "new",
           OneThread', RoomKept'
    PROVE  LifeInv'
<1>1. Shell(conn)
    BY SameShell DEF LifeInv
<1>2. Lives(conn)
    <2>1. Shell(conn')
        BY <1>1 DEF Shell
    <2>2. Lives(conn')
        BY <2>1, AllLive DEF LifeInv
    <2> QED
        BY <2>2
<1>3. Closes(conn)
    BY ClosesNone
<1>4. \A m \in Tasks' : conn[m[1]].open
    BY DEF LifeInv, TasksHold
<1> QED
    BY <1>1, <1>2, <1>3, <1>4, LifeKept

LEMMA ReadersListen ==
    ASSUME TypeOK, reading' \in {reading, Nil}
    PROVE  \A c \in Conns : reading' = c => Listens(c)
BY NetAssumption DEF Listens

LEMMA ClientLife ==
    ASSUME TypeOK, TypeOK', LifeInv, NEW c \in Conns, ClientStep(c)
    PROVE  LifeInv'
<1>1. /\ UNCHANGED <<conn, socket, connections, out, reading, closing, running, queue, pending,
                    worker>>
      /\ \A d \in Conns : peer'[d] = "new" => peer[d] = "new"
    BY DEF ClientStep, ClientWrite, ClientRead, ClientClose, ClientReset, connVars, loopVars, poolVars,
           TypeOK
<1>2. Tasks' = Tasks
    BY <1>1 DEF Tasks
<1>3. RoomKept'
    <2>1. \A d \in Conns : Len(out[d]) \in Nat
        <3>1. \A d \in Conns : out[d] \in Seq(Bytes)
            BY DEF TypeOK
        <3> QED
            BY <3>1, LenProperties
    <2>2. \A d \in Conns : got'[d] = got[d] \/ got'[d] = Len(out[d])
        BY DEF ClientStep, ClientWrite, ClientRead, ClientClose, ClientReset, TypeOK
    <2>3. Room \in Nat
        BY NetAssumption
    <2> QED
        BY <1>1, <2>1, <2>2, <2>3 DEF RoomKept, LifeInv
<1>4. OneThread'
    BY <1>1 DEF LifeInv, OneThread
<1>5. \A d \in Conns : reading' = d => Listens(d)
    BY <1>1, ReadersListen
<1> QED
    BY <1>1, <1>2, <1>3, <1>4, <1>5, LifeSame

LEMMA NewLife ==
    ASSUME TypeOK, TypeOK', LifeInv, NEW c \in Conns, HandleNewConnection(c)
    PROVE  LifeInv'
<1> USE DEF LifeInv
<1>1. PICK f \in Fds :
        /\ socket[f] = Nil
        /\ socket' = [socket EXCEPT ![f] = c]
        /\ connections' = [connections EXCEPT ![f] = c]
        /\ conn' = [conn EXCEPT ![c] = [NoConn EXCEPT !.open = TRUE, !.fd = f,
                                                      !.events = {"in"}]]
    BY DEF HandleNewConnection
<1>2. /\ LoopIdle /\ peer[c] = "new" /\ peer' = [peer EXCEPT ![c] = "open"]
      /\ UNCHANGED <<inflow, got, out, reading, closing, pending, running, queue, worker>>
    BY DEF HandleNewConnection, poolVars
<1>3. /\ conn'[c].open /\ conn'[c].fd = f /\ peer'[c] = "open"
      /\ \A d \in Conns \ {c} : conn'[d] = conn[d] /\ peer'[d] = peer[d]
    BY <1>1, <1>2, NoConnType DEF TypeOK, NoConn
<1>4. /\ socket'[f] = c /\ connections'[f] = c
      /\ \A g \in Fds \ {f} : socket'[g] = socket[g] /\ connections'[g] = connections[g]
    BY <1>1 DEF TypeOK
<1>5. \A d \in Conns : conn[d].open => conn[d].fd \in Fds \ {f} /\ d # c
    BY <1>1, <1>2, NetAssumption DEF FdsOwned
<1>6. FdsOwned'
    BY <1>3, <1>4, <1>5 DEF FdsOwned
<1>7. TasksHold'
    <2>1. Tasks' = Tasks
        BY <1>2 DEF Tasks
    <2>2. \A m \in Tasks : m[1] \in Conns /\ conn[m[1]].open
        BY TaskType DEF TasksHold
    <2> QED
        BY <1>3, <1>5, <2>1, <2>2 DEF TasksHold
<1>8. ListenersKept'
    <2> SUFFICES ASSUME NEW d \in Conns, "in" \in conn'[d].events \/ reading' = d
                 PROVE  conn'[d].open /\ connections'[conn'[d].fd] = d
        BY DEF ListenersKept, Listens
    <2>1. CASE d = c
        BY <1>3, <1>4, <2>1
    <2>2. CASE d # c
        <3>1. Listens(d)
            BY <1>2, <1>3, <2>2 DEF Listens
        <3>2. conn[d].open /\ connections[conn[d].fd] = d /\ conn[d].fd \in Fds \ {f}
            BY <1>5, <3>1 DEF ListenersKept
        <3> QED
            BY <1>3, <1>4, <2>2, <3>2
    <2> QED
        BY <2>1, <2>2
<1>9. OneThread' /\ RoomKept'
    BY <1>2 DEF OneThread, RoomKept
<1> QED
    BY <1>6, <1>7, <1>8, <1>9

\* A buffer, what is still to be read, and the next byte, one after the other.
IsStream(u, r, f, b) ==
    /\ u \in Seq(Bytes) /\ u # <<>> /\ u[Len(u)] = b
    /\ Len(r) \in Nat /\ Len(f) \in Nat /\ Len(u) = Len(r) + Len(f) + 1
    /\ \A j \in 1..Len(r) : u[j] = r[j]
    /\ \A j \in 1..Len(f) : u[Len(r) + j] = f[j]

LEMMA StreamParts ==
    ASSUME NEW r \in Seq(Bytes), NEW f \in Seq(Bytes), NEW b \in Bytes
    PROVE  IsStream(Append(r \o f, b), r, f, b)
<1> DEFINE u == Append(r \o f, b)
           g == r \o f
<1>3. Len(r) \in Nat /\ Len(f) \in Nat
    BY LenProperties
<1>4. /\ g \in Seq(Bytes) /\ Len(g) = Len(r) + Len(f)
      /\ \A j \in 1..(Len(r) + Len(f)) : g[j] = IF j <= Len(r) THEN r[j] ELSE f[j - Len(r)]
    BY ConcatProperties
<1>2. u = Append(g, b)
    OBVIOUS
<1> HIDE DEF g, u
<1>5. /\ u \in Seq(Bytes) /\ Len(u) = Len(g) + 1 /\ u[Len(g) + 1] = b
      /\ \A j \in 1..Len(g) : u[j] = g[j]
    BY <1>2, <1>4
<1>7. \A j \in 1..Len(r) : u[j] = r[j]
    <2> TAKE j \in 1..Len(r)
    <2>1. j \in 1..Len(g) /\ j <= Len(r)
        BY <1>3, <1>4
    <2>2. g[j] = r[j]
        BY <1>3, <1>4, <2>1
    <2> QED
        BY <1>5, <2>1, <2>2
<1>8. \A j \in 1..Len(f) : u[Len(r) + j] = f[j]
    <2> TAKE j \in 1..Len(f)
    <2>1. Len(r) + j \in 1..Len(g) /\ ~ (Len(r) + j <= Len(r)) /\ (Len(r) + j) - Len(r) = j
        BY <1>3, <1>4
    <2>2. g[Len(r) + j] = f[j]
        BY <1>4, <2>1
    <2> QED
        BY <1>5, <2>1, <2>2
<1>9. u # <<>>
    BY <1>3, <1>4, <1>5, EmptySeq
<1>10. Len(u) = Len(r) + Len(f) + 1 /\ u[Len(u)] = b
    BY <1>3, <1>4, <1>5
<1> QED
    <2>1. IsStream(u, r, f, b)
        BY <1>3, <1>5, <1>7, <1>8, <1>9, <1>10 DEF IsStream
    <2> QED
        BY <2>1 DEF u

\* A byte more to be read.
LEMMA StreamGrows ==
    ASSUME NEW r \in Seq(Bytes), NEW f \in Seq(Bytes), NEW b \in Bytes
    PROVE  r \o Append(f, b) = Append(r \o f, b)
<1> DEFINE x == r \o Append(f, b)
           y == Append(r \o f, b)
           h == Append(f, b)
<1>1. Len(r) \in Nat /\ Len(f) \in Nat
    BY LenProperties
<1>2. h \in Seq(Bytes) /\ Len(h) = Len(f) + 1 /\ h[Len(f) + 1] = b /\ \A j \in 1..Len(f) : h[j] = f[j]
    BY <1>1
<1>3. x = r \o h
    OBVIOUS
<1> HIDE DEF h, x
<1>4. /\ x \in Seq(Bytes) /\ Len(x) = Len(r) + Len(h)
      /\ \A j \in 1..(Len(r) + Len(h)) : x[j] = IF j <= Len(r) THEN r[j] ELSE h[j - Len(r)]
    BY <1>2, <1>3, ConcatProperties
<1>5. /\ y \in Seq(Bytes) /\ Len(y) = Len(r) + Len(f) + 1 /\ y[Len(y)] = b
      /\ \A j \in 1..Len(r) : y[j] = r[j]
      /\ \A j \in 1..Len(f) : y[Len(r) + j] = f[j]
    BY StreamParts DEF IsStream
<1> HIDE DEF y
<1>6. ASSUME NEW j \in 1..Len(x) PROVE x[j] = y[j]
    <2>0. j \in Nat /\ 1 <= j /\ j <= Len(r) + Len(h) /\ Len(h) = Len(f) + 1
          /\ Len(y) = Len(r) + Len(f) + 1 /\ Len(x) = Len(r) + Len(f) + 1
        BY <1>1, <1>2, <1>4, <1>5
    <2>1. CASE j <= Len(r)
        <3>1. j \in 1..Len(r) /\ j \in 1..(Len(r) + Len(h))
            BY <1>1, <2>0, <2>1
        <3>2. x[j] = r[j]
            BY <1>4, <2>1, <3>1
        <3> QED
            BY <1>5, <3>1, <3>2
    <2>2. CASE j > Len(r) /\ j < Len(y)
        <3>1. j - Len(r) \in 1..Len(f) /\ Len(r) + (j - Len(r)) = j /\ ~ (j <= Len(r))
            BY <1>1, <1>2, <1>4, <1>5, <2>2
        <3>2. x[j] = h[j - Len(r)]
            BY <1>4, <3>1
        <3>3. y[j] = f[j - Len(r)]
            BY <1>5, <3>1
        <3> QED
            BY <1>2, <3>1, <3>2, <3>3
    <2>3. CASE j = Len(y)
        <3>1. j - Len(r) = Len(f) + 1 /\ ~ (j <= Len(r))
            BY <1>1, <1>5, <2>3
        <3> QED
            BY <1>2, <1>4, <1>5, <2>3, <3>1
    <2> QED
        BY <1>1, <2>0, <2>1, <2>2, <2>3
<1>7. Len(x) = Len(y)
    BY <1>1, <1>2, <1>4, <1>5
<1>8. x = y
    BY <1>4, <1>5, <1>6, <1>7, SeqEqual
<1> QED
    BY <1>8 DEF x, y

\* The bytes of u without the first n.
IsCut(y, u, n) == y = SubSeq(u, n + 1, Len(u))

\* Bytes are taken from the start of the buffer.
LEMMA StreamCut ==
    ASSUME NEW r \in Seq(Bytes), NEW c, NEW f \in Seq(Bytes), NEW b \in Bytes, NEW u, NEW x,
           NEW n \in Nat, n <= Len(r), IsCut(c, r, n), IsStream(u, r, f, b), IsStream(x, c, f, b)
    PROVE  IsCut(x, u, n)
<1> DEFINE y == SubSeq(u, n + 1, Len(u))
<1>1. Len(r) \in Nat /\ Len(f) \in Nat
    BY LenProperties
<1>2. /\ c \in Seq(Bytes) /\ Len(c) = Len(r) - n
      /\ \A j \in 1..(Len(r) - n) : c[j] = r[n + j]
    <2> DEFINE d == SubSeq(r, n + 1, Len(r))
    <2>1. \A j \in (n + 1)..Len(r) : r[j] \in Bytes
        BY <1>1, ElementOfSeq
    <2>2. n + 1 \in Int /\ Len(r) \in Int
        BY <1>1
    <2>3. /\ d \in Seq(Bytes) /\ Len(d) = IF n + 1 <= Len(r) THEN Len(r) - (n + 1) + 1 ELSE 0
          /\ \A j \in 1..(Len(r) - (n + 1) + 1) : d[j] = r[(n + 1) + j - 1]
        BY <2>1, <2>2, SubSeqProperties
    <2>4. c = d
        BY DEF IsCut
    <2> HIDE DEF d
    <2> QED
        BY <1>1, <2>3, <2>4
<1>3. /\ u \in Seq(Bytes) /\ Len(u) = Len(r) + Len(f) + 1 /\ u[Len(u)] = b
      /\ \A j \in 1..Len(r) : u[j] = r[j]
      /\ \A j \in 1..Len(f) : u[Len(r) + j] = f[j]
    BY DEF IsStream
<1>4. /\ x \in Seq(Bytes) /\ Len(x) = Len(c) + Len(f) + 1 /\ x[Len(x)] = b
      /\ \A j \in 1..Len(c) : x[j] = c[j]
      /\ \A j \in 1..Len(f) : x[Len(c) + j] = f[j]
    BY DEF IsStream
<1>5. /\ y \in Seq(Bytes) /\ Len(y) = Len(u) - n
      /\ \A j \in 1..(Len(u) - n) : y[j] = u[n + j]
    <2>1. \A j \in (n + 1)..Len(u) : u[j] \in Bytes
        BY <1>1, <1>3, ElementOfSeq
    <2>2. n + 1 \in Int /\ Len(u) \in Int
        BY <1>1, <1>3
    <2>3. /\ y \in Seq(Bytes) /\ Len(y) = IF n + 1 <= Len(u) THEN Len(u) - (n + 1) + 1 ELSE 0
          /\ \A j \in 1..(Len(u) - (n + 1) + 1) : y[j] = u[(n + 1) + j - 1]
        BY <2>1, <2>2, SubSeqProperties
    <2> QED
        BY <1>1, <1>3, <2>3
<1> HIDE DEF y
<1>6. ASSUME NEW j \in 1..Len(x) PROVE x[j] = y[j]
    <2>0. /\ j \in Nat /\ 1 <= j /\ j <= Len(x) /\ Len(c) \in Nat
          /\ Len(x) = Len(c) + Len(f) + 1 /\ Len(c) + n = Len(r)
        BY <1>1, <1>2, <1>4
    <2>1. j \in 1..(Len(u) - n) /\ y[j] = u[n + j]
        BY <1>1, <1>2, <1>3, <1>4, <1>5
    <2>2. CASE j \in 1..Len(c)
        <3>1. n + j \in 1..Len(r) /\ j \in 1..(Len(r) - n)
            BY <1>1, <1>2, <2>2
        <3> QED
            BY <1>2, <1>3, <1>4, <2>1, <2>2, <3>1
    <2>3. CASE j > Len(c) /\ j < Len(x)
        <3>1. /\ j - Len(c) \in 1..Len(f) /\ Len(c) + (j - Len(c)) = j
              /\ Len(r) + (j - Len(c)) = n + j
            BY <1>1, <2>0, <2>3
        <3>2. x[j] = f[j - Len(c)] /\ u[n + j] = f[j - Len(c)]
            BY <1>3, <1>4, <3>1
        <3> QED
            BY <2>1, <3>2
    <2>4. CASE j = Len(x)
        <3>1. n + j = Len(u)
            BY <1>1, <1>2, <1>3, <1>4, <2>4
        <3> QED
            BY <1>3, <1>4, <2>1, <2>4, <3>1
    <2> QED
        BY <1>1, <2>0, <2>2, <2>3, <2>4
<1>7. Len(x) = Len(y)
    BY <1>1, <1>2, <1>3, <1>4, <1>5
<1>8. x = y
    BY <1>4, <1>5, <1>6, <1>7, SeqEqual
<1> QED
    BY <1>8 DEF y, IsCut

LEMMA UnprocessedSeq ==
    ASSUME TypeOK, NEW c \in Conns
    PROVE  LET r == conn[c].readBuf
               f == inflow[c]
               u == Unprocessed(c)
           IN  /\ r \in Seq(Bytes) /\ f \in Seq(Bytes) /\ next[c] \in Bytes
               /\ u \in Seq(Bytes) /\ u # <<>> /\ u[Len(u)] = next[c]
               /\ Len(r) \in Nat /\ Len(f) \in Nat /\ Len(u) = Len(r) + Len(f) + 1
               /\ \A j \in 1..Len(r) : u[j] = r[j]
<1>1. conn[c].readBuf \in Seq(Bytes) /\ inflow[c] \in Seq(Bytes) /\ next[c] \in Bytes
    BY ConnParts DEF TypeOK
<1> QED
    <2>1. IsStream(Unprocessed(c), conn[c].readBuf, inflow[c], next[c])
        BY <1>1, StreamParts DEF Unprocessed
    <2> QED
        BY <1>1, <2>1 DEF IsStream

\* The message that is processed next is the one that follows in order.
LEMMA FirstMessage ==
    ASSUME TypeOK, RequestInv, NEW c \in Conns, reading = c, HasMessage(conn[c].readBuf)
    PROVE  conn[c].readBuf[1] = <<<<c, Len(delivered[c]) + 1>>, 1>>
<1> DEFINE r == conn[c].readBuf
<1>1. /\ FrameSize(r[1][1]) \in Nat \ {0} /\ FrameSize(r[1][1]) <= Len(r) /\ Len(r) \in Nat
    BY MessageType
<1>2. 1 \in 1..Len(r)
    BY <1>1
<1>3. Unprocessed(c)[1] = <<<<c, Len(delivered[c]) + 1>>, 1>>
    BY DEF RequestInv, StreamOf, Listens
<1>4. Unprocessed(c)[1] = r[1]
    BY <1>2, UnprocessedSeq
<1> QED
    BY <1>3, <1>4

LEMMA ReaderLife ==
    ASSUME TypeOK, TypeOK', LifeInv, RequestInv, NEW c \in Conns,
           HandleRead(c) \/ ProcessMessage(c) \/ ReadBlocks(c)
    PROVE  LifeInv'
<1>1. conn[c] \in ConnType /\ conn \in [Conns -> ConnType]
    BY ConnParts DEF TypeOK
<1>2. Reads(c) => Listens(c)
    BY DEF Reads, Listens
<1>3. reading = c => Listens(c)
    BY DEF Listens
<1>4. Listens(c)
    BY <1>2, <1>3 DEF HandleRead, ProcessMessage, ReadBlocks
<1>5. conn[c].open
    BY <1>4 DEF LifeInv, ListenersKept
<1>6. \E b : conn' = [conn EXCEPT ![c].readBuf = b]
    <2>1. CASE HandleRead(c)
        BY <2>1 DEF HandleRead
    <2>2. CASE ProcessMessage(c)
        BY <2>2 DEF ProcessMessage
    <2>3. CASE ReadBlocks(c)
        <3>1. conn = [conn EXCEPT ![c].readBuf = conn[c].readBuf]
            BY <1>1 DEF ConnType
        <3> QED
            BY <2>3, <3>1 DEF ReadBlocks, connVars
    <2> QED
        BY <2>1, <2>2, <2>3
<1>7. /\ conn' \in [Conns -> ConnType] /\ conn'[c].open = conn[c].open /\ conn'[c].fd = conn[c].fd
      /\ conn'[c].events = conn[c].events
      /\ \A d \in Conns \ {c} : conn'[d] = conn[d]
    <2>1. PICK b : conn' = [conn EXCEPT ![c].readBuf = b]
        BY <1>6
    <2>2. conn'[c] = [conn[c] EXCEPT !.readBuf = b] /\ \A d \in Conns \ {c} : conn'[d] = conn[d]
        BY <1>1, <2>1
    <2>3. /\ conn'[c].open = conn[c].open /\ conn'[c].fd = conn[c].fd
          /\ conn'[c].events = conn[c].events
        BY <1>1, <2>2 DEF ConnType
    <2>4. conn' \in [Conns -> ConnType]
        BY DEF TypeOK
    <2> QED
        BY <2>2, <2>3, <2>4
<1>8. Shell(conn')
    <2>1. \A d \in Conns :
             /\ conn'[d].open = conn[d].open /\ conn'[d].fd = conn[d].fd
             /\ ~ conn[d].open => conn'[d] = NoConn
             /\ "in" \in conn'[d].events => "in" \in conn[d].events
        BY <1>5, <1>7 DEF LifeInv, FdsOwned
    <2> QED
        BY <1>7, <2>1 DEF Shell
<1>9. UNCHANGED <<socket, connections, closing, out, peer, got, running, pending>>
    BY DEF HandleRead, ProcessMessage, ReadBlocks, clientVars, connVars, loopVars
<1>10. Lives(conn') /\ Closes(conn')
    <2>1. Lives(conn')
        BY <1>8, <1>9, AllLive DEF LifeInv
    <2>2. Closes(conn')
        BY <1>9 DEF Closes, TypeOK
    <2> QED
        BY <2>1, <2>2
<1>11. \A m \in Tasks' : conn[m[1]].open
    <2>1. CASE HandleRead(c) \/ ReadBlocks(c)
        <3>1. Tasks' = Tasks
            BY <1>9, <2>1 DEF Tasks, HandleRead, ReadBlocks, poolVars
        <3> QED
            BY <3>1 DEF LifeInv, TasksHold
    <2>2. CASE ProcessMessage(c)
        <3> DEFINE m == conn[c].readBuf[1][1]
        <3>1. HasMessage(conn[c].readBuf) /\ Submit(m) /\ reading = c
            BY <2>2 DEF ProcessMessage
        <3>2. m \in Msgs
            BY <3>1, MessageType
        <3>3. m[1] = c
            BY <3>1, FirstMessage
        <3> HIDE DEF m
        <3>4. /\ ToSet(queue') = ToSet(queue) \cup {m}
              /\ \A w \in Workers : worker'[w].task = worker[w].task
            <4>1. /\ queue' = Append(queue, m)
                  /\ \A w \in Workers : worker'[w].task = worker[w].task
                BY <3>1, <3>2, Submits
            <4>2. queue \in Seq(Msgs)
                BY DEF TypeOK
            <4> QED
                BY <3>2, <4>1, <4>2, ToSetAppend
        <3>5. Tasks' \subseteq Tasks \cup {m}
            BY <1>9, <3>4 DEF Tasks
        <3> QED
            BY <1>5, <3>3, <3>5 DEF LifeInv, TasksHold
    <2> QED
        BY <2>1, <2>2
<1>12. \A d \in Conns : reading' = d => Listens(d)
    BY <1>4, NetAssumption DEF HandleRead, ProcessMessage, ReadBlocks, connVars, loopVars
<1>13. OneThread'
    <2>1. running = NotRunning /\ closing = Nil
        <3>1. reading = c => running = NotRunning /\ closing = Nil
            BY NetAssumption DEF LifeInv, OneThread
        <3> QED
            BY <3>1 DEF HandleRead, ProcessMessage, ReadBlocks, Reads, LoopIdle
    <2> QED
        BY <1>9, <2>1 DEF OneThread
<1>14. RoomKept'
    BY <1>9 DEF LifeInv, RoomKept
<1>15. \A d \in Conns : peer'[d] = "new" => peer[d] = "new"
    BY <1>9
<1> QED
    BY <1>8, <1>10, <1>11, <1>12, <1>13, <1>14, <1>15, LifeKept

\* What a step has written is within the room there is.
LEMMA PutsRoom ==
    ASSUME TypeOK, TypeOK', RoomKept, NEW cs, NEW c, NEW s, Puts(cs, c, s), UNCHANGED got
    PROVE  RoomKept'
<1>1. \A d \in Conns : Len(out[d]) \in Nat /\ Len(out'[d]) \in Nat /\ got[d] \in Nat
    <2>1. \A d \in Conns : out[d] \in Seq(Bytes) /\ out'[d] \in Seq(Bytes) /\ got[d] \in Nat
        BY DEF TypeOK
    <2> QED
        BY <2>1, LenProperties
<1>2. \A d \in Conns : /\ got[d] <= Len(out[d])
                       /\ Len(out[d]) <= Len(out'[d]) /\ Len(out'[d]) <= got[d] + Room
    BY DEF Puts, RoomKept
<1>3. \A d \in Conns : got'[d] <= Len(out'[d]) /\ Len(out'[d]) <= got'[d] + Room
    BY <1>1, <1>2
<1> QED
    BY <1>3 DEF RoomKept

LEMMA LoopLife ==
    ASSUME TypeOK, TypeOK', LifeInv,
           \/ \E c \in Conns : ReadCloses(c) \/ HandleWrite(c) \/ WriteAfterClose(c) \/ HandleError(c)
           \/ HandlePendingTasks
           \/ Send
    PROVE  LifeInv'
<1>1. CASE \E c \in Conns : ReadCloses(c) \/ HandleWrite(c) \/ WriteAfterClose(c) \/ HandleError(c)
    <2>1. PICK c \in Conns : ReadCloses(c) \/ HandleWrite(c) \/ WriteAfterClose(c) \/ HandleError(c)
        BY <1>1
    <2>2. PICK cs : Shell(cs) /\ Lives(cs) /\ Closes(cs) /\ Puts(cs, c, Written(c))
        BY <2>1, ConnEffect
    <2>3. /\ UNCHANGED <<peer, got, queue, pending, running, worker>>
          /\ reading' = Nil
        BY <2>1, ConnEffect
           DEF ReadCloses, HandleWrite, WriteAfterClose, HandleError, clientVars, poolVars
    <2>4. Tasks' = Tasks
        BY <2>3 DEF Tasks
    <2>5. OneThread' /\ RoomKept'
        BY <2>2, <2>3, PutsRoom DEF LifeInv, OneThread
    <2>6. \A d \in Conns : reading' = d => Listens(d)
        BY <2>3, ReadersListen
    <2>7. \A m \in Tasks' : conn[m[1]].open
        BY <2>4 DEF LifeInv, TasksHold
    <2>8. \A d \in Conns : peer'[d] = "new" => peer[d] = "new"
        BY <2>3
    <2> QED
        BY <2>2, <2>5, <2>6, <2>7, <2>8, LifeKept
<1>2. CASE HandlePendingTasks
    <2>1. /\ UNCHANGED <<conn, socket, connections, out, peer, got, queue, worker, reading>>
          /\ running' = [tasks |-> pending, done |-> 0] /\ pending' = <<>> /\ pending # <<>>
          /\ reading = Nil
        BY <1>2 DEF HandlePendingTasks, clientVars, connVars, poolVars, LoopIdle
    <2>2. Tasks' \subseteq Tasks
        <3>1. running'.tasks = pending
            BY <2>1
        <3> QED
            BY <2>1, <3>1, EmptyTasks DEF Tasks
    <2>3. OneThread'
        <3>1. pending \in Seq(Msgs)
            BY DEF TypeOK
        <3>2. Len(pending) \in Nat \ {0}
            BY <2>1, <3>1, EmptySeq
        <3> QED
            BY <2>1, <3>2 DEF OneThread
    <2>4. RoomKept'
        BY <2>1 DEF LifeInv, RoomKept
    <2>5. \A d \in Conns : reading' = d => Listens(d)
        BY <2>1, ReadersListen
    <2>6. \A d \in Conns : peer'[d] = "new" => peer[d] = "new"
        BY <2>1
    <2> QED
        BY <2>1, <2>2, <2>3, <2>4, <2>5, <2>6, LifeSame
<1>3. CASE Send
    <2>1. PICK cs : /\ Shell(cs) /\ Lives(cs) /\ Closes(cs)
                    /\ Puts(cs, SentMsg[1], Written(SentMsg[1]) \o Frame(SentMsg))
        BY <1>3, SendEffect
    <2>2. UNCHANGED <<peer, got, queue, pending, worker, reading>>
        BY <1>3 DEF Send, clientVars, poolVars
    <2>3. running.done + 1 \in 1..Len(running.tasks) /\ reading = Nil
        BY <1>3, SendTask
    <2>4. running' = IF running.done + 1 = Len(running.tasks) THEN NotRunning
                     ELSE [running EXCEPT !.done = @ + 1]
        BY <1>3 DEF Send
    <2>5. /\ running'.tasks \in {<<>>, running.tasks}
          /\ running' # NotRunning => running'.done < Len(running'.tasks)
        <3>1. CASE running.done + 1 = Len(running.tasks)
            BY <2>4, <3>1 DEF NotRunning
        <3>2. CASE running.done + 1 # Len(running.tasks)
            <4>1. running' = [running EXCEPT !.done = @ + 1]
                BY <2>4, <3>2
            <4>2. running \in [tasks : Seq(Msgs), done : Nat]
                BY DEF TypeOK
            <4>3. running'.tasks = running.tasks /\ running'.done = running.done + 1
                BY <4>1, <4>2
            <4>4. Len(running.tasks) \in Nat
                BY <4>2, LenProperties
            <4> QED
                BY <2>3, <3>2, <4>3, <4>4
        <3> QED
            BY <3>1, <3>2
    <2>6. Tasks' \subseteq Tasks
        BY <2>2, <2>5, EmptyTasks DEF Tasks
    <2>7. OneThread'
        BY <2>2, <2>3, <2>5 DEF OneThread
    <2>8. RoomKept'
        BY <2>1, <2>2, PutsRoom DEF LifeInv
    <2>9. \A d \in Conns : reading' = d => Listens(d)
        BY <2>2, ReadersListen
    <2>10. \A m \in Tasks' : conn[m[1]].open
        BY <2>6 DEF LifeInv, TasksHold
    <2>11. \A d \in Conns : peer'[d] = "new" => peer[d] = "new"
        BY <2>2
    <2> QED
        BY <2>1, <2>7, <2>8, <2>9, <2>10, <2>11, LifeKept
<1> QED
    BY <1>1, <1>2, <1>3

\* Workers take tasks from the queue, hand them to the loop and drop them.
LEMMA PoolTasks ==
    ASSUME TypeOK, TypeOK', UnhandledOnce,
           (\E w \in Workers : WorkerStep(w)) \/ Stop \/ StopNotify \/ Quit
    PROVE  Tasks' \subseteq Tasks
<1>1. ASSUME NEW w \in Workers, WorkerCheck(w) PROVE Tasks' \subseteq Tasks
    <2>1. queue # <<>> => ToSet(queue) = ToSet(Tail(queue)) \cup {Head(queue)}
        BY ToSetTail DEF TypeOK
    <2>2. UNCHANGED <<pending, running>>
        BY <1>1 DEF WorkerCheck, connVars, loopVars
    <2>3. CASE /\ queue # <<>> /\ queue' = Tail(queue)
               /\ worker' = [worker EXCEPT ![w] = [pc |-> "run", task |-> Head(queue)]]
        <3>1. \A v \in Workers : worker'[v].task \in {worker[v].task, Head(queue)}
            BY <2>3 DEF TypeOK
        <3> QED
            BY <2>1, <2>2, <2>3, <3>1 DEF Tasks
    <2>4. ASSUME NEW x, worker' = [worker EXCEPT ![w].pc = x], UNCHANGED queue
          PROVE  Tasks' \subseteq Tasks
        <3>1. \A v \in Workers : worker'[v].task = worker[v].task
            BY <2>4 DEF TypeOK, WorkerType
        <3> QED
            BY <2>2, <2>4, <3>1 DEF Tasks
    <2> QED
        BY <1>1, <2>3, <2>4 DEF WorkerCheck
<1>2. ASSUME NEW w \in Workers, WorkerSleep(w) PROVE Tasks' \subseteq Tasks
    <2>1. \A v \in Workers : worker'[v].task = worker[v].task
        BY <1>2 DEF WorkerSleep, TypeOK, WorkerType
    <2> QED
        BY <1>2, <2>1 DEF Tasks, WorkerSleep, connVars, loopVars
<1>3. ASSUME NEW w \in Workers, WorkerRun(w) PROVE Tasks' \subseteq Tasks
    <2>1. \A v \in Workers : worker'[v].task = worker[v].task
        BY <1>3 DEF WorkerRun, TypeOK, WorkerType
    <2>2. worker[w].task \in Msgs /\ worker[w].task # Nil
        BY <1>3, NetAssumption DEF WorkerRun, UnhandledOnce, Msgs
    <2>3. ToSet(pending') \subseteq ToSet(pending) \cup {worker[w].task}
        <3>0. pending \in Seq(Msgs)
            BY DEF TypeOK
        <3>1. ToSet(Append(pending, worker[w].task)) = ToSet(pending) \cup {worker[w].task}
            BY <2>2, <3>0, ToSetAppend
        <3>2. pending' = pending \/ pending' = Append(pending, worker[w].task)
            BY <1>3, RunQueues
        <3> QED
            BY <3>1, <3>2, Zenon
    <2>4. UNCHANGED <<queue, running>>
        BY <1>3 DEF WorkerRun
    <2>5. worker[w].task \in Tasks
        BY <2>2 DEF Tasks
    <2> QED
        BY <2>1, <2>3, <2>4, <2>5 DEF Tasks
<1>4. ASSUME NEW w \in Workers, WorkerDone(w) PROVE Tasks' \subseteq Tasks
    <2>1. \A v \in Workers : worker'[v].task \in {worker[v].task, Nil}
        BY <1>4 DEF WorkerDone, TypeOK, WorkerType, Idle
    <2> QED
        BY <1>4, <2>1 DEF Tasks, WorkerDone, connVars, loopVars
<1>5. ASSUME StopNotify PROVE Tasks' \subseteq Tasks
    <2>1. \A v \in Workers : worker'[v].task = worker[v].task
        BY <1>5 DEF StopNotify, TypeOK, WorkerType
    <2> QED
        BY <1>5, <2>1 DEF Tasks, StopNotify, connVars, loopVars
<1>6. ASSUME Stop \/ Quit PROVE Tasks' \subseteq Tasks
    BY <1>6 DEF Stop, Quit, Tasks, connVars, loopVars, poolVars
<1> QED
    BY <1>1, <1>2, <1>3, <1>4, <1>5, <1>6 DEF WorkerStep

LEMMA PoolLife ==
    ASSUME TypeOK, TypeOK', LifeInv, UnhandledOnce,
           (\E w \in Workers : WorkerStep(w)) \/ Stop \/ StopNotify \/ Quit
    PROVE  LifeInv'
<1>1. Tasks' \subseteq Tasks
    BY PoolTasks
<1>2. UNCHANGED <<connections, out, peer, got, running, reading, closing>>
    BY DEF WorkerStep, WorkerCheck, WorkerSleep, WorkerRun, WorkerDone, Stop, StopNotify, Quit,
           clientVars, connVars, loopVars
<1>3. OneThread' /\ RoomKept'
    BY <1>2 DEF LifeInv, OneThread, RoomKept
<1>4. \A d \in Conns : reading' = d => Listens(d)
    BY <1>2, ReadersListen
<1>5. \A m \in Tasks' : conn[m[1]].open
    BY <1>1 DEF LifeInv, TasksHold
<1>6. \A d \in Conns : peer'[d] = "new" => peer[d] = "new"
    BY <1>2
<1>7. CASE \E w \in Workers : WorkerDone(w)
    <2>1. Shell(conn) /\ Lives(conn) /\ Closes(conn)
        BY <1>7, DoneEffect
    <2> QED
        BY <1>3, <1>4, <1>5, <1>6, <2>1, LifeKept
<1>8. CASE UNCHANGED <<conn, socket>>
    BY <1>1, <1>2, <1>3, <1>4, <1>6, <1>8, LifeSame
<1> QED
    BY <1>7, <1>8 DEF WorkerStep, WorkerCheck, WorkerSleep, WorkerRun, Stop, StopNotify, Quit, connVars

-----------------------------------------------------------------------------
(* Requests.                                                               *)

Live(c) == peer[c] = "new" \/ Listens(c)

LEMMA InitRequests == Init => RequestInv
<1> SUFFICES ASSUME Init PROVE RequestInv
    OBVIOUS
<1>0. TypeOK
    BY InitType
<1>1. \A c \in Conns : delivered[c] = <<>> /\ Len(delivered[c]) = 0
    BY EmptySeq DEF Init
<1>2. RequestsWhole
    BY <1>1 DEF RequestsWhole
<1>3. ASSUME NEW c \in Conns PROVE StreamOf(c)
    <2> DEFINE b == <<<<c, 1>>, 1>>
    <2>1. conn[c].readBuf = <<>> /\ inflow[c] = <<>> /\ next[c] = b
        BY NoConnType DEF Init
    <2>2. IsStream(Unprocessed(c), <<>>, <<>>, b)
        <3>1. conn[c].readBuf \in Seq(Bytes) /\ inflow[c] \in Seq(Bytes) /\ next[c] \in Bytes
            BY <1>0, ConnParts DEF TypeOK
        <3> QED
            BY <2>1, <3>1, StreamParts DEF Unprocessed
    <2> DEFINE u == Unprocessed(c)
    <2>3. Len(u) = 1 /\ u[1] = b
        <3>1. Len(<<>>) = 0
            BY EmptySeq
        <3> QED
            BY <2>2, <3>1 DEF IsStream
    <2> HIDE DEF u
    <2>4. <<c, 1>> \in Msgs
        BY DEF Msgs
    <2>5. FrameSize(<<c, 1>>) \in Nat \ {0}
        BY <2>4, SizeType
    <2>6. b[1] = <<c, 1>> /\ b[2] = 1
        OBVIOUS
    <2>7. Chained(u)
        <3> SUFFICES ASSUME NEW j \in 1..Len(u)
                     PROVE  LET m == u[j][1]
                                i == u[j][2]
                            IN  /\ i \in 1..FrameSize(m)
                                /\ \A x \in i..FrameSize(m) :
                                      j + (x - i) <= Len(u) => u[j + (x - i)] = <<m, x>>
                                /\ LET k == j + (FrameSize(m) - i) + 1
                                   IN  k <= Len(u) => u[k] = <<<<m[1], m[2] + 1>>, 1>>
            BY DEF Chained
        <3>1. j = 1 /\ u[j] = b
            BY <2>3
        <3>2. \A x \in 1..FrameSize(<<c, 1>>) : 1 + (x - 1) <= 1 => x = 1 /\ 1 + (x - 1) = 1
            BY <2>5
        <3>3. ~ (1 + (FrameSize(<<c, 1>>) - 1) + 1 <= 1)
            BY <2>5
        <3>4. 1 \in 1..FrameSize(<<c, 1>>)
            BY <2>5
        <3> QED
            BY <2>3, <2>6, <3>1, <3>2, <3>3, <3>4
    <2> QED
        BY <1>1, <2>3, <2>7 DEF StreamOf, u
<1> QED
    BY <1>2, <1>3 DEF RequestInv

\* A connection is read from after a step only if it was before or is new, and a
\* step that leaves its streams alone keeps the order of requests.
LEMMA RequestKept ==
    ASSUME RequestInv, UNCHANGED delivered,
           \A c \in Conns : Live(c)' => Live(c) /\ Unprocessed(c)' = Unprocessed(c)
    PROVE  RequestInv'
<1>1. RequestsWhole'
    BY DEF RequestInv, RequestsWhole
<1>2. ASSUME NEW c \in Conns PROVE StreamOf(c)'
    <2> SUFFICES ASSUME Live(c)'
                 PROVE  /\ Chained(Unprocessed(c)')
                        /\ Unprocessed(c)'[1] = <<<<c, Len(delivered'[c]) + 1>>, 1>>
        BY DEF StreamOf, Live, Chained
    <2>1. Live(c) /\ Unprocessed(c)' = Unprocessed(c)
        OBVIOUS
    <2> QED
        BY <2>1 DEF RequestInv, StreamOf, Live
<1> QED
    BY <1>1, <1>2 DEF RequestInv

\* The steps that close or destroy connections.
LEMMA ShellRequests ==
    ASSUME TypeOK, LifeInv, LifeInv', RequestInv, NEW cs, Shell(cs), Lives(cs), SameBuffers(cs),
           UNCHANGED <<peer, next, inflow, delivered>>, reading' \in {reading, Nil}
    PROVE  RequestInv'
<1>1. ASSUME NEW c \in Conns, Live(c)'
      PROVE  Live(c) /\ Unprocessed(c)' = Unprocessed(c)
    <2>1. CASE peer'[c] = "new"
        <3>1. conn[c] = NoConn /\ cs[c] = NoConn
            BY <2>1, NoConnType DEF LifeInv, FdsOwned, Shell
        <3>2. conn'[c] = NoConn
            BY <3>1 DEF Lives
        <3> QED
            BY <2>1, <3>1, <3>2 DEF Live, Unprocessed
    <2>2. CASE Listens(c)'
        <3>1. conn'[c].open
            BY <2>2 DEF LifeInv, ListenersKept
        <3>2. conn'[c] = cs[c]
            BY <3>1, NoConnType DEF Lives
        <3>3. conn'[c].readBuf = conn[c].readBuf
            BY <3>2 DEF SameBuffers
        <3>4. Listens(c)
            BY <2>2, <3>2, NetAssumption DEF Listens, Shell
        <3> QED
            BY <3>3, <3>4 DEF Live, Unprocessed
    <2> QED
        BY <1>1, <2>1, <2>2 DEF Live
<1> QED
    BY <1>1, RequestKept

\* The steps that leave connections and clients alone.
LEMMA SameRequests ==
    ASSUME RequestInv, UNCHANGED <<conn, next, inflow, delivered>>,
           reading' \in {reading, Nil},
           \A c \in Conns : peer'[c] = "new" => peer[c] = "new"
    PROVE  RequestInv'
<1>1. \A c \in Conns : Live(c)' => Live(c) /\ Unprocessed(c)' = Unprocessed(c)
    BY NetAssumption DEF Live, Listens, Unprocessed
<1> QED
    BY <1>1, RequestKept

LEMMA ClientRequests ==
    ASSUME TypeOK, TypeOK', RequestInv, NEW c \in Conns, ClientStep(c)
    PROVE  RequestInv'
<1>1. CASE ClientWrite(c)
    <2>1. /\ UNCHANGED <<conn, reading, peer, delivered>>
          /\ inflow' = [inflow EXCEPT ![c] = Append(@, next[c])]
          /\ next' = [next EXCEPT ![c] = ByteAfter(@)]
        BY <1>1 DEF ClientWrite, connVars, loopVars, historyVars
    <2>2. RequestsWhole'
        BY <2>1 DEF RequestInv, RequestsWhole
    <2>3. ASSUME NEW d \in Conns PROVE StreamOf(d)'
        <3> DEFINE u == Unprocessed(d)
        <3> SUFFICES ASSUME Live(d)'
                     PROVE  /\ Chained(Unprocessed(d)')
                            /\ Unprocessed(d)'[1] = <<<<d, Len(delivered'[d]) + 1>>, 1>>
            BY DEF StreamOf, Live, Chained
        <3>1. Live(d)
            BY <2>1 DEF Live, Listens
        <3>2. Chained(u) /\ u[1] = <<<<d, Len(delivered[d]) + 1>>, 1>>
            BY <3>1 DEF RequestInv, StreamOf, Live
        <3>3. CASE d # c
            <4>1. Unprocessed(d)' = u
                BY <2>1, <3>3 DEF Unprocessed, TypeOK
            <4> QED
                BY <2>1, <3>2, <4>1
        <3>4. CASE d = c
            <4> DEFINE r == conn[c].readBuf
                       f == inflow[c]
                       b == next[c]
            <4>1. r \in Seq(Bytes) /\ f \in Seq(Bytes) /\ b \in Bytes
                BY UnprocessedSeq
            <4>2. inflow'[c] = Append(f, b) /\ next'[c] = ByteAfter(b)
                BY <2>1 DEF TypeOK
            <4>3. r \o Append(f, b) = Append(r \o f, b)
                BY <4>1, StreamGrows
            <4>4. Unprocessed(c)' = Append(Append(r \o f, b), ByteAfter(b))
                BY <2>1, <4>2, <4>3, Zenon DEF Unprocessed
            <4>5. Unprocessed(c)' = Append(u, ByteAfter(b))
                BY <3>4, <4>4, Zenon DEF Unprocessed
            <4>6. u \in Seq(Bytes) /\ u # <<>> /\ u[Len(u)] = b
                BY <3>4, UnprocessedSeq
            <4> HIDE DEF u, b
            <4>7. Chained(Append(u, ByteAfter(b)))
                BY <3>2, <4>6, ChainGrows
            <4>8. Append(u, ByteAfter(b))[1] = u[1]
                <5>1. ByteAfter(b) \in Bytes
                    BY <4>1, ByteAfterType DEF b
                <5>2. Len(u) \in Nat \ {0}
                    BY <4>6, EmptySeq
                <5>3. \A j \in 1..Len(u) : Append(u, ByteAfter(b))[j] = u[j]
                    BY <4>6, <5>1, <5>2
                <5> QED
                    BY <5>2, <5>3
            <4> QED
                BY <2>1, <3>2, <3>4, <4>5, <4>7, <4>8
        <3> QED
            BY <3>3, <3>4
    <2> QED
        BY <2>2, <2>3 DEF RequestInv
<1>2. CASE ClientRead(c) \/ ClientClose(c) \/ ClientReset(c)
    <2>1. /\ UNCHANGED <<conn, next, inflow, delivered, reading>>
          /\ \A d \in Conns : peer'[d] = "new" => peer[d] = "new"
        BY <1>2 DEF ClientRead, ClientClose, ClientReset, connVars, loopVars, historyVars, TypeOK
    <2> QED
        BY <2>1, SameRequests
<1> QED
    BY <1>1, <1>2 DEF ClientStep

LEMMA ReaderRequests ==
    ASSUME TypeOK, TypeOK', LifeInv, RequestInv, NEW c \in Conns,
           HandleNewConnection(c) \/ HandleRead(c) \/ ReadBlocks(c)
    PROVE  RequestInv'
<1>1. CASE HandleNewConnection(c)
    <2>1. PICK f \in Fds :
            conn' = [conn EXCEPT ![c] = [NoConn EXCEPT !.open = TRUE, !.fd = f, !.events = {"in"}]]
        BY <1>1 DEF HandleNewConnection
    <2>2. /\ peer[c] = "new" /\ peer' = [peer EXCEPT ![c] = "open"]
          /\ UNCHANGED <<next, inflow, delivered, reading>>
        BY <1>1 DEF HandleNewConnection, historyVars
    <2>3. conn[c] = NoConn
        BY <2>2 DEF LifeInv, FdsOwned
    <2>4. /\ conn'[c].readBuf = conn[c].readBuf
          /\ \A d \in Conns \ {c} : conn'[d] = conn[d] /\ peer'[d] = peer[d]
        BY <2>1, <2>2, <2>3, NoConnType DEF TypeOK, NoConn
    <2>5. ASSUME NEW d \in Conns, Live(d)'
          PROVE  Live(d) /\ Unprocessed(d)' = Unprocessed(d)
        <3>1. conn'[d].readBuf = conn[d].readBuf
            BY <2>4
        <3>2. Live(d)
            BY <2>2, <2>4, <2>5 DEF Live, Listens
        <3> QED
            BY <2>2, <3>1, <3>2 DEF Unprocessed
    <2> QED
        BY <2>2, <2>5, RequestKept
<1>2. CASE HandleRead(c)
    <2> DEFINE r == conn[c].readBuf
               f == inflow[c]
    <2>1. /\ UNCHANGED <<peer, next, delivered>> /\ reading' = c /\ Reads(c)
          /\ conn' = [conn EXCEPT ![c].readBuf = @ \o f]
          /\ inflow' = [inflow EXCEPT ![c] = <<>>]
        BY <1>2 DEF HandleRead, historyVars
    <2>2. r \in Seq(Bytes) /\ f \in Seq(Bytes) /\ conn \in [Conns -> ConnType]
        BY UnprocessedSeq DEF TypeOK
    <2>3. /\ conn'[c] = [conn[c] EXCEPT !.readBuf = r \o f] /\ inflow'[c] = <<>>
          /\ \A d \in Conns \ {c} : conn'[d] = conn[d] /\ inflow'[d] = inflow[d]
        BY <2>1, <2>2 DEF TypeOK
    <2>4. conn'[c].readBuf = r \o f /\ conn'[c].events = conn[c].events
        <3> DEFINE g == r \o f
        <3>1. conn[c] \in ConnType /\ conn'[c] = [conn[c] EXCEPT !.readBuf = g]
            BY <2>2, <2>3
        <3> HIDE DEF g
        <3>2. conn'[c].readBuf = g /\ conn'[c].events = conn[c].events
            BY <3>1 DEF ConnType
        <3> QED
            BY <3>2 DEF g
    <2>5. r \o f \in Seq(Bytes)
        BY <2>2, ConcatProperties
    <2>6. (r \o f) \o <<>> = r \o f
        BY <2>5, ConcatEmptySeq
    <2>7. Unprocessed(c)' = Unprocessed(c)
        BY <2>1, <2>3, <2>4, <2>6, Zenon DEF Unprocessed
    <2>8. Live(c)
        BY <2>1 DEF Live, Listens, Reads
    <2>9. ASSUME NEW d \in Conns, Live(d)'
          PROVE  Live(d) /\ Unprocessed(d)' = Unprocessed(d)
        <3>1. CASE d = c
            BY <2>7, <2>8, <3>1
        <3>2. CASE d # c
            BY <2>1, <2>3, <2>9, <3>2 DEF Live, Listens, Unprocessed
        <3> QED
            BY <3>1, <3>2
    <2> QED
        BY <2>1, <2>9, RequestKept
<1>3. CASE ReadBlocks(c)
    <2>1. UNCHANGED <<conn, next, inflow, delivered, peer>> /\ reading' = Nil
        BY <1>3 DEF ReadBlocks, clientVars, connVars, historyVars
    <2> QED
        BY <2>1, SameRequests
<1> QED
    BY <1>1, <1>2, <1>3

\* ProcessMessages takes the next request, whole, from the buffer.
LEMMA ProcessRequests ==
    ASSUME TypeOK, TypeOK', LifeInv, RequestInv, NEW c \in Conns, ProcessMessage(c)
    PROVE  RequestInv'
<1> DEFINE r == conn[c].readBuf
           f == inflow[c]
           b == next[c]
           m == <<c, Len(delivered[c]) + 1>>
           n == FrameSize(m)
           u == Unprocessed(c)
<1>1. reading = c /\ HasMessage(r)
    BY DEF ProcessMessage
<1>2. r[1] = <<m, 1>> /\ r[1][1] = m
    BY <1>1, FirstMessage
<1>3. /\ m \in Msgs /\ n \in Nat \ {0} /\ n = HeaderSize + MsgLen(r)
      /\ Len(r) \in Nat /\ n <= Len(r)
      /\ RestOf(r) = SubSeq(r, n + 1, Len(r))
    <2>1. LET k == r[1][1]
          IN  /\ k \in Msgs /\ FrameSize(k) \in Nat \ {0} /\ FrameSize(k) = HeaderSize + MsgLen(r)
              /\ Len(r) \in Nat /\ FrameSize(k) <= Len(r)
              /\ RestOf(r) = SubSeq(r, FrameSize(k) + 1, Len(r))
        BY <1>1, MessageType
    <2> QED
        BY <1>2, <2>1
<1>4. /\ r \in Seq(Bytes) /\ f \in Seq(Bytes) /\ b \in Bytes /\ u \in Seq(Bytes)
      /\ Len(f) \in Nat /\ Len(u) = Len(r) + Len(f) + 1 /\ \A j \in 1..Len(r) : u[j] = r[j]
    BY UnprocessedSeq
<1>5. Chained(u) /\ u[1] = <<m, 1>>
    BY <1>1 DEF RequestInv, StreamOf, Listens
<1>6. /\ UNCHANGED <<peer, next, inflow, reading>>
      /\ conn' = [conn EXCEPT ![c].readBuf = RestOf(@)]
      /\ delivered' = [delivered EXCEPT ![c] = Append(@, SubSeq(r, 1, n))]
    BY <1>3 DEF ProcessMessage, clientVars, connVars, loopVars
<1>7. /\ conn'[c] = [conn[c] EXCEPT !.readBuf = RestOf(r)]
      /\ conn'[c].readBuf = SubSeq(r, n + 1, Len(r)) /\ conn'[c].events = conn[c].events
      /\ \A d \in Conns \ {c} : conn'[d] = conn[d] /\ delivered'[d] = delivered[d]
    <2>1. conn \in [Conns -> ConnType] /\ conn[c] \in ConnType
        BY ConnParts DEF TypeOK
    <2>2. /\ conn'[c] = [conn[c] EXCEPT !.readBuf = RestOf(r)]
          /\ \A d \in Conns \ {c} : conn'[d] = conn[d] /\ delivered'[d] = delivered[d]
        BY <1>6, <2>1 DEF TypeOK
    <2>3. conn'[c].readBuf = RestOf(r) /\ conn'[c].events = conn[c].events
        BY <2>1, <2>2 DEF ConnType
    <2> QED
        BY <1>3, <2>2, <2>3
<1>8. /\ delivered[c] \in Seq(Seq(Bytes)) /\ Len(delivered[c]) \in Nat
      /\ delivered'[c] = Append(delivered[c], SubSeq(r, 1, n))
    <2>1. delivered[c] \in Seq(Seq(Bytes))
        BY DEF TypeOK
    <2>2. Len(delivered[c]) \in Nat
        BY <2>1, LenProperties
    <2> QED
        BY <1>6, <2>1, <2>2 DEF TypeOK
<1> HIDE DEF r, f, b, u, n
<1>9. \A x \in 1..n : r[x] = <<m, x>>
    <2> TAKE x \in 1..n
    <2>1. 1 \in 1..Len(u) /\ 1 + (x - 1) = x /\ x <= Len(u) /\ x \in 1..Len(r)
        BY <1>3, <1>4
    <2>2. u[1][1] = m /\ u[1][2] = 1
        BY <1>5
    <2>3. u[x] = <<m, x>>
        <3>1. \A y \in 1..FrameSize(m) : 1 + (y - 1) <= Len(u) => u[1 + (y - 1)] = <<m, y>>
            BY <1>5, <2>1, <2>2 DEF Chained
        <3> QED
            BY <2>1, <3>1 DEF n
    <2> QED
        BY <1>4, <2>1, <2>3
<1>10. SubSeq(r, 1, n) = Frame(m)
    <2> DEFINE s == SubSeq(r, 1, n)
               g == Frame(m)
    <2>1. \A i \in 1..n : r[i] \in Bytes
        BY <1>3, <1>4, ElementOfSeq
    <2>2. /\ s \in Seq(Bytes) /\ Len(s) = IF 1 <= n THEN n - 1 + 1 ELSE 0
          /\ \A i \in 1..(n - 1 + 1) : s[i] = r[1 + i - 1]
        BY <1>3, <2>1, SubSeqProperties
    <2>3. s \in Seq(Bytes) /\ Len(s) = n /\ \A i \in 1..n : s[i] = r[i]
        BY <1>3, <2>2
    <2>4. g \in Seq(Bytes) /\ Len(g) = n /\ \A i \in 1..n : g[i] = <<m, i>>
        BY <1>3, FrameSeq DEF n
    <2> HIDE DEF s, g
    <2>5. s = g
        BY <1>9, <2>3, <2>4, SeqEqual
    <2> QED
        BY <2>5 DEF s, g
<1>11. /\ Len(delivered'[c]) = Len(delivered[c]) + 1
       /\ delivered'[c][Len(delivered[c]) + 1] = Frame(m)
       /\ \A k \in 1..Len(delivered[c]) : delivered'[c][k] = delivered[c][k]
    <2>1. Frame(m) \in Seq(Bytes)
        BY <1>3, FrameSeq
    <2>2. delivered'[c] = Append(delivered[c], Frame(m))
        BY <1>8, <1>10
    <2> QED
        BY <1>8, <2>1, <2>2
<1>12. RequestsWhole'
    <2> SUFFICES ASSUME NEW d \in Conns, NEW k \in 1..Len(delivered'[d])
                 PROVE  delivered'[d][k] = Frame(<<d, k>>)
        BY DEF RequestsWhole
    <2>1. CASE d # c
        BY <1>7, <2>1 DEF RequestInv, RequestsWhole
    <2>2. CASE d = c /\ k = Len(delivered[c]) + 1
        BY <1>11, <2>2
    <2>3. CASE d = c /\ k # Len(delivered[c]) + 1
        <3>1. k \in 1..Len(delivered[c])
            BY <1>8, <1>11, <2>3
        <3> QED
            BY <1>11, <2>3, <3>1 DEF RequestInv, RequestsWhole
    <2> QED
        BY <2>1, <2>2, <2>3
<1>13. Unprocessed(c)' = SubSeq(u, n + 1, Len(u))
    <2> DEFINE c2 == SubSeq(r, n + 1, Len(r))
               x == Append(c2 \o f, b)
    <2>1. IsStream(u, r, f, b)
        <3>1. u = Append(r \o f, b)
            BY DEF u, r, f, b, Unprocessed
        <3>2. IsStream(Append(r \o f, b), r, f, b)
            BY <1>4, StreamParts
        <3> QED
            BY <3>1, <3>2, Zenon
    <2>2. n \in Nat /\ IsCut(c2, r, n)
        BY <1>3 DEF IsCut
    <2>3. c2 \in Seq(Bytes)
        <3>1. conn'[c].readBuf \in Seq(Bytes)
            BY DEF TypeOK, ConnType
        <3> QED
            BY <1>7, <3>1, Zenon
    <2>4. Unprocessed(c)' = x
        BY <1>6, <1>7, Zenon DEF Unprocessed, f, b
    <2> HIDE DEF c2
    <2>5. IsStream(x, c2, f, b)
        BY <1>4, <2>3, StreamParts
    <2> HIDE DEF x
    <2>6. IsCut(x, u, n)
        BY <1>3, <1>4, <2>1, <2>2, <2>5, StreamCut
    <2>7. x = SubSeq(u, n + 1, Len(u))
        BY <2>6, Zenon DEF IsCut
    <2> QED
        BY <2>4, <2>7, Zenon
<1>14. Chained(SubSeq(u, n + 1, Len(u)))
    <2>1. n <= Len(u) /\ n \in Nat
        BY <1>3, <1>4
    <2> QED
        BY <1>4, <1>5, <2>1, ChainCut
<1>15. SubSeq(u, n + 1, Len(u))[1] = <<<<c, Len(delivered'[c]) + 1>>, 1>>
    <2>1. n + 1 <= Len(u) /\ 1 \in 1..Len(u) /\ 1 + (n - 1) + 1 = n + 1 /\ Len(u) \in Nat
        BY <1>3, <1>4
    <2>2. u[1][1] = m /\ u[1][2] = 1
        BY <1>5
    <2>3. u[n + 1] = <<<<m[1], m[2] + 1>>, 1>>
        BY <1>5, <2>1, <2>2 DEF Chained, n
    <2>4. \A i \in (n + 1)..Len(u) : u[i] \in Bytes
        BY <1>3, <1>4, ElementOfSeq
    <2>5. \A i \in 1..(Len(u) - (n + 1) + 1) : SubSeq(u, n + 1, Len(u))[i] = u[(n + 1) + i - 1]
        <3>1. n + 1 \in Int /\ Len(u) \in Int
            BY <1>3, <2>1
        <3> QED
            BY <2>4, <3>1, SubSeqProperties
    <2>6. 1 \in 1..(Len(u) - (n + 1) + 1) /\ (n + 1) + 1 - 1 = n + 1
        BY <1>3, <2>1
    <2>7. SubSeq(u, n + 1, Len(u))[1] = u[n + 1]
        BY <2>5, <2>6
    <2>8. m[1] = c /\ m[2] + 1 = Len(delivered'[c]) + 1
        BY <1>11
    <2> QED
        BY <2>3, <2>7, <2>8
<1>16. ASSUME NEW d \in Conns PROVE StreamOf(d)'
    <2> SUFFICES ASSUME Live(d)'
                 PROVE  /\ Chained(Unprocessed(d)')
                        /\ Unprocessed(d)'[1] = <<<<d, Len(delivered'[d]) + 1>>, 1>>
        BY DEF StreamOf, Live, Chained
    <2>1. CASE d = c
        BY <1>13, <1>14, <1>15, <2>1
    <2>2. CASE d # c
        <3>1. Live(d) /\ Unprocessed(d)' = Unprocessed(d) /\ delivered'[d] = delivered[d]
            BY <1>6, <1>7, <2>2 DEF Live, Listens, Unprocessed
        <3> QED
            BY <3>1 DEF RequestInv, StreamOf, Live
    <2> QED
        BY <2>1, <2>2
<1> QED
    BY <1>12, <1>16 DEF RequestInv

LEMMA LoopRequests ==
    ASSUME TypeOK, LifeInv, LifeInv', RequestInv,
           \/ \E c \in Conns : ReadCloses(c) \/ HandleWrite(c) \/ WriteAfterClose(c) \/ HandleError(c)
           \/ HandlePendingTasks
           \/ Send
    PROVE  RequestInv'
<1>1. CASE \E c \in Conns : ReadCloses(c) \/ HandleWrite(c) \/ WriteAfterClose(c) \/ HandleError(c)
    <2>1. PICK c \in Conns : ReadCloses(c) \/ HandleWrite(c) \/ WriteAfterClose(c) \/ HandleError(c)
        BY <1>1
    <2>2. PICK cs : Shell(cs) /\ Lives(cs) /\ SameBuffers(cs)
        BY <2>1, ConnEffect
    <2>3. UNCHANGED <<peer, next, inflow, delivered>> /\ reading' \in {reading, Nil}
        BY <2>1 DEF ReadCloses, HandleWrite, WriteAfterClose, HandleError, clientVars, historyVars
    <2> QED
        BY <2>2, <2>3, ShellRequests
<1>2. CASE HandlePendingTasks
    <2>1. UNCHANGED <<conn, next, inflow, delivered, peer, reading>>
        BY <1>2 DEF HandlePendingTasks, clientVars, connVars, historyVars
    <2> QED
        BY <2>1, SameRequests
<1>3. CASE Send
    <2>1. PICK cs : Shell(cs) /\ Lives(cs) /\ SameBuffers(cs)
        BY <1>3, SendEffect
    <2>2. UNCHANGED <<peer, next, inflow, delivered, reading>>
        BY <1>3 DEF Send, clientVars
    <2> QED
        BY <2>1, <2>2, ShellRequests
<1> QED
    BY <1>1, <1>2, <1>3

LEMMA PoolRequests ==
    ASSUME TypeOK, LifeInv, LifeInv', RequestInv,
           (\E w \in Workers : WorkerStep(w)) \/ Stop \/ StopNotify \/ Quit
    PROVE  RequestInv'
<1>1. UNCHANGED <<peer, next, inflow, delivered, reading>>
    BY DEF WorkerStep, WorkerCheck, WorkerSleep, WorkerRun, WorkerDone, Stop, StopNotify, Quit,
           clientVars, connVars, loopVars, historyVars
<1>2. CASE \E w \in Workers : WorkerDone(w)
    <2>1. Shell(conn) /\ Lives(conn) /\ SameBuffers(conn)
        BY <1>2, DoneEffect
    <2> QED
        BY <1>1, <2>1, ShellRequests
<1>3. CASE UNCHANGED conn
    BY <1>1, <1>3, SameRequests
<1> QED
    BY <1>2, <1>3 DEF WorkerStep, WorkerCheck, WorkerSleep, WorkerRun, Stop, StopNotify, Quit, connVars

-----------------------------------------------------------------------------
(* Responses: what is written.                                             *)

\* x is y and more.
IsStart(y, x) == y \in Seq(Bytes) /\ \E t \in Seq(Bytes) : x = y \o t

LEMMA StartParts ==
    ASSUME NEW y, NEW x, IsStart(y, x)
    PROVE  /\ Len(y) \in Nat /\ Len(x) \in Nat /\ Len(y) <= Len(x)
           /\ \A j \in 1..Len(y) : j \in 1..Len(x) /\ y[j] = x[j]
<1>1. y \in Seq(Bytes)
    BY DEF IsStart
<1>2. PICK t \in Seq(Bytes) : x = y \o t
    BY DEF IsStart
<1>3. Len(y) \in Nat /\ Len(t) \in Nat
    BY <1>1, LenProperties
<1>4. /\ Len(y \o t) = Len(y) + Len(t)
      /\ \A j \in 1..(Len(y) + Len(t)) : (y \o t)[j] = IF j <= Len(y) THEN y[j] ELSE t[j - Len(y)]
    BY <1>1, ConcatProperties
<1>5. /\ Len(x) = Len(y) + Len(t)
      /\ \A j \in 1..(Len(y) + Len(t)) : x[j] = IF j <= Len(y) THEN y[j] ELSE t[j - Len(y)]
    BY <1>2, <1>4, Zenon
<1>6. \A j \in 1..Len(y) : j \in 1..(Len(y) + Len(t)) /\ j <= Len(y)
    BY <1>3
<1>7. \A j \in 1..Len(y) : j \in 1..Len(x) /\ y[j] = x[j]
    BY <1>5, <1>6
<1>8. Len(x) \in Nat /\ Len(y) <= Len(x)
    BY <1>3, <1>5
<1> QED
    BY <1>3, <1>7, <1>8

LEMMA StartResponses ==
    ASSUME NEW c \in Conns, NEW y, NEW x, NEW H, IsStart(y, x), Responses(c, x, H)
    PROVE  Responses(c, y, H)
<1>1. PICK t \in Seq(Bytes) : x = y \o t
    BY DEF IsStart
<1>2. y \in Seq(Bytes) /\ Responses(c, y \o t, H)
    BY <1>1, Zenon DEF IsStart
<1> QED
    BY <1>2, ResponsesStart

\* What a step with Puts(cs, c, s) leaves of d: all of it if d lives, and a
\* start of it if d is destroyed.
LEMMA WrittenEffect ==
    ASSUME TypeOK, TypeOK', FdsOwned, NEW cs, Shell(cs), Lives(cs), NEW c \in Conns, NEW s,
           Puts(cs, c, s), NEW d \in Conns
    PROVE  \E x : /\ x = Written(d) \/ (d = c /\ x = s)
                  /\ IsStart(Written(d)', x)
                  /\ conn'[d].open \/ peer[d] = "new" => Written(d)' = x
                  /\ conn'[d].open => conn[d].open
<1> DEFINE x == out'[d] \o cs[d].writeBuf
<1>1. x = Written(d) \/ (d = c /\ x = s)
    BY Zenon DEF Puts
<1>2. cs[d] \in ConnType /\ cs[d].writeBuf \in Seq(Bytes) /\ out'[d] \in Seq(Bytes)
    BY DEF Shell, ConnType, Puts
<1>3. x \in Seq(Bytes)
    BY <1>2, ConcatProperties
<1>4. x \o <<>> = x /\ out'[d] \o <<>> = out'[d] /\ <<>> \in Seq(Bytes)
    BY <1>2, <1>3, ConcatEmptySeq, EmptySeq
<1>5. CASE conn'[d] = cs[d]
    <2>1. Written(d)' = x
        BY <1>5, Zenon DEF Written
    <2>2. x = Written(d)' \o <<>>
        BY <1>4, <2>1, Zenon
    <2>3. IsStart(Written(d)', x)
        BY <1>3, <1>4, <2>1, <2>2, Zenon DEF IsStart
    <2>4. conn'[d].open => conn[d].open
        BY <1>5 DEF Shell
    <2> QED
        BY <1>1, <2>1, <2>3, <2>4, Zenon
<1>6. CASE conn'[d] = NoConn /\ conn'[d] # cs[d]
    <2>1. conn'[d].writeBuf = <<>> /\ ~ conn'[d].open
        BY <1>6, NoConnType
    <2>2. Written(d)' = out'[d]
        BY <1>4, <2>1, Zenon DEF Written
    <2>3. IsStart(Written(d)', x)
        BY <1>2, <2>2, Zenon DEF IsStart
    <2>4. peer[d] # "new"
        BY <1>6 DEF Shell, FdsOwned
    <2> QED
        BY <1>1, <2>1, <2>3, <2>4, Zenon
<1> QED
    BY <1>5, <1>6 DEF Lives

\* What may be written to d.
Good(d, x) ==
    /\ Responses(d, x, handled)
    /\ conn[d].open \/ peer[d] = "new" => Complete(x)

LEMMA WrittenKept ==
    ASSUME TypeOK, TypeOK', FdsOwned, WrittenInv, NEW cs, Shell(cs), Lives(cs),
           NEW c \in Conns, NEW s, Puts(cs, c, s), Good(c, s), UNCHANGED <<peer, handled>>
    PROVE  WrittenInv'
<1> SUFFICES ASSUME NEW d \in Conns
             PROVE  /\ Responses(d, Written(d)', handled)
                    /\ conn'[d].open \/ peer[d] = "new" => Complete(Written(d)')
    BY DEF WrittenInv, Responses, Complete, InFrames
<1>1. PICK x : /\ x = Written(d) \/ (d = c /\ x = s)
               /\ IsStart(Written(d)', x)
               /\ conn'[d].open \/ peer[d] = "new" => Written(d)' = x
               /\ conn'[d].open => conn[d].open
    BY WrittenEffect
<1>2. Good(d, x)
    BY <1>1, Zenon DEF Good, WrittenInv
<1>3. Responses(d, Written(d)', handled)
    BY <1>1, <1>2, StartResponses DEF Good
<1>4. conn'[d].open \/ peer[d] = "new" => Complete(Written(d)')
    BY <1>1, <1>2, Zenon DEF Good
<1> QED
    BY <1>3, <1>4

LEMMA WrittenSame ==
    ASSUME WrittenInv, handled \subseteq handled',
           \A c \in Conns : /\ Written(c)' = Written(c)
                            /\ conn'[c].open \/ peer'[c] = "new" => conn[c].open \/ peer[c] = "new"
    PROVE  WrittenInv'
<1> SUFFICES ASSUME NEW d \in Conns
             PROVE  /\ Responses(d, Written(d)', handled')
                    /\ conn'[d].open \/ peer'[d] = "new" => Complete(Written(d)')
    BY DEF WrittenInv, Responses, Complete, InFrames
<1>1. Responses(d, Written(d), handled')
    BY DEF WrittenInv, Responses
<1>2. conn'[d].open \/ peer'[d] = "new" => Complete(Written(d))
    BY DEF WrittenInv
<1> QED
    BY <1>1, <1>2, Zenon

\* A response that was not sent is not sent by a step that writes nothing new.
LEMMA UnsentStays ==
    ASSUME TypeOK, TypeOK', FdsOwned, NEW cs, Shell(cs), Lives(cs), NEW c \in Conns,
           Puts(cs, c, Written(c)), NEW m \in Msgs, Unsent(m)
    PROVE  Unsent(m)'
<1>1. m[1] \in Conns
    BY DEF Msgs
<1>2. PICK x : (x = Written(m[1]) \/ (m[1] = c /\ x = Written(c))) /\ IsStart(Written(m[1])', x)
    BY <1>1, WrittenEffect
<1>3. x = Written(m[1])
    BY <1>2, Zenon
<1>4. \A j \in 1..Len(Written(m[1])') :
         j \in 1..Len(Written(m[1])) /\ Written(m[1])'[j] = Written(m[1])[j]
    BY <1>2, <1>3, StartParts
<1> QED
    BY <1>4 DEF Unsent

\* Nor by Send, if it is another one.
LEMMA UnsentBySend ==
    ASSUME TypeOK, TypeOK', FdsOwned, NEW cs, Shell(cs), Lives(cs), NEW n \in Msgs,
           Puts(cs, n[1], Written(n[1]) \o Frame(n)), NEW m \in Msgs, m # n, Unsent(m)
    PROVE  Unsent(m)'
<1> DEFINE s == Written(n[1])
           f == Frame(n)
           y == Written(m[1])'
<1>1. m[1] \in Conns /\ n[1] \in Conns
    BY DEF Msgs
<1>2. PICK x : (x = Written(m[1]) \/ (m[1] = n[1] /\ x = s \o f)) /\ IsStart(y, x)
    <2>1. ASSUME NEW z, Puts(cs, n[1], z)
          PROVE  \E x : (x = Written(m[1]) \/ (m[1] = n[1] /\ x = z)) /\ IsStart(y, x)
        BY <1>1, <2>1, WrittenEffect
    <2> QED
        BY <2>1, Zenon
<1>3. \A j \in 1..Len(y) : j \in 1..Len(x) /\ y[j] = x[j]
    BY <1>2, StartParts
<1> HIDE DEF y
<1>4. \A j \in 1..Len(x) : x[j][1] # m
    <2>1. CASE x = Written(m[1])
        BY <2>1 DEF Unsent
    <2>2. CASE m[1] = n[1] /\ x = s \o f
        <3>1. /\ FrameSize(n) \in Nat \ {0} /\ f \in Seq(Bytes) /\ Len(f) = FrameSize(n)
              /\ \A i \in 1..FrameSize(n) : f[i] = <<n, i>>
            BY SizeType, FrameSeq
        <3>2. s \in Seq(Bytes) /\ Len(s) \in Nat /\ \A j \in 1..Len(s) : s[j][1] # m
            <4>1. s \in Seq(Bytes)
                BY <1>1, WrittenType
            <4>2. Len(s) \in Nat
                BY <4>1, LenProperties
            <4> QED
                BY <2>2, <4>1, <4>2 DEF Unsent
        <3> HIDE DEF s, f
        <3>3. /\ Len(s \o f) = Len(s) + Len(f)
              /\ \A j \in 1..(Len(s) + Len(f)) : (s \o f)[j] = IF j <= Len(s) THEN s[j] ELSE f[j - Len(s)]
            BY <3>1, <3>2, ConcatProperties
        <3>4. /\ Len(x) = Len(s) + FrameSize(n)
              /\ \A j \in 1..(Len(s) + FrameSize(n)) : x[j] = IF j <= Len(s) THEN s[j] ELSE f[j - Len(s)]
            BY <2>2, <3>1, <3>3, Zenon
        <3> TAKE j \in 1..Len(x)
        <3>5. CASE j <= Len(s)
            <4>1. j \in 1..Len(s) /\ j \in 1..(Len(s) + FrameSize(n))
                BY <3>1, <3>2, <3>4, <3>5
            <4> QED
                BY <3>2, <3>4, <3>5, <4>1
        <3>6. CASE ~ (j <= Len(s))
            <4>1. j - Len(s) \in 1..FrameSize(n) /\ j \in 1..(Len(s) + FrameSize(n))
                BY <3>1, <3>2, <3>4, <3>6
            <4>2. x[j] = <<n, j - Len(s)>>
                BY <3>1, <3>4, <3>6, <4>1
            <4> QED
                BY <4>2
        <3> QED
            BY <3>5, <3>6
    <2> QED
        BY <1>2, <2>1, <2>2
<1> QED
    BY <1>3, <1>4 DEF Unsent, y

-----------------------------------------------------------------------------
(* Responses: what waits.                                                  *)

LEMMA InitResponses == Init => ResponseInv
<1> SUFFICES ASSUME Init PROVE ResponseInv
    OBVIOUS
<1>1. /\ ToSet(queue) = {} /\ ToSet(pending) = {} /\ ToSet(running.tasks) = {}
      /\ IsInjective(queue) /\ IsInjective(pending) /\ IsInjective(running.tasks)
      /\ Len(running.tasks) = 0
    BY EmptyTasks DEF Init, NotRunning
<1>2. \A w \in Workers : worker[w].task = Nil /\ worker[w].pc = "check"
    BY DEF Init, Idle
<1>3. Tasks = {} /\ handled = {}
    BY <1>1, <1>2 DEF Tasks, Init
<1>4. KnownInv /\ UnhandledOnce /\ UnsentOnce
    BY <1>1, <1>2, <1>3 DEF KnownInv, UnhandledOnce, UnsentOnce
<1>5. \A c \in Conns : Written(c) = <<>>
    <2>1. <<>> \in Seq(Bytes)
        BY EmptySeq
    <2>2. <<>> \o <<>> = <<>>
        BY <2>1, ConcatEmptySeq
    <2>3. \A c \in Conns : out[c] = <<>> /\ conn[c].writeBuf = <<>>
        BY NoConnType DEF Init
    <2> QED
        BY <2>2, <2>3, Zenon DEF Written
<1>6. \A c \in Conns : Responses(c, <<>>, handled) /\ Complete(<<>>)
    BY EmptyTasks DEF Responses, Complete, InFrames
<1>7. WrittenInv
    BY <1>5, <1>6, Zenon DEF WrittenInv
<1> QED
    BY <1>4, <1>7 DEF ResponseInv

LEMMA KnownKept ==
    ASSUME KnownInv, Tasks' \subseteq Tasks, handled' \subseteq handled \cup Tasks,
           UNCHANGED delivered
    PROVE  KnownInv'
BY DEF KnownInv, Known

LEMMA UnhandledKept ==
    ASSUME UnhandledOnce, UNCHANGED <<queue, handled>>,
           \A w \in Workers : worker'[w].pc \in {"run", "ran"} =>
                                 worker'[w].pc = worker[w].pc /\ worker'[w].task = worker[w].task
    PROVE  UnhandledOnce'
BY DEF UnhandledOnce

LEMMA UnsentKept ==
    ASSUME TypeOK, UnsentOnce, UNCHANGED <<pending, running, handled>>,
           \A m \in Msgs : Unsent(m) => Unsent(m)'
    PROVE  UnsentOnce'
<1>1. handled \subseteq Msgs
    BY DEF TypeOK
<1> QED
    BY <1>1 DEF UnsentOnce

\* Steps that leave tasks and write buffers as they are.
LEMMA SameResponses ==
    ASSUME TypeOK, ResponseInv, UNCHANGED <<queue, worker, pending, running, handled, delivered>>,
           \A c \in Conns : /\ Written(c)' = Written(c)
                            /\ conn'[c].open \/ peer'[c] = "new" => conn[c].open \/ peer[c] = "new"
    PROVE  ResponseInv'
<1> USE DEF ResponseInv
<1>1. KnownInv'
    <2>1. Tasks' = Tasks
        BY DEF Tasks
    <2> QED
        BY <2>1, KnownKept
<1>2. UnhandledOnce'
    BY UnhandledKept
<1>3. \A m \in Msgs : Unsent(m) => Unsent(m)'
    <2> TAKE m \in Msgs
    <2>1. m[1] \in Conns
        BY DEF Msgs
    <2>2. Written(m[1])' = Written(m[1])
        BY <2>1
    <2> QED
        BY <2>2, Zenon DEF Unsent
<1>4. UnsentOnce'
    BY <1>3, UnsentKept
<1>5. WrittenInv'
    BY WrittenSame
<1> QED
    BY <1>1, <1>2, <1>4, <1>5

LEMMA ClientResponses ==
    ASSUME TypeOK, ResponseInv, NEW c \in Conns, ClientStep(c)
    PROVE  ResponseInv'
<1>1. UNCHANGED <<out, conn, queue, worker, pending, running, handled, delivered>>
    BY DEF ClientStep, ClientWrite, ClientRead, ClientClose, ClientReset, connVars, loopVars, poolVars,
           historyVars
<1>2. \A d \in Conns : peer'[d] = "new" => peer[d] = "new"
    BY DEF ClientStep, ClientWrite, ClientRead, ClientClose, ClientReset, TypeOK
<1>3. \A d \in Conns : Written(d)' = Written(d)
    BY <1>1 DEF Written
<1> QED
    BY <1>1, <1>2, <1>3, SameResponses

LEMMA ReaderResponses ==
    ASSUME TypeOK, LifeInv, ResponseInv, NEW c \in Conns,
           HandleNewConnection(c) \/ HandleRead(c) \/ ReadBlocks(c)
    PROVE  ResponseInv'
<1>1. UNCHANGED <<out, queue, worker, pending, running, handled, delivered>>
    BY DEF HandleNewConnection, HandleRead, ReadBlocks, poolVars, historyVars
<1>2. ASSUME NEW d \in Conns
      PROVE  /\ conn'[d].writeBuf = conn[d].writeBuf
             /\ conn'[d].open \/ peer'[d] = "new" => conn[d].open \/ peer[d] = "new"
    <2>1. CASE HandleNewConnection(c)
        <3>1. PICK f \in Fds :
                conn' = [conn EXCEPT ![c] = [NoConn EXCEPT !.open = TRUE, !.fd = f,
                                                           !.events = {"in"}]]
            BY <2>1 DEF HandleNewConnection
        <3>2. peer[c] = "new" /\ peer' = [peer EXCEPT ![c] = "open"]
            BY <2>1 DEF HandleNewConnection
        <3>3. conn[c] = NoConn
            BY <3>2 DEF LifeInv, FdsOwned
        <3>4. conn'[c].writeBuf = conn[c].writeBuf
            BY <3>1, <3>3 DEF TypeOK, NoConn
        <3>5. d # c => conn'[d] = conn[d] /\ peer'[d] = peer[d]
            BY <3>1, <3>2 DEF TypeOK
        <3> QED
            BY <3>2, <3>4, <3>5
    <2>2. CASE HandleRead(c)
        <3> DEFINE g == conn[c].readBuf \o inflow[c]
        <3>1. conn' = [conn EXCEPT ![c].readBuf = g] /\ UNCHANGED peer
            BY <2>2 DEF HandleRead
        <3> HIDE DEF g
        <3>2. /\ conn'[c] = [conn[c] EXCEPT !.readBuf = g]
              /\ \A x \in Conns \ {c} : conn'[x] = conn[x]
            BY <3>1 DEF TypeOK
        <3>3. conn'[c].writeBuf = conn[c].writeBuf /\ conn'[c].open = conn[c].open
            BY <3>2, ConnParts DEF ConnType
        <3> QED
            BY <3>1, <3>2, <3>3
    <2>3. CASE ReadBlocks(c)
        BY <2>3 DEF ReadBlocks, clientVars, connVars
    <2> QED
        BY <2>1, <2>2, <2>3
<1>3. \A d \in Conns : Written(d)' = Written(d)
    BY <1>1, <1>2, Zenon DEF Written
<1> QED
    BY <1>1, <1>2, <1>3, SameResponses

\* The message that ProcessMessages hands on is new to the server.
LEMMA ProcessResponses ==
    ASSUME TypeOK, TypeOK', LifeInv, RequestInv, ResponseInv, NEW c \in Conns, ProcessMessage(c)
    PROVE  ResponseInv'
<1> USE DEF ResponseInv
<1> DEFINE r == conn[c].readBuf
           m == <<c, Len(delivered[c]) + 1>>
           e == SubSeq(r, 1, HeaderSize + MsgLen(r))
<1>1. reading = c /\ HasMessage(r) /\ Submit(r[1][1])
    BY DEF ProcessMessage
<1>2. r[1] = <<m, 1>>
    BY <1>1, FirstMessage
<1>3. r[1][1] = m
    BY <1>2
<1>4. delivered[c] \in Seq(Seq(Bytes)) /\ Len(delivered[c]) \in Nat
    <2>1. delivered[c] \in Seq(Seq(Bytes))
        BY DEF TypeOK
    <2> QED
        BY <2>1, LenProperties
<1>5. m \in Msgs /\ m[1] = c /\ m[2] = Len(delivered[c]) + 1 /\ ~ Known(m)
    BY <1>4 DEF Msgs, Known
<1>6. /\ UNCHANGED <<out, peer, pending, running, handled>>
      /\ conn' = [conn EXCEPT ![c].readBuf = RestOf(@)]
      /\ delivered' = [delivered EXCEPT ![c] = Append(@, e)]
    BY DEF ProcessMessage, clientVars, connVars, loopVars
<1>7. e \in Seq(Bytes)
    BY <1>1, MessageType
<1> HIDE DEF e
<1>8. \A d \in Conns : Len(delivered[d]) \in Nat /\ Len(delivered[d]) <= Len(delivered'[d])
    <2>1. \A d \in Conns : delivered[d] \in Seq(Seq(Bytes))
        BY DEF TypeOK
    <2>2. \A d \in Conns : Len(delivered[d]) \in Nat
        BY <2>1, LenProperties
    <2>3. delivered'[c] = Append(delivered[c], e) /\ \A d \in Conns \ {c} : delivered'[d] = delivered[d]
        BY <1>6 DEF TypeOK
    <2>4. Len(delivered'[c]) = Len(delivered[c]) + 1
        BY <1>4, <1>7, <2>3
    <2> QED
        BY <2>2, <2>3, <2>4
<1>9. Len(delivered'[c]) = Len(delivered[c]) + 1
    BY <1>4, <1>6, <1>7 DEF TypeOK
<1> HIDE DEF m, r
<1>10. /\ queue' = Append(queue, m)
       /\ \A w \in Workers :
             /\ worker'[w].task = worker[w].task
             /\ worker'[w].pc = worker[w].pc \/ worker'[w].pc = "check"
    BY <1>1, <1>3, <1>5, Submits
<1>11. m \notin Tasks /\ m \notin handled
    BY <1>5 DEF KnownInv
<1>12. /\ ToSet(queue') = ToSet(queue) \cup {m}
       /\ IsInjective(queue) /\ m \notin ToSet(queue) => IsInjective(queue')
    BY <1>5, <1>10, ToSetAppend DEF TypeOK
<1>13. Tasks' = Tasks \cup {m}
    BY <1>6, <1>10, <1>12 DEF Tasks
<1>14. KnownInv'
    <2> SUFFICES ASSUME NEW n \in Tasks \cup {m} \cup handled
                 PROVE  n[2] <= Len(delivered'[n[1]])
        BY <1>6, <1>13 DEF KnownInv, Known
    <2>1. CASE n = m
        <3>1. n[1] = c /\ n[2] = Len(delivered'[c]) /\ n[2] \in Nat
            BY <1>4, <1>5, <1>9, <2>1
        <3> QED
            BY <3>1
    <2>2. CASE n \in Tasks \cup handled
        <3>1. n \in Msgs
            BY <2>2, TaskType DEF TypeOK
        <3>2. n[1] \in Conns /\ n[2] \in Nat
            BY <3>1 DEF Msgs
        <3>3. n[2] <= Len(delivered[n[1]])
            BY <2>2 DEF KnownInv, Known
        <3>4. Len(delivered[n[1]]) \in Nat /\ Len(delivered[n[1]]) <= Len(delivered'[n[1]])
            BY <1>8, <3>2
        <3>5. Len(delivered'[n[1]]) \in Nat
            <4>1. delivered'[n[1]] \in Seq(Seq(Bytes))
                BY <3>2 DEF TypeOK
            <4> QED
                BY <4>1, LenProperties
        <3> QED
            BY <3>2, <3>3, <3>4, <3>5
    <2> QED
        BY <2>1, <2>2
<1>15. UnhandledOnce'
    <2>1. m \notin ToSet(queue) /\ m # Nil
        BY <1>5, <1>11, NetAssumption DEF Tasks, Msgs
    <2>2. \A w \in Workers : worker[w].task # m
        BY <1>11, <2>1 DEF Tasks
    <2> QED
        BY <1>6, <1>10, <1>11, <1>12, <2>1, <2>2 DEF UnhandledOnce
<1>16. \A d \in Conns : conn'[d].writeBuf = conn[d].writeBuf /\ conn'[d].open = conn[d].open
    <2> DEFINE x == RestOf(conn[c].readBuf)
    <2>1. conn' = [conn EXCEPT ![c] = [conn[c] EXCEPT !.readBuf = x]]
        BY <1>6 DEF TypeOK
    <2> HIDE DEF x
    <2>2. conn'[c] = [conn[c] EXCEPT !.readBuf = x] /\ \A d \in Conns \ {c} : conn'[d] = conn[d]
        BY <2>1 DEF TypeOK
    <2>3. conn'[c].writeBuf = conn[c].writeBuf /\ conn'[c].open = conn[c].open
        BY <2>2, ConnParts DEF ConnType
    <2> QED
        BY <2>2, <2>3
<1>17. \A d \in Conns : Written(d)' = Written(d)
    BY <1>6, <1>16, Zenon DEF Written
<1>18. \A n \in Msgs : Unsent(n) => Unsent(n)'
    <2> TAKE n \in Msgs
    <2>1. n[1] \in Conns
        BY DEF Msgs
    <2>2. Written(n[1])' = Written(n[1])
        BY <1>17, <2>1
    <2> QED
        BY <2>2, Zenon DEF Unsent
<1>19. UnsentOnce'
    BY <1>6, <1>18, UnsentKept
<1>20. WrittenInv'
    BY <1>6, <1>16, <1>17, WrittenSame
<1> QED
    BY <1>14, <1>15, <1>19, <1>20

LEMMA LoopResponses ==
    ASSUME TypeOK, TypeOK', LifeInv, ResponseInv,
           \/ \E c \in Conns : ReadCloses(c) \/ HandleWrite(c) \/ WriteAfterClose(c) \/ HandleError(c)
           \/ HandlePendingTasks
    PROVE  ResponseInv'
<1> USE DEF ResponseInv
<1>1. CASE \E c \in Conns : ReadCloses(c) \/ HandleWrite(c) \/ WriteAfterClose(c) \/ HandleError(c)
    <2>1. PICK c \in Conns : ReadCloses(c) \/ HandleWrite(c) \/ WriteAfterClose(c) \/ HandleError(c)
        BY <1>1
    <2>2. PICK cs : Shell(cs) /\ Lives(cs) /\ Puts(cs, c, Written(c))
        BY <2>1, ConnEffect
    <2>3. UNCHANGED <<peer, queue, worker, pending, running, handled, delivered>>
        BY <2>1 DEF ReadCloses, HandleWrite, WriteAfterClose, HandleError, clientVars, poolVars, historyVars
    <2>4. KnownInv' /\ UnhandledOnce'
        <3>1. Tasks' = Tasks
            BY <2>3 DEF Tasks
        <3> QED
            BY <2>3, <3>1, KnownKept, UnhandledKept
    <2>5. UnsentOnce'
        <3>1. \A m \in Msgs : Unsent(m) => Unsent(m)'
            BY <2>2, UnsentStays DEF LifeInv
        <3> QED
            BY <2>3, <3>1, UnsentKept
    <2>6. WrittenInv'
        <3>1. Good(c, Written(c))
            BY DEF Good, WrittenInv
        <3> QED
            BY <2>2, <2>3, <3>1, WrittenKept DEF LifeInv
    <2> QED
        BY <2>4, <2>5, <2>6
<1>2. CASE HandlePendingTasks
    <2>1. /\ UNCHANGED <<peer, out, conn, queue, worker, handled, delivered>>
          /\ running' = [tasks |-> pending, done |-> 0] /\ pending' = <<>>
        BY <1>2 DEF HandlePendingTasks, clientVars, connVars, poolVars, historyVars
    <2>2. /\ running'.tasks = pending /\ running'.done = 0
          /\ ToSet(pending') = {} /\ IsInjective(pending')
        BY <2>1, EmptyTasks
    <2>3. \A k \in 1..Len(pending) : pending[k] \in ToSet(pending)
        BY ToSetType DEF TypeOK
    <2>4. \A m : Unsent(m)' <=> Unsent(m)
        BY <2>1 DEF Unsent, Written
    <2>5. Tasks' \subseteq Tasks
        BY <2>1, <2>2 DEF Tasks
    <2>6. KnownInv' /\ UnhandledOnce'
        BY <2>1, <2>5, KnownKept, UnhandledKept
    <2>7. UnsentOnce'
        BY <2>1, <2>2, <2>3, <2>4 DEF UnsentOnce
    <2>8. WrittenInv'
        <3>1. \A c \in Conns : Written(c)' = Written(c)
            BY <2>1 DEF Written
        <3> QED
            BY <2>1, <3>1, WrittenSame
    <2> QED
        BY <2>6, <2>7, <2>8
<1> QED
    BY <1>1, <1>2

\* Send writes a response nobody has written, after complete ones.
LEMMA SendResponses ==
    ASSUME TypeOK, TypeOK', LifeInv, ResponseInv, Send
    PROVE  ResponseInv'
<1> USE DEF ResponseInv
<1> DEFINE m == SentMsg
           c == m[1]
           s == Written(c)
<1>1. /\ m \in Msgs /\ m \in Tasks /\ c \in Conns /\ conn[c].open
      /\ running.done + 1 \in 1..Len(running.tasks)
    BY SendTask
<1>2. PICK cs : Shell(cs) /\ Lives(cs) /\ Puts(cs, c, s \o Frame(m))
    BY SendEffect
<1>3. /\ UNCHANGED <<peer, queue, worker, pending, handled, delivered>>
      /\ \/ running' = NotRunning
         \/ running' = [running EXCEPT !.done = @ + 1]
    BY DEF Send, clientVars, poolVars
<1>4. /\ running.tasks \in Seq(Msgs) /\ running.done \in Nat /\ Len(running.tasks) \in Nat
      /\ running \in [tasks : Seq(Msgs), done : Nat]
    <2>1. running.tasks \in Seq(Msgs) /\ running.done \in Nat
        BY DEF TypeOK
    <2> QED
        BY <2>1, LenProperties DEF TypeOK
<1>5. \/ running'.tasks = <<>>
      \/ running'.tasks = running.tasks /\ running'.done = running.done + 1
    BY <1>3, <1>4 DEF NotRunning
<1>6. Tasks' \subseteq Tasks
    <2>1. ToSet(running'.tasks) \subseteq ToSet(running.tasks)
        BY <1>5, EmptyTasks
    <2> QED
        BY <1>3, <2>1 DEF Tasks
<1>7. KnownInv' /\ UnhandledOnce'
    BY <1>3, <1>6, KnownKept, UnhandledKept
<1>8. m \in handled /\ Unsent(m) /\ m \in ToSet(running.tasks)
    <2>1. running.done + 1 > running.done
        BY <1>4
    <2>2. m = running.tasks[running.done + 1]
        BY DEF SentMsg
    <2> QED
        BY <1>1, <1>4, <2>1, <2>2, ToSetType DEF UnsentOnce
<1>9. s \in Seq(Bytes)
    BY <1>1, WrittenType
<1>10. Good(c, s \o Frame(m))
    <2>1. Responses(c, s, handled) /\ Complete(s)
        BY <1>1 DEF WrittenInv
    <2>2. \A j \in 1..Len(s) : s[j][1] # m
        BY <1>8 DEF Unsent
    <2> HIDE DEF s
    <2>3. Responses(c, s \o Frame(m), handled) /\ Complete(s \o Frame(m))
        BY <1>1, <1>8, <1>9, <2>1, <2>2, ResponseAdded
    <2> QED
        BY <2>3, Zenon DEF Good
<1>11. WrittenInv'
    <2>1. ASSUME NEW z, Puts(cs, c, z), Good(c, z)
          PROVE  WrittenInv'
        BY <1>1, <1>2, <1>3, <2>1, WrittenKept DEF LifeInv
    <2> QED
        BY <1>2, <1>10, <2>1, Zenon
<1>12. ASSUME NEW n \in Msgs, n # m, Unsent(n)
       PROVE  Unsent(n)'
    <2>1. ASSUME NEW k \in Msgs, Puts(cs, k[1], Written(k[1]) \o Frame(k)), n # k
          PROVE  Unsent(n)'
        BY <1>2, <1>12, <2>1, UnsentBySend DEF LifeInv
    <2> QED
        BY <1>1, <1>2, <1>12, <2>1, Zenon
<1>13. handled \subseteq Msgs
    BY DEF TypeOK
<1> HIDE DEF m, c, s
<1>14. \A n \in ToSet(pending) : n \in handled /\ n \notin ToSet(running'.tasks) /\ Unsent(n)'
    <2> TAKE n \in ToSet(pending)
    <2>1. n \in handled /\ n \notin ToSet(running.tasks) /\ Unsent(n)
        BY DEF UnsentOnce
    <2>2. n \notin ToSet(running'.tasks)
        BY <1>5, <2>1, EmptyTasks
    <2> QED
        BY <1>8, <1>12, <1>13, <2>1, <2>2
<1>15. IsInjective(running'.tasks)
    BY <1>5, EmptyTasks DEF UnsentOnce
<1>16. ASSUME NEW k \in 1..Len(running'.tasks)
       PROVE  running'.tasks[k] \in handled /\ (k > running'.done => Unsent(running.tasks[k])')
    <2>1. running'.tasks # <<>>
        BY EmptySeq
    <2>2. running'.tasks = running.tasks /\ running'.done = running.done + 1
        BY <1>5, <2>1
    <2>3. running.tasks[k] \in handled /\ (k > running.done => Unsent(running.tasks[k]))
        BY <2>2 DEF UnsentOnce
    <2>4. ASSUME k > running'.done
          PROVE  Unsent(running.tasks[k])'
        <3>1. k > running.done /\ k # running.done + 1 /\ k \in 1..Len(running.tasks)
            BY <1>4, <2>2, <2>4
        <3>2. DOMAIN running.tasks = 1..Len(running.tasks)
            BY <1>4, LenProperties
        <3>3. running.tasks[k] # m
            BY <1>1, <3>1, <3>2 DEF UnsentOnce, IsInjective, m, SentMsg
        <3>4. running.tasks[k] \in Msgs /\ Unsent(running.tasks[k])
            BY <1>13, <2>3, <3>1
        <3>5. \A n \in Msgs : n # m /\ Unsent(n) => Unsent(n)'
            BY <1>12
        <3> QED
            BY <2>2, <3>3, <3>4, <3>5 DEF Unsent
    <2> QED
        BY <2>2, <2>3, <2>4
<1>17. UnsentOnce'
    BY <1>3, <1>14, <1>15, <1>16 DEF UnsentOnce
<1> QED
    BY <1>7, <1>11, <1>17

LEMMA PoolResponses ==
    ASSUME TypeOK, TypeOK', LifeInv, ResponseInv,
           (\E w \in Workers : WorkerStep(w)) \/ Stop \/ StopNotify \/ Quit
    PROVE  ResponseInv'
<1> USE DEF ResponseInv
<1>1. Tasks' \subseteq Tasks
    BY PoolTasks
<1>2. UNCHANGED <<out, peer, running, delivered>>
    BY DEF WorkerStep, WorkerCheck, WorkerSleep, WorkerRun, WorkerDone, Stop, StopNotify, Quit,
           clientVars, connVars, loopVars, historyVars
<1>3. ASSUME UNCHANGED conn
      PROVE  \A c \in Conns : Written(c)' = Written(c)
    BY <1>2, <1>3 DEF Written
<1>4. ASSUME UNCHANGED <<conn, pending, handled>>, UnhandledOnce'
      PROVE  ResponseInv'
    <2>1. KnownInv'
        BY <1>1, <1>2, <1>4, KnownKept
    <2>2. WrittenInv'
        BY <1>2, <1>3, <1>4, WrittenSame
    <2>3. \A m : Unsent(m)' <=> Unsent(m)
        BY <1>2, <1>4 DEF Unsent, Written
    <2>4. UnsentOnce'
        BY <1>2, <1>4, <2>3, UnsentKept
    <2> QED
        BY <1>4, <2>1, <2>2, <2>4
<1>5. ASSUME NEW w \in Workers, WorkerCheck(w) PROVE ResponseInv'
    <2>1. UNCHANGED <<conn, pending, handled>>
        BY <1>5 DEF WorkerCheck, connVars, loopVars, historyVars
    <2>2. ASSUME NEW x \in {"exit", "block"}, worker' = [worker EXCEPT ![w].pc = x], UNCHANGED queue
          PROVE  UnhandledOnce'
        <3>1. \A v \in Workers : worker'[v].pc \in {"run", "ran"} =>
                  worker'[v].pc = worker[v].pc /\ worker'[v].task = worker[v].task
            BY <2>2 DEF TypeOK, WorkerType
        <3> QED
            BY <2>1, <2>2, <3>1, UnhandledKept
    <2>3. CASE /\ queue # <<>> /\ queue' = Tail(queue)
               /\ worker' = [worker EXCEPT ![w] = [pc |-> "run", task |-> Head(queue)]]
        <3> DEFINE h == Head(queue)
        <3>1. /\ h \in Msgs /\ ToSet(queue) = ToSet(queue') \cup {h}
              /\ IsInjective(queue') /\ h \notin ToSet(queue')
            BY <2>3, ToSetTail DEF TypeOK, UnhandledOnce
        <3> HIDE DEF h
        <3>2. /\ worker'[w].pc = "run" /\ worker'[w].task = h
              /\ \A v \in Workers \ {w} : worker'[v] = worker[v]
            BY <2>3 DEF TypeOK, h
        <3>3. h \notin handled /\ \A v \in Workers : worker[v].pc = "run" => worker[v].task # h
            BY <3>1 DEF UnhandledOnce
        <3>4. \A v \in Workers \ {w} : worker[v].pc = "run" =>
                  worker[v].task \notin ToSet(queue) /\ worker[v].task \notin handled
            BY DEF UnhandledOnce
        <3>5. \A n \in ToSet(queue') : n \notin handled
            BY <3>1 DEF UnhandledOnce
        <3>6. \A v \in Workers : worker'[v].pc \in {"run", "ran"} => worker'[v].task \in Msgs
            BY <3>1, <3>2 DEF UnhandledOnce
        <3>7. ASSUME NEW v \in Workers, worker'[v].pc = "run"
              PROVE  /\ worker'[v].task \notin handled /\ worker'[v].task \notin ToSet(queue')
                     /\ \A u \in Workers \ {v} : worker'[u].pc = "run" => worker'[u].task # worker'[v].task
            <4>1. CASE v = w
                BY <3>1, <3>2, <3>3, <4>1
            <4>2. CASE v # w
                <5>1. \A u \in Workers \ {v} : worker[u].pc = "run" => worker[u].task # worker[v].task
                    BY <3>2, <3>7, <4>2 DEF UnhandledOnce
                <5> QED
                    BY <3>1, <3>2, <3>3, <3>4, <3>7, <4>2, <5>1
            <4> QED
                BY <4>1, <4>2
        <3>8. UNCHANGED handled
            BY <2>1
        <3>9. IsInjective(queue') /\ \A n \in ToSet(queue') : n \notin handled'
            BY <3>1, <3>5, <3>8
        <3>10. ASSUME NEW v \in Workers, worker'[v].pc = "run"
               PROVE  /\ worker'[v].task \notin handled' /\ worker'[v].task \notin ToSet(queue')
                      /\ \A u \in Workers \ {v} : worker'[u].pc = "run" => worker'[u].task # worker'[v].task
            BY <3>7, <3>8, <3>10
        <3>11. UnhandledOnce'
            BY <3>6, <3>9, <3>10, Zenon DEF UnhandledOnce
        <3> QED
            BY <1>4, <2>1, <3>11
    <2> QED
        BY <1>4, <1>5, <2>1, <2>2, <2>3 DEF WorkerCheck
<1>6. ASSUME NEW w \in Workers, WorkerSleep(w) PROVE ResponseInv'
    <2>1. UNCHANGED <<conn, pending, handled, queue>>
        BY <1>6 DEF WorkerSleep, connVars, loopVars, historyVars
    <2>2. \A v \in Workers : worker'[v].pc \in {"run", "ran"} =>
              worker'[v].pc = worker[v].pc /\ worker'[v].task = worker[v].task
        BY <1>6 DEF WorkerSleep, TypeOK, WorkerType
    <2> QED
        BY <1>4, <2>1, <2>2, UnhandledKept
<1>7. ASSUME NEW w \in Workers, WorkerRun(w) PROVE ResponseInv'
    <2> DEFINE m == worker[w].task
    <2>1. /\ UNCHANGED <<conn, queue>>
          /\ pending' = pending \/ pending' = Append(pending, m)
          /\ handled' = handled \cup {m} /\ worker[w].pc = "run"
          /\ worker' = [worker EXCEPT ![w].pc = "ran"]
        BY <1>7, RunQueues DEF WorkerRun, connVars
    <2>2. m \in Msgs /\ m \notin handled /\ m \notin ToSet(queue) /\ m # Nil
        BY <2>1, NetAssumption DEF UnhandledOnce, Msgs
    <2>3. m \in Tasks /\ m[1] \in Conns
        BY <2>2 DEF Tasks, Msgs
    <2>4. m \notin ToSet(pending) /\ m \notin ToSet(running.tasks)
        <3>1. m \notin ToSet(pending)
            BY <2>2 DEF UnsentOnce
        <3>2. running.tasks \in Seq(Msgs)
            BY DEF TypeOK
        <3> QED
            BY <2>2, <3>1, <3>2, ToSetType DEF UnsentOnce
    <2>5. Unsent(m)
        BY <2>2, <2>3 DEF WrittenInv, Responses, Unsent
    <2>6. ToSet(pending') \subseteq ToSet(pending) \cup {m} /\ IsInjective(pending')
        <3>1. pending \in Seq(Msgs) /\ IsInjective(pending)
            BY DEF TypeOK, UnsentOnce
        <3> HIDE DEF m
        <3>2. /\ ToSet(Append(pending, m)) = ToSet(pending) \cup {m}
              /\ IsInjective(Append(pending, m))
            BY <2>2, <2>4, <3>1, ToSetAppend
        <3>3. CASE pending' = pending
            BY <3>1, <3>3
        <3>4. CASE pending' = Append(pending, m)
            BY <3>2, <3>4, Zenon
        <3> QED
            BY <2>1, <3>3, <3>4
    <2>7. /\ worker'[w].pc = "ran" /\ worker'[w].task = m
          /\ \A v \in Workers \ {w} : worker'[v] = worker[v]
        BY <2>1 DEF TypeOK, WorkerType
    <2>8. KnownInv'
        BY <1>1, <1>2, <2>1, <2>3, KnownKept
    <2>9. \A v \in Workers \ {w} : worker[v].pc = "run" => worker[v].task # m
        BY <2>1 DEF UnhandledOnce
    <2> HIDE DEF m
    <2>10. UnhandledOnce'
        BY <2>1, <2>2, <2>7, <2>9 DEF UnhandledOnce
    <2>11. \A n : Unsent(n)' <=> Unsent(n)
        BY <1>2, <2>1 DEF Unsent, Written
    <2>12. UnsentOnce'
        BY <1>2, <2>1, <2>4, <2>5, <2>6, <2>11 DEF UnsentOnce
    <2>13. WrittenInv'
        BY <1>2, <1>3, <2>1, WrittenSame
    <2> QED
        BY <2>8, <2>10, <2>12, <2>13
<1>8. ASSUME NEW w \in Workers, WorkerDone(w) PROVE ResponseInv'
    <2>1. UNCHANGED <<pending, running, handled, queue>> /\ worker' = [worker EXCEPT ![w] = Idle]
        BY <1>8 DEF WorkerDone, connVars, loopVars, historyVars
    <2>2. /\ Shell(conn) /\ Lives(conn) /\ \A c \in Conns : Puts(conn, c, Written(c))
        BY <1>8, DoneEffect
    <2>3. KnownInv'
        BY <1>1, <1>2, <2>1, KnownKept
    <2>4. UnhandledOnce'
        <3>1. \A v \in Workers : worker'[v].pc \in {"run", "ran"} =>
                  worker'[v].pc = worker[v].pc /\ worker'[v].task = worker[v].task
            BY <2>1 DEF TypeOK, Idle
        <3> QED
            BY <2>1, <3>1, UnhandledKept
    <2>5. UnsentOnce'
        <3>1. ASSUME NEW m \in Msgs, Unsent(m) PROVE Unsent(m)'
            <4>1. m[1] \in Conns /\ Puts(conn, m[1], Written(m[1]))
                BY <2>2 DEF Msgs
            <4> QED
                BY <2>2, <3>1, <4>1, UnsentStays DEF LifeInv
        <3> QED
            BY <2>1, <3>1, UnsentKept
    <2>6. WrittenInv'
        <3>1. CASE Conns = {}
            BY <3>1 DEF WrittenInv
        <3>2. ASSUME NEW c \in Conns PROVE WrittenInv'
            <4>1. Good(c, Written(c)) /\ Puts(conn, c, Written(c))
                BY <2>2 DEF Good, WrittenInv
            <4> QED
                BY <1>2, <2>1, <2>2, <4>1, WrittenKept DEF LifeInv
        <3> QED
            BY <3>1, <3>2
    <2> QED
        BY <2>3, <2>4, <2>5, <2>6
<1>9. ASSUME StopNotify PROVE ResponseInv'
    <2>1. UNCHANGED <<conn, pending, handled, queue>>
        BY <1>9 DEF StopNotify, connVars, loopVars, historyVars
    <2>2. \A v \in Workers : worker'[v].pc \in {"run", "ran"} =>
              worker'[v].pc = worker[v].pc /\ worker'[v].task = worker[v].task
        BY <1>9 DEF StopNotify, TypeOK, WorkerType
    <2> QED
        BY <1>4, <2>1, <2>2, UnhandledKept
<1>10. ASSUME Stop \/ Quit PROVE ResponseInv'
    <2>1. UNCHANGED <<conn, pending, handled, queue, worker>>
        BY <1>10 DEF Stop, Quit, connVars, loopVars, poolVars, historyVars
    <2> QED
        BY <1>4, <2>1, UnhandledKept
<1> QED
    BY <1>5, <1>6, <1>7, <1>8, <1>9, <1>10 DEF WorkerStep

-----------------------------------------------------------------------------
(* The theorems.                                                           *)

LEMMA InitInv == Init => IInv
BY InitType, InitLife, InitRequests, InitResponses DEF IInv

LEMMA StepInv ==
    ASSUME IInv, Next
    PROVE  IInv'
<1>0. TypeOK /\ LifeInv /\ RequestInv /\ ResponseInv /\ UnhandledOnce
    BY DEF IInv, ResponseInv
<1>1. ASSUME NEW c \in Conns, ClientStep(c) PROVE IInv'
    <2>1. TypeOK'
        BY <1>0, <1>1, ClientTypes
    <2>2. LifeInv'
        BY <1>0, <1>1, <2>1, ClientLife
    <2>3. RequestInv'
        BY <1>0, <1>1, <2>1, ClientRequests
    <2>4. ResponseInv'
        BY <1>0, <1>1, ClientResponses
    <2> QED
        BY <2>1, <2>2, <2>3, <2>4 DEF IInv
<1>2. ASSUME NEW c \in Conns,
             HandleNewConnection(c) \/ HandleRead(c) \/ ProcessMessage(c) \/ ReadBlocks(c)
      PROVE  IInv'
    <2>1. TypeOK'
        BY <1>0, <1>2, ReaderTypes
    <2>2. LifeInv'
        BY <1>0, <1>2, <2>1, NewLife, ReaderLife
    <2>3. RequestInv'
        BY <1>0, <1>2, <2>1, ReaderRequests, ProcessRequests
    <2>4. ResponseInv'
        BY <1>0, <1>2, <2>1, ReaderResponses, ProcessResponses
    <2> QED
        BY <2>1, <2>2, <2>3, <2>4 DEF IInv
<1>3. ASSUME \/ \E c \in Conns : ReadCloses(c) \/ HandleWrite(c) \/ WriteAfterClose(c) \/ HandleError(c)
             \/ HandlePendingTasks
             \/ Send
      PROVE  IInv'
    <2>1. TypeOK'
        BY <1>0, <1>3, LoopTypes
    <2>2. LifeInv'
        BY <1>0, <1>3, <2>1, LoopLife
    <2>3. RequestInv'
        BY <1>0, <1>3, <2>2, LoopRequests
    <2>4. ResponseInv'
        BY <1>0, <1>3, <2>1, LoopResponses, SendResponses
    <2> QED
        BY <2>1, <2>2, <2>3, <2>4 DEF IInv
<1>4. ASSUME (\E w \in Workers : WorkerStep(w)) \/ Stop \/ StopNotify \/ Quit
      PROVE  IInv'
    <2>1. TypeOK'
        BY <1>0, <1>4, PoolTypes
    <2>2. LifeInv'
        BY <1>0, <1>4, <2>1, PoolLife
    <2>3. RequestInv'
        BY <1>0, <1>4, <2>2, PoolRequests
    <2>4. ResponseInv'
        BY <1>0, <1>4, <2>1, PoolResponses
    <2> QED
        BY <2>1, <2>2, <2>3, <2>4 DEF IInv
<1> QED
    BY <1>1, <1>2, <1>3, <1>4 DEF Next, LoopStep

LEMMA StutterInv ==
    ASSUME IInv, UNCHANGED vars
    PROVE  IInv'
<1> USE DEF vars, clientVars, connVars, loopVars, poolVars, historyVars
<1>1. TypeOK'
    BY DEF IInv, TypeOK
<1>2. LifeInv'
    BY DEF IInv, LifeInv, FdsOwned, TasksHold, Tasks, ListenersKept, Listens, OneThread, RoomKept
<1>3. RequestInv'
    <2>1. UNCHANGED <<conn, next, inflow, delivered, peer>> /\ reading' \in {reading, Nil}
        OBVIOUS
    <2> QED
        BY <2>1, SameRequests DEF IInv
<1>4. ResponseInv'
    <2>1. \A c \in Conns : Written(c)' = Written(c)
        BY DEF Written
    <2>2. UNCHANGED <<queue, worker, pending, running, handled, delivered, conn, peer>>
        OBVIOUS
    <2> QED
        BY <2>1, <2>2, SameResponses DEF IInv
<1> QED
    BY <1>1, <1>2, <1>3, <1>4 DEF IInv

\* In every reachable state each connection has its descriptor to itself, no
\* task holds a destroyed connection, what is read and buffered is the rest of
\* the client's requests, and every response waits or is written once.
THEOREM Invariance == Spec => []IInv
<1>1. IInv /\ [Next]_vars => IInv'
    BY StepInv, StutterInv
<1> QED
    BY <1>1, InitInv, PTL DEF Spec

\* Wherever TCP cuts the stream of a client, ProcessMessages hands on the
\* requests of that client, whole, in order and each once.
THEOREM RequestsArriveWhole == Spec => []RequestsWhole
<1>1. IInv => RequestsWhole
    BY DEF IInv, RequestInv
<1> QED
    BY <1>1, Invariance, PTL

\* What Send and HandleWrite write to a client are whole responses to its own
\* requests, each at most once, although writes are partial, responses wait
\* behind each other and descriptors are used again.
THEOREM ResponsesGoWhole == Spec => []ResponsesWhole
<1>1. ASSUME IInv, NEW c \in Conns
      PROVE  Responses(c, out[c], handled)
    <2>1. out[c] \in Seq(Bytes) /\ conn[c].writeBuf \in Seq(Bytes)
        BY <1>1, ConnParts DEF IInv, TypeOK
    <2>2. Responses(c, out[c] \o conn[c].writeBuf, handled)
        BY <1>1 DEF IInv, ResponseInv, WrittenInv, Written
    <2> QED
        BY <2>1, <2>2, ResponsesStart
<1>2. IInv => ResponsesWhole
    BY <1>1 DEF ResponsesWhole, Responses
<1> QED
    BY <1>2, Invariance, PTL
=============================================================================
