--------------------------- MODULE DataNode_proofs ---------------------------
(***************************************************************************)
(* Proofs about DataNode, for every set of requests, every pipeline and    *)
(* every bound.                                                            *)
(***************************************************************************)
EXTENDS DataNode, TLAPS

Pcs == {"none", "start", "opened", "written", "metaopen", "described", "waiting", "ok", "failed"}

\* The types of the files and of the threads.
TypeOK ==
    /\ content \in [Nodes -> [Requests -> Requests \cup {Nothing, Mixed}]]
    /\ tmp \in [Nodes -> Requests \cup {None}]
    /\ dat \in [Nodes -> Requests \cup {None}]
    /\ meta \in [Nodes -> Requests \cup {None, Torn}]
    /\ up \in [Nodes -> BOOLEAN]
    /\ pc \in [Requests -> [Nodes -> Pcs]]
    /\ handle \in [Requests -> [Nodes -> Requests \cup {None}]]
    /\ deleting \in [Nodes -> BOOLEAN]
    /\ sole \in [Nodes -> Requests \cup {None}]
    /\ sure \in [Nodes -> Requests \cup {None}]

WritingPcs == {"opened", "written", "metaopen", "described"}

\* A thread inside WriteBlock has a file open.
HandlesOpen(d) == \A r \in Writing(d) : handle[r][d] \in Requests

\* The write that has the block to itself: no other one is under way, its stream
\* is the temporary file, and what it has written so far is there.
SoleWrite(d) ==
    sole[d] # None =>
        /\ ~ deleting[d]
        /\ Writing(d) \subseteq {sole[d]}
        /\ pc[sole[d]][d] \in WritingPcs => tmp[d] # None /\ handle[sole[d]][d] = tmp[d]
        /\ pc[sole[d]][d] = "opened" => content[d][tmp[d]] = Nothing
        /\ pc[sole[d]][d] \in {"written", "metaopen", "described"}
              => content[d][tmp[d]] = sole[d]
        /\ pc[sole[d]][d] = "described" => meta[d] = sole[d]

\* A complete write: nobody touches its files.
SureWrite(d) ==
    sure[d] # None =>
        /\ ~ deleting[d]
        /\ Writing(d) = {}
        /\ dat[d] # None
        /\ content[d][dat[d]] = sure[d]
        /\ meta[d] = sure[d]

\* A process that does not run has no threads.
NoThreads(d) == ~ up[d] => Writing(d) = {}

NodeInv(d) == HandlesOpen(d) /\ SoleWrite(d) /\ SureWrite(d) /\ NoThreads(d)

IInv == TypeOK /\ \A d \in Nodes : NodeInv(d)

-----------------------------------------------------------------------------
(* How the threads move.                                                   *)

LEMMA WritingDef ==
    ASSUME NEW d \in Nodes
    PROVE  /\ TypeOK => Writing(d) = {r \in Requests : pc[r][d] \in WritingPcs}
           /\ TypeOK' => Writing(d)' = {r \in Requests : pc'[r][d] \in WritingPcs}
BY DEF TypeOK, Writing, WritingPcs, Pcs, Done

\* Every thread stays where it is or is, after the step, not inside WriteBlock.
ThreadsLeave(d) ==
    \A q \in Requests : pc'[q][d] = pc[q][d] \/ pc'[q][d] \notin WritingPcs

\* The thread of r at d moves to x and no other one does.
MovesTo(r, d, x) ==
    /\ pc' \in [Requests -> [Nodes -> Pcs]]
    /\ \A q \in Requests, e \in Nodes : pc'[q][e] = IF q = r /\ e = d THEN x ELSE pc[q][e]

LEMMA Moves ==
    ASSUME TypeOK, NEW r \in Requests, NEW d \in Nodes, NEW x \in Pcs,
           pc' = [pc EXCEPT ![r][d] = x]
    PROVE  MovesTo(r, d, x)
BY DEF TypeOK, MovesTo

\* Nobody enters or leaves WriteBlock when the thread of r moves inside it.
LEMMA WritingStays ==
    ASSUME TypeOK, TypeOK', NEW r \in Requests, NEW d \in Nodes, NEW x \in WritingPcs,
           r \in Writing(d), MovesTo(r, d, x)
    PROVE  Writing(d)' = Writing(d)
<1>1. Writing(d) = {q \in Requests : pc[q][d] \in WritingPcs}
    BY WritingDef
<1>2. Writing(d)' = {q \in Requests : pc'[q][d] \in WritingPcs}
    BY WritingDef
<1>3. \A q \in Requests : pc'[q][d] = IF q = r THEN x ELSE pc[q][d]
    BY DEF MovesTo
<1> HIDE DEF WritingPcs
<1> QED
    BY <1>1, <1>2, <1>3

\* HandlerWrite, after the local write: r is out of WriteBlock at d and nobody is
\* inside it who was not.
LEMMA AfterWriteMoves ==
    ASSUME TypeOK, NEW r \in Requests, NEW d \in Nodes, NEW written, AfterWrite(r, d, written)
    PROVE  /\ pc' \in [Requests -> [Nodes -> Pcs]]
           /\ pc'[r][d] \notin WritingPcs
           /\ \A e \in Nodes : ThreadsLeave(e)
<1>1. CASE \E x \in {"failed", "ok"} : pc' = [pc EXCEPT ![r][d] = x]
    <2>1. PICK x \in {"failed", "ok"} : pc' = [pc EXCEPT ![r][d] = x]
        BY <1>1
    <2>2. MovesTo(r, d, x)
        BY <2>1, Moves DEF Pcs
    <2> QED
        BY <2>2 DEF MovesTo, ThreadsLeave, WritingPcs
<1>2. CASE pc' = [pc EXCEPT ![r][d] = "waiting", ![r][Successor(d)] = "start"]
    <2> DEFINE mid == [pc EXCEPT ![r][d] = "waiting"]
    <2>1. /\ mid \in [Requests -> [Nodes -> Pcs]]
          /\ \A q \in Requests, e \in Nodes :
                mid[q][e] = IF q = r /\ e = d THEN "waiting" ELSE pc[q][e]
        BY DEF TypeOK, Pcs
    <2>2. pc' = [mid EXCEPT ![r][Successor(d)] = "start"]
        BY <1>2
    <2> HIDE DEF mid
    <2>3. /\ pc' \in [Requests -> [Nodes -> Pcs]]
          /\ \A q \in Requests, e \in Nodes : pc'[q][e] \in {mid[q][e], "start"}
        BY <2>1, <2>2 DEF Pcs
    <2> QED
        BY <2>1, <2>3 DEF ThreadsLeave, WritingPcs
<1> QED
    BY <1>1, <1>2 DEF AfterWrite

-----------------------------------------------------------------------------
(* Type correctness.                                                       *)

LEMMA InitType == Init => TypeOK
BY DEF Init, TypeOK, Pcs, Nothing

LEMMA StepTypes ==
    ASSUME TypeOK, NEW r \in Requests, NEW d \in Nodes, WriteStep(r, d) \/ DiskError(r, d)
    PROVE  TypeOK'
<1>1. CASE OpenTmp(r, d)
    <2> DEFINE inode == IF tmp[d] = None THEN r ELSE tmp[d]
    <2>1. inode \in Requests
        BY DEF TypeOK
    <2>2. /\ tmp' = [tmp EXCEPT ![d] = inode]
          /\ content' = [content EXCEPT ![d][inode] = Nothing]
          /\ handle' = [handle EXCEPT ![r][d] = inode]
          /\ pc' = [pc EXCEPT ![r][d] = "opened"]
        BY <1>1 DEF OpenTmp
    <2> HIDE DEF inode
    <2>3. MovesTo(r, d, "opened")
        BY <2>2, Moves DEF Pcs
    <2>4. content' \in [Nodes -> [Requests -> Requests \cup {Nothing, Mixed}]]
        BY <2>1, <2>2 DEF TypeOK
    <2>5. handle' \in [Requests -> [Nodes -> Requests \cup {None}]]
        BY <2>1, <2>2 DEF TypeOK
    <2>6. tmp' \in [Nodes -> Requests \cup {None}]
        BY <2>1, <2>2 DEF TypeOK
    <2>7. sole' \in [Nodes -> Requests \cup {None}] /\ sure' \in [Nodes -> Requests \cup {None}]
        BY <1>1 DEF OpenTmp, TypeOK
    <2> QED
        BY <1>1, <2>3, <2>4, <2>5, <2>6, <2>7 DEF OpenTmp, TypeOK, MovesTo
<1>2. CASE WriteTmp(r, d)
    <2>1. PICK c \in {r, Mixed} : content' = [content EXCEPT ![d][handle[r][d]] = c]
        BY <1>2 DEF WriteTmp
    <2>2. content' \in [Nodes -> [Requests -> Requests \cup {Nothing, Mixed}]]
        BY <2>1 DEF TypeOK
    <2>3. MovesTo(r, d, "written")
        BY <1>2, Moves DEF Pcs, WriteTmp
    <2> QED
        BY <1>2, <2>2, <2>3 DEF WriteTmp, TypeOK, MovesTo, historyVars
<1>3. CASE OpenMeta(r, d)
    <2>1. MovesTo(r, d, "metaopen")
        BY <1>3, Moves DEF Pcs, OpenMeta
    <2> QED
        BY <1>3, <2>1 DEF OpenMeta, TypeOK, MovesTo, historyVars
<1>4. CASE WriteMeta(r, d)
    <2>1. MovesTo(r, d, "described")
        BY <1>4, Moves DEF Pcs, WriteMeta
    <2> QED
        BY <1>4, <2>1 DEF WriteMeta, TypeOK, MovesTo, historyVars
<1>5. CASE RenameTmp(r, d)
    <2>1. pc' \in [Requests -> [Nodes -> Pcs]]
        BY <1>5, AfterWriteMoves DEF RenameTmp
    <2> QED
        BY <1>5, <2>1 DEF RenameTmp, Renamed, TypeOK
<1>6. CASE ForwardReply(r, d)
    <2>1. pc[r][Successor(d)] \in Pcs
        BY <1>6 DEF ForwardReply, Pcs
    <2>2. MovesTo(r, d, pc[r][Successor(d)])
        BY <1>6, <2>1, Moves DEF ForwardReply
    <2> QED
        BY <1>6, <2>2 DEF ForwardReply, TypeOK, MovesTo, diskVars, historyVars
<1>7. CASE ForwardTimeout(r, d)
    <2>1. MovesTo(r, d, "failed")
        BY <1>7, Moves DEF Pcs, ForwardTimeout
    <2> QED
        BY <1>7, <2>1 DEF ForwardTimeout, TypeOK, MovesTo, diskVars, historyVars
<1>8. CASE DiskError(r, d)
    <2>1. pc' \in [Requests -> [Nodes -> Pcs]]
        BY <1>8, AfterWriteMoves DEF DiskError
    <2> QED
        BY <1>8, <2>1 DEF DiskError, TypeOK
<1> QED
    BY <1>1, <1>2, <1>3, <1>4, <1>5, <1>6, <1>7, <1>8 DEF WriteStep

\* A crash ends every thread of d.
LEMMA CrashMoves ==
    ASSUME TypeOK, NEW d \in Nodes, Crash(d)
    PROVE  /\ pc' \in [Requests -> [Nodes -> Pcs]]
           /\ \A q \in Requests : pc'[q][d] \notin WritingPcs
           /\ \A e \in Nodes : ThreadsLeave(e)
BY DEF TypeOK, Crash, Pcs, Done, WritingPcs, ThreadsLeave

LEMMA NodeTypes ==
    ASSUME TypeOK, NEW d \in Nodes, DeleteData(d) \/ DeleteMeta(d) \/ Crash(d) \/ Restart(d)
    PROVE  TypeOK'
<1>1. CASE DeleteData(d) \/ DeleteMeta(d) \/ Restart(d)
    BY <1>1 DEF TypeOK, DeleteData, DeleteMeta, Restart, boundVars, historyVars
<1>2. CASE Crash(d)
    BY <1>2, CrashMoves DEF TypeOK, Crash, diskVars
<1> QED
    BY <1>1, <1>2

\* A request arrives: its thread is not inside WriteBlock yet.
LEMMA RequestMoves ==
    ASSUME TypeOK, NEW r \in Requests, Request(r)
    PROVE  /\ pc' \in [Requests -> [Nodes -> Pcs]]
           /\ \A e \in Nodes : ThreadsLeave(e)
<1> DEFINE d == Pipeline[1]
<1>1. pc' = [pc EXCEPT ![r][d] = "start"]
    BY DEF Request
<1> HIDE DEF d
<1>2. /\ pc' \in [Requests -> [Nodes -> Pcs]]
      /\ \A q \in Requests, e \in Nodes : pc'[q][e] \in {pc[q][e], "start"}
    BY <1>1 DEF TypeOK, Pcs
<1> QED
    BY <1>2 DEF ThreadsLeave, WritingPcs

-----------------------------------------------------------------------------
(* The invariant of a node.                                                *)

\* A node whose files stay as they are, and where no thread enters WriteBlock or
\* moves inside it.
LEMMA NodeFrame ==
    ASSUME TypeOK, TypeOK', NEW e \in Nodes, NodeInv(e), ThreadsLeave(e),
           content'[e] = content[e], up'[e] = up[e], tmp'[e] = tmp[e], dat'[e] = dat[e], meta'[e] = meta[e],
           \A q \in Requests : handle'[q][e] = handle[q][e],
           deleting'[e] = deleting[e], sole'[e] \in {sole[e], None}, sure'[e] = sure[e]
    PROVE  NodeInv(e)'
<1>1. Writing(e) = {q \in Requests : pc[q][e] \in WritingPcs}
    BY WritingDef
<1>2. Writing(e)' = {q \in Requests : pc'[q][e] \in WritingPcs}
    BY WritingDef
<1>3. Writing(e)' \subseteq Writing(e)
    BY <1>1, <1>2 DEF ThreadsLeave
<1>4. HandlesOpen(e)'
    BY <1>3 DEF NodeInv, HandlesOpen, Writing
<1>5. SoleWrite(e)'
    <2> SUFFICES ASSUME sole'[e] # None
                 PROVE  SoleWrite(e)'
        BY DEF SoleWrite
    <2>1. sole'[e] = sole[e] /\ sole[e] \in Requests
        BY DEF TypeOK
    <2>2. pc'[sole[e]][e] = pc[sole[e]][e] \/ pc'[sole[e]][e] \notin WritingPcs
        BY <2>1 DEF ThreadsLeave
    <2> QED
        BY <1>3, <2>1, <2>2 DEF NodeInv, SoleWrite, WritingPcs
<1>6. SureWrite(e)'
    BY <1>3 DEF NodeInv, SureWrite
<1> QED
    BY <1>3, <1>4, <1>5, <1>6 DEF NodeInv, NoThreads

\* A thread of r that moves inside WriteBlock at d changes nothing at other nodes.
LEMMA ElsewhereFrame ==
    ASSUME TypeOK, TypeOK', NEW d \in Nodes, NEW e \in Nodes \ {d}, NodeInv(e), ThreadsLeave(e),
           UNCHANGED <<up[e], content[e], tmp[e], dat[e], meta[e], deleting[e], sole[e], sure[e]>>,
           \A q \in Requests : handle'[q][e] = handle[q][e]
    PROVE  NodeInv(e)'
BY NodeFrame

\* The first step of WriteBlock: the temporary file is r's alone if nobody else
\* was inside WriteBlock.
LEMMA OpenTmpInv ==
    ASSUME TypeOK, TypeOK', NEW r \in Requests, NEW d \in Nodes, NodeInv(d), OpenTmp(r, d)
    PROVE  NodeInv(d)'
<1> DEFINE inode == IF tmp[d] = None THEN r ELSE tmp[d]
<1>1. inode \in Requests /\ None \notin Requests
    BY DataNodeAssumption DEF TypeOK
<1>2. /\ tmp' = [tmp EXCEPT ![d] = inode]
      /\ content' = [content EXCEPT ![d][inode] = Nothing]
      /\ handle' = [handle EXCEPT ![r][d] = inode]
      /\ pc' = [pc EXCEPT ![r][d] = "opened"]
    BY DEF OpenTmp
<1> HIDE DEF inode
<1>3. MovesTo(r, d, "opened")
    BY <1>2, Moves DEF Pcs
<1>4. tmp'[d] = inode /\ content'[d][inode] = Nothing
    BY <1>1, <1>2 DEF TypeOK
<1>5. \A q \in Requests : handle'[q][d] = IF q = r THEN inode ELSE handle[q][d]
    BY <1>2 DEF TypeOK
<1>6. /\ sole'[d] = IF Writing(d) = {} /\ ~ deleting[d] THEN r ELSE None
      /\ sure'[d] = None /\ deleting' = deleting
    BY DEF OpenTmp, AtRest, TypeOK
<1>7. Writing(d)' = Writing(d) \cup {r}
    BY <1>3, WritingDef DEF MovesTo, WritingPcs
<1>8. pc'[r][d] = "opened"
    BY <1>3 DEF MovesTo
<1>9. HandlesOpen(d)'
    <2>1. Writing(d) \subseteq Requests
        BY DEF Writing
    <2> QED
        BY <1>1, <1>5, <1>7, <2>1 DEF NodeInv, HandlesOpen
<1>10. SoleWrite(d)'
    BY <1>1, <1>4, <1>5, <1>6, <1>7, <1>8 DEF SoleWrite
<1>11. NoThreads(d)'
    BY DEF OpenTmp, NoThreads
<1> QED
    BY <1>6, <1>9, <1>10, <1>11 DEF NodeInv, SureWrite

LEMMA WriteTmpInv ==
    ASSUME TypeOK, TypeOK', NEW r \in Requests, NEW d \in Nodes, NodeInv(d), WriteTmp(r, d)
    PROVE  NodeInv(d)'
<1> DEFINE inode == handle[r][d]
<1>1. r \in Writing(d) /\ None \notin Requests
    BY WritingDef, DataNodeAssumption DEF WriteTmp, WritingPcs
<1>2. inode \in Requests
    BY <1>1 DEF NodeInv, HandlesOpen
<1>3. PICK c \in IF content[d][inode] = Nothing THEN {r} ELSE {r, Mixed} :
         content' = [content EXCEPT ![d][inode] = c]
    BY DEF WriteTmp
<1>4. MovesTo(r, d, "written")
    BY Moves DEF WriteTmp, Pcs
<1>5. UNCHANGED <<tmp, dat, meta, handle, deleting, sole, sure>>
    BY DEF WriteTmp, historyVars
<1>6. content'[d][inode] = c
    BY <1>2, <1>3 DEF TypeOK
<1> HIDE DEF inode
<1>7. Writing(d)' = Writing(d)
    BY <1>1, <1>4, WritingStays DEF WritingPcs
<1>8. HandlesOpen(d)'
    BY <1>5, <1>7 DEF NodeInv, HandlesOpen
<1>9. SureWrite(d)'
    BY <1>1, <1>5 DEF NodeInv, SureWrite
<1>10. SoleWrite(d)'
    <2> SUFFICES ASSUME sole[d] # None
                 PROVE  SoleWrite(d)'
        BY <1>5 DEF SoleWrite
    <2>1. sole[d] = r /\ pc[r][d] = "opened" /\ pc'[r][d] = "written"
        BY <1>1, <1>4 DEF NodeInv, SoleWrite, MovesTo, WriteTmp
    <2>2. tmp[d] = inode /\ content[d][inode] = Nothing /\ tmp[d] # None
        BY <2>1 DEF NodeInv, SoleWrite, WritingPcs, inode
    <2>3. content'[d][tmp'[d]] = r
        BY <1>3, <1>5, <1>6, <2>2
    <2> QED
        BY <1>5, <1>7, <2>1, <2>2, <2>3 DEF NodeInv, SoleWrite, WritingPcs
<1>11. NoThreads(d)'
    BY DEF WriteTmp, NoThreads
<1> QED
    BY <1>8, <1>9, <1>10, <1>11 DEF NodeInv

\* OpenMeta and WriteMeta change the metadata, which nobody relies on while r is
\* inside WriteBlock.
LEMMA MetaInv ==
    ASSUME TypeOK, TypeOK', NEW r \in Requests, NEW d \in Nodes, NodeInv(d),
           OpenMeta(r, d) \/ WriteMeta(r, d)
    PROVE  NodeInv(d)'
<1>1. r \in Writing(d)
    BY WritingDef DEF OpenMeta, WriteMeta, WritingPcs
<1>2. \/ MovesTo(r, d, "metaopen") /\ pc[r][d] = "written"
      \/ MovesTo(r, d, "described") /\ pc[r][d] = "metaopen" /\ meta'[d] = r
    BY Moves DEF OpenMeta, WriteMeta, Pcs, TypeOK
<1>3. UNCHANGED <<content, tmp, dat, handle, deleting, sole, sure>>
    BY DEF OpenMeta, WriteMeta, historyVars
<1>4. Writing(d)' = Writing(d)
    BY <1>1, <1>2, WritingStays DEF WritingPcs
<1>5. HandlesOpen(d)'
    BY <1>3, <1>4 DEF NodeInv, HandlesOpen
<1>6. SureWrite(d)'
    BY <1>1, <1>3 DEF NodeInv, SureWrite
<1>7. SoleWrite(d)'
    <2> SUFFICES ASSUME sole[d] # None
                 PROVE  SoleWrite(d)'
        BY <1>3 DEF SoleWrite
    <2>1. sole[d] = r
        BY <1>1 DEF NodeInv, SoleWrite
    <2>2. \/ pc'[r][d] = "metaopen" /\ pc[r][d] = "written"
          \/ pc'[r][d] = "described" /\ pc[r][d] = "metaopen" /\ meta'[d] = r
        BY <1>2 DEF MovesTo
    <2> QED
        BY <1>3, <1>4, <2>1, <2>2 DEF NodeInv, SoleWrite, WritingPcs
<1>8. NoThreads(d)'
    BY DEF OpenMeta, WriteMeta, NoThreads
<1> QED
    BY <1>5, <1>6, <1>7, <1>8 DEF NodeInv

\* The rename: what r alone has written becomes the block.
LEMMA RenameTmpInv ==
    ASSUME TypeOK, TypeOK', NEW r \in Requests, NEW d \in Nodes, NodeInv(d), RenameTmp(r, d)
    PROVE  NodeInv(d)'
<1>1. r \in Writing(d) /\ None \notin Requests
    BY WritingDef, DataNodeAssumption DEF RenameTmp, WritingPcs
<1>2. pc'[r][d] \notin WritingPcs /\ ThreadsLeave(d)
    BY AfterWriteMoves DEF RenameTmp
<1>3. Writing(d)' \subseteq Writing(d) \ {r}
    BY <1>2, WritingDef DEF ThreadsLeave
<1>4. UNCHANGED <<content, meta, handle, deleting, sole>>
    BY DEF RenameTmp
<1>5. dat'[d] = Renamed(d) /\ sure'[d] = IF sole[d] = r THEN r ELSE None
    BY DEF RenameTmp, TypeOK
<1>6. HandlesOpen(d)'
    BY <1>3, <1>4 DEF NodeInv, HandlesOpen
<1>7. SoleWrite(d)'
    <2> SUFFICES ASSUME sole[d] # None
                 PROVE  SoleWrite(d)'
        BY <1>4 DEF SoleWrite
    <2>1. sole[d] = r
        BY <1>1 DEF NodeInv, SoleWrite
    <2> QED
        BY <1>2, <1>3, <1>4, <2>1 DEF NodeInv, SoleWrite, WritingPcs
<1>8. SureWrite(d)'
    <2> SUFFICES ASSUME sole[d] = r
                 PROVE  SureWrite(d)'
        BY <1>5 DEF SureWrite
    <2>1. /\ ~ deleting[d] /\ Writing(d) = {r}
          /\ tmp[d] # None /\ content[d][tmp[d]] = r /\ meta[d] = r
        BY <1>1 DEF NodeInv, SoleWrite, RenameTmp, WritingPcs
    <2> QED
        BY <1>1, <1>3, <1>4, <1>5, <2>1 DEF SureWrite, Renamed
<1>9. NoThreads(d)'
    BY DEF RenameTmp, NoThreads
<1> QED
    BY <1>6, <1>7, <1>8, <1>9 DEF NodeInv

\* A file that cannot be opened: the write ends, with what it had.
LEMMA DiskErrorInv ==
    ASSUME TypeOK, TypeOK', NEW r \in Requests, NEW d \in Nodes, NodeInv(d), DiskError(r, d)
    PROVE  NodeInv(d)'
<1>1. pc'[r][d] \notin WritingPcs /\ ThreadsLeave(d)
    BY AfterWriteMoves DEF DiskError
<1>2. Writing(d)' \subseteq Writing(d) \ {r}
    BY <1>1, WritingDef DEF ThreadsLeave
<1>3. UNCHANGED <<content, dat, meta, handle, deleting, sure>>
    BY DEF DiskError
<1>4. /\ tmp'[d] = IF pc[r][d] = "written" THEN None ELSE tmp[d]
      /\ sole'[d] = IF sole[d] = r THEN None ELSE sole[d]
    BY DEF DiskError, TypeOK
<1>5. HandlesOpen(d)'
    BY <1>2, <1>3 DEF NodeInv, HandlesOpen
<1>6. SureWrite(d)'
    BY <1>2, <1>3 DEF NodeInv, SureWrite
<1>7. SoleWrite(d)'
    <2> SUFFICES ASSUME sole[d] # None, sole[d] # r
                 PROVE  SoleWrite(d)'
        BY <1>4 DEF SoleWrite
    <2>1. r \notin Writing(d) /\ sole[d] \in Requests
        BY DEF NodeInv, SoleWrite, TypeOK
    <2>2. pc[r][d] # "written"
        BY <2>1, WritingDef DEF WritingPcs
    <2>3. pc'[sole[d]][d] = pc[sole[d]][d] \/ pc'[sole[d]][d] \notin WritingPcs
        BY <1>1, <2>1 DEF ThreadsLeave
    <2> QED
        BY <1>2, <1>3, <1>4, <2>2, <2>3 DEF NodeInv, SoleWrite, WritingPcs
<1>8. NoThreads(d)'
    BY DEF DiskError, NoThreads
<1> QED
    BY <1>5, <1>6, <1>7, <1>8 DEF NodeInv

\* Deletion, crash and restart.
LEMMA NodeStepInv ==
    ASSUME TypeOK, TypeOK', NEW d \in Nodes, NodeInv(d),
           DeleteData(d) \/ DeleteMeta(d) \/ Crash(d) \/ Restart(d)
    PROVE  NodeInv(d)'
<1>1. CASE DeleteData(d)
    <2>1. sole'[d] = None /\ sure'[d] = None /\ pc' = pc /\ handle' = handle
        BY <1>1 DEF DeleteData, TypeOK
    <2>2. NoThreads(d)'
        BY <1>1 DEF DeleteData, NoThreads
    <2> QED
        BY <2>1, <2>2 DEF NodeInv, HandlesOpen, SoleWrite, SureWrite, Writing
<1>2. CASE DeleteMeta(d)
    <2>1. UNCHANGED <<content, tmp, dat, pc, handle, sole, sure>>
        BY <1>2 DEF DeleteMeta, historyVars
    <2>2. sole[d] = None /\ sure[d] = None
        BY <1>2 DEF DeleteMeta, NodeInv, SoleWrite, SureWrite
    <2>3. NoThreads(d)'
        BY <1>2 DEF DeleteMeta, NoThreads
    <2> QED
        BY <2>1, <2>2, <2>3 DEF NodeInv, HandlesOpen, SoleWrite, SureWrite, Writing
<1>3. CASE Crash(d)
    <2>1. Writing(d)' = {}
        BY <1>3, CrashMoves, WritingDef
    <2>2. /\ UNCHANGED <<content, tmp, dat, meta, handle, sure>>
          /\ sole'[d] = None /\ ~ deleting'[d]
        BY <1>3 DEF Crash, diskVars, TypeOK
    <2> QED
        BY <2>1, <2>2 DEF NodeInv, HandlesOpen, SoleWrite, SureWrite, NoThreads
<1>4. CASE Restart(d)
    <2>1. Writing(d) = {}
        BY <1>4 DEF Restart, NodeInv, NoThreads
    <2>2. UNCHANGED <<content, dat, meta, pc, handle, deleting, sole, sure>> /\ up'[d]
        BY <1>4 DEF Restart, historyVars, TypeOK
    <2>3. Writing(d)' = {}
        BY <2>1, <2>2 DEF Writing
    <2>4. \A q \in Requests : pc'[q][d] \notin WritingPcs
        BY <2>3, WritingDef
    <2>5. SoleWrite(d)'
        BY <2>2, <2>3, <2>4 DEF NodeInv, SoleWrite, WritingPcs, TypeOK
    <2> QED
        BY <2>2, <2>3, <2>5 DEF NodeInv, HandlesOpen, SureWrite, NoThreads
<1> QED
    BY <1>1, <1>2, <1>3, <1>4

-----------------------------------------------------------------------------
(* The invariant of the system.                                            *)

\* The files of another node stay as they are.
LEMMA ElsewhereFiles ==
    ASSUME TypeOK, NEW r \in Requests, NEW d \in Nodes, NEW e \in Nodes \ {d},
           WriteStep(r, d) \/ DiskError(r, d)
    PROVE  UNCHANGED <<up[e], content[e], tmp[e], dat[e], meta[e], deleting[e], sole[e], sure[e]>>
<1>1. CASE OpenTmp(r, d)
    BY <1>1 DEF OpenTmp, TypeOK
<1>2. CASE WriteTmp(r, d)
    BY <1>2 DEF WriteTmp, historyVars, TypeOK
<1>3. CASE OpenMeta(r, d) \/ WriteMeta(r, d)
    BY <1>3 DEF OpenMeta, WriteMeta, historyVars, TypeOK
<1>4. CASE RenameTmp(r, d)
    <2>1. e # d
        OBVIOUS
    <2>2. UNCHANGED <<up, content, deleting>>
        BY <1>4 DEF RenameTmp
    <2>3. UNCHANGED <<tmp[e], dat[e], meta[e]>>
        BY <1>4, <2>1 DEF RenameTmp, TypeOK
    <2>4. UNCHANGED <<sole[e], sure[e]>>
        BY <1>4, <2>1 DEF RenameTmp, TypeOK
    <2> QED
        BY <2>2, <2>3, <2>4
<1>6. CASE DiskError(r, d)
    BY <1>6 DEF DiskError, TypeOK
<1>5. CASE ForwardReply(r, d) \/ ForwardTimeout(r, d)
    BY <1>5 DEF ForwardReply, ForwardTimeout, diskVars, historyVars
<1> QED
    BY <1>1, <1>2, <1>3, <1>4, <1>5, <1>6 DEF WriteStep

\* A step of the thread of r at d, seen from another node.
LEMMA ThreadElsewhere ==
    ASSUME TypeOK, TypeOK', NEW r \in Requests, NEW d \in Nodes, NEW e \in Nodes \ {d}, NodeInv(e),
           WriteStep(r, d) \/ DiskError(r, d)
    PROVE  NodeInv(e)'
<1>1. ThreadsLeave(e)
    <2>1. ASSUME NEW x \in Pcs, pc' = [pc EXCEPT ![r][d] = x]
          PROVE  ThreadsLeave(e)
        <3>1. MovesTo(r, d, x)
            BY <2>1, Moves
        <3> QED
            BY <3>1 DEF MovesTo, ThreadsLeave
    <2>2. ASSUME NEW written, AfterWrite(r, d, written)
          PROVE  ThreadsLeave(e)
        BY <2>2, AfterWriteMoves
    <2>3. CASE OpenTmp(r, d) \/ WriteTmp(r, d) \/ OpenMeta(r, d) \/ WriteMeta(r, d)
        <3>1. \E x \in {"opened", "written", "metaopen", "described"} : pc' = [pc EXCEPT ![r][d] = x]
            BY <2>3 DEF OpenTmp, WriteTmp, OpenMeta, WriteMeta
        <3> QED
            BY <3>1, <2>1 DEF Pcs
    <2>4. CASE ForwardReply(r, d) \/ ForwardTimeout(r, d)
        <3>1. \E x \in {"ok", "failed"} : pc' = [pc EXCEPT ![r][d] = x]
            BY <2>4 DEF ForwardReply, ForwardTimeout
        <3> QED
            BY <3>1, <2>1 DEF Pcs
    <2>5. CASE RenameTmp(r, d) \/ DiskError(r, d)
        BY <2>2, <2>5 DEF RenameTmp, DiskError
    <2> QED
        BY <2>3, <2>4, <2>5 DEF WriteStep
<1>2. UNCHANGED <<up[e], content[e], tmp[e], dat[e], meta[e], deleting[e], sole[e], sure[e]>>
    BY ElsewhereFiles
<1>3. \A q \in Requests : handle'[q][e] = handle[q][e]
    <2>1. CASE OpenTmp(r, d)
        BY <2>1 DEF OpenTmp, TypeOK
    <2>2. CASE ~ OpenTmp(r, d)
        BY <2>2 DEF WriteStep, WriteTmp, OpenMeta, WriteMeta, RenameTmp, DiskError,
                    ForwardReply, ForwardTimeout
    <2> QED
        BY <2>1, <2>2
<1> QED
    BY <1>1, <1>2, <1>3, ElsewhereFrame

\* The answer of the next node, or its absence, changes no file.
LEMMA ForwardInv ==
    ASSUME TypeOK, TypeOK', NEW r \in Requests, NEW d \in Nodes, NodeInv(d),
           ForwardReply(r, d) \/ ForwardTimeout(r, d)
    PROVE  NodeInv(d)'
<1>1. PICK x \in {"ok", "failed"} : pc' = [pc EXCEPT ![r][d] = x]
    BY DEF ForwardReply, ForwardTimeout
<1>2. MovesTo(r, d, x)
    BY <1>1, Moves DEF Pcs
<1>3. ThreadsLeave(d)
    BY <1>2 DEF MovesTo, ThreadsLeave, WritingPcs
<1>4. UNCHANGED <<diskVars, up, handle, deleting, historyVars>>
    BY DEF ForwardReply, ForwardTimeout
<1> QED
    BY <1>3, <1>4, NodeFrame DEF diskVars, historyVars

\* Deletion, crash and restart of d, seen from another node.
LEMMA NodeElsewhere ==
    ASSUME TypeOK, TypeOK', NEW d \in Nodes, NEW e \in Nodes \ {d}, NodeInv(e),
           DeleteData(d) \/ DeleteMeta(d) \/ Crash(d) \/ Restart(d)
    PROVE  NodeInv(e)'
<1>1. ThreadsLeave(e)
    <2>1. CASE Crash(d)
        BY <2>1, CrashMoves
    <2>2. CASE ~ Crash(d)
        BY <2>2 DEF DeleteData, DeleteMeta, Restart, ThreadsLeave
    <2> QED
        BY <2>1, <2>2
<1>2. UNCHANGED <<up[e], content[e], tmp[e], dat[e], meta[e], deleting[e], sole[e], sure[e]>>
    BY DEF DeleteData, DeleteMeta, Crash, Restart, diskVars, historyVars, TypeOK
<1>3. \A q \in Requests : handle'[q][e] = handle[q][e]
    BY DEF DeleteData, DeleteMeta, Crash, Restart
<1> QED
    BY <1>1, <1>2, <1>3, ElsewhereFrame

LEMMA InitInv == Init => IInv
<1> SUFFICES ASSUME Init
             PROVE  IInv
    OBVIOUS
<1>1. TypeOK
    BY InitType
<1>2. ASSUME NEW d \in Nodes
      PROVE  NodeInv(d)
    <2>1. Writing(d) = {}
        BY DEF Init, Writing, Done
    <2> QED
        BY <2>1 DEF Init, NodeInv, HandlesOpen, SoleWrite, SureWrite, NoThreads
<1> QED
    BY <1>1, <1>2 DEF IInv

LEMMA NextInv == IInv /\ [Next]_vars => IInv'
<1> SUFFICES ASSUME IInv, [Next]_vars
             PROVE  IInv'
    OBVIOUS
<1>0. TypeOK /\ \A e \in Nodes : NodeInv(e)
    BY DEF IInv
<1>1. CASE \E r \in Requests : Request(r)
    <2>1. PICK r \in Requests : Request(r)
        BY <1>1
    <2>2. UNCHANGED <<diskVars, up, handle, deleting, historyVars>>
        BY <2>1 DEF Request
    <2>3. /\ pc' \in [Requests -> [Nodes -> Pcs]]
          /\ \A e \in Nodes : ThreadsLeave(e)
        BY <1>0, <2>1, RequestMoves
    <2>4. TypeOK'
        BY <1>0, <2>2, <2>3 DEF TypeOK, diskVars, historyVars
    <2>5. ASSUME NEW e \in Nodes
          PROVE  NodeInv(e)'
        BY <1>0, <2>2, <2>3, <2>4, NodeFrame DEF diskVars, historyVars
    <2> QED
        BY <2>4, <2>5 DEF IInv
<1>2. CASE \E r \in Requests, d \in Nodes : WriteStep(r, d) \/ DiskError(r, d)
    <2>1. PICK r \in Requests, d \in Nodes : WriteStep(r, d) \/ DiskError(r, d)
        BY <1>2
    <2>2. TypeOK'
        BY <1>0, <2>1, StepTypes
    <2>3. NodeInv(d)'
        BY <1>0, <2>1, <2>2, OpenTmpInv, WriteTmpInv, MetaInv, RenameTmpInv, DiskErrorInv, ForwardInv
           DEF WriteStep
    <2>4. ASSUME NEW e \in Nodes \ {d}
          PROVE  NodeInv(e)'
        BY <1>0, <2>1, <2>2, ThreadElsewhere
    <2> QED
        BY <2>2, <2>3, <2>4 DEF IInv
<1>3. CASE \E d \in Nodes : DeleteData(d) \/ DeleteMeta(d) \/ Crash(d) \/ Restart(d)
    <2>1. PICK d \in Nodes : DeleteData(d) \/ DeleteMeta(d) \/ Crash(d) \/ Restart(d)
        BY <1>3
    <2>2. TypeOK'
        BY <1>0, <2>1, NodeTypes
    <2>3. NodeInv(d)'
        BY <1>0, <2>1, <2>2, NodeStepInv
    <2>4. ASSUME NEW e \in Nodes \ {d}
          PROVE  NodeInv(e)'
        BY <1>0, <2>1, <2>2, NodeElsewhere
    <2> QED
        BY <2>2, <2>3, <2>4 DEF IInv
<1>4. CASE UNCHANGED vars
    BY <1>0, <1>4 DEF IInv, TypeOK, NodeInv, HandlesOpen, SoleWrite, SureWrite, NoThreads, Writing,
                      vars, diskVars, historyVars, boundVars
<1> QED
    BY <1>1, <1>2, <1>3, <1>4 DEF Next

LEMMA Invariance == FairSpec => []IInv
BY InitInv, NextInv, PTL DEF FairSpec

-----------------------------------------------------------------------------
(* What the DataNodes promise.                                             *)

\* CompleteWriteReadable, for every pipeline, any number of writes, deletes,
\* disk errors and crashes: a write that had the block to itself from OpenTmp to
\* its rename can be read until another write or a delete begins (WriteBlock,
\* CleanTempFiles).
THEOREM WritesReadable == FairSpec => []CompleteWriteReadable
<1>1. IInv => CompleteWriteReadable
    <2> SUFFICES ASSUME IInv, NEW d \in Nodes, sure[d] # None
                 PROVE  ReadBlock(d) = sure[d]
        BY DEF CompleteWriteReadable
    <2>1. sure[d] \in Requests
        BY DEF IInv, TypeOK
    <2>2. dat[d] # None /\ content[d][dat[d]] = sure[d] /\ meta[d] = sure[d]
        BY DEF IInv, NodeInv, SureWrite
    <2> QED
        BY <2>1, <2>2 DEF ReadBlock
<1> QED
    BY <1>1, Invariance, PTL

-----------------------------------------------------------------------------
(* Reports.  The thread of a request is at one DataNode at a time, so that  *)
(* a write only ends by its own steps; and of the writes that are under way *)
(* the last one leaves the block with its data and its metadata.            *)

\* The thread of r is about to enter WriteBlock of d, or is inside it.
Busy(r, d) == pc[r][d] \in {"start"} \cup WritingPcs

OneThread(r) ==
    /\ \A d, e \in Nodes : Busy(r, d) /\ Busy(r, e) => d = e
    /\ \A d, e \in Nodes : d = Pipeline[1] /\ pc[r][d] = "none" => ~ Busy(r, e)

\* The writes that have the metadata still to write.
Describing(d) == {r \in Requests : pc[r][d] \in {"opened", "written", "metaopen"}}

StoredInv(d) ==
    ~ cut[d] =>
        /\ deleting[d] => Writing(d) = {} /\ dat[d] = None
        /\ Writing(d) # {} => /\ tmp[d] # None \/ dat[d] # None
                              /\ meta[d] \in Requests \/ Describing(d) # {}
        /\ AtRest(d) => (Reported(d) <=> HasBlock(d))

ReportInv ==
    /\ cut \in [Nodes -> BOOLEAN]
    /\ \A r \in Requests : OneThread(r)
    /\ \A d \in Nodes : StoredInv(d)

\* The thread of r at d waits for the one it starts at s.
PassesTo(r, d, s) ==
    \A q \in Requests, e \in Nodes :
        pc'[q][e] = IF q = r /\ e = s THEN "start"
                    ELSE IF q = r /\ e = d THEN "waiting" ELSE pc[q][e]

\* HandlerWrite, after the local write: the thread of r leaves d, and may start at
\* one other node.
LEMMA AfterWritePasses ==
    ASSUME TypeOK, NEW r \in Requests, NEW d \in Nodes, NEW written, AfterWrite(r, d, written)
    PROVE  \/ \E x \in {"failed", "ok"} : MovesTo(r, d, x)
           \/ \E s : PassesTo(r, d, s)
<1>1. CASE \E x \in {"failed", "ok"} : pc' = [pc EXCEPT ![r][d] = x]
    BY <1>1, Moves DEF Pcs
<1>2. CASE pc' = [pc EXCEPT ![r][d] = "waiting", ![r][Successor(d)] = "start"]
    <2>1. PICK s : s = Successor(d)
        OBVIOUS
    <2> DEFINE mid == [pc EXCEPT ![r][d] = "waiting"]
    <2>2. /\ mid \in [Requests -> [Nodes -> Pcs]]
          /\ \A q \in Requests, e \in Nodes :
                mid[q][e] = IF q = r /\ e = d THEN "waiting" ELSE pc[q][e]
        BY DEF TypeOK, Pcs
    <2>3. pc' = [mid EXCEPT ![r][s] = "start"]
        BY <1>2, <2>1
    <2> HIDE DEF mid
    <2>4. \A q \in Requests, e \in Nodes :
             pc'[q][e] = IF q = r /\ e = s THEN "start" ELSE mid[q][e]
        <3>1. pc'[r] = [mid[r] EXCEPT ![s] = "start"]
            BY <2>2, <2>3
        <3>2. \A e \in Nodes : pc'[r][e] = IF e = s THEN "start" ELSE mid[r][e]
            BY <2>2, <3>1
        <3>3. \A q \in Requests \ {r} : pc'[q] = mid[q]
            BY <2>2, <2>3
        <3> QED
            BY <3>2, <3>3
    <2>5. PassesTo(r, d, s)
        BY <2>2, <2>4 DEF PassesTo
    <2> QED
        BY <2>5
<1> QED
    BY <1>1, <1>2 DEF AfterWrite

\* What a step of the thread of r at d does to the threads.
LEMMA StepMoves ==
    ASSUME TypeOK, NEW r \in Requests, NEW d \in Nodes, WriteStep(r, d) \/ DiskError(r, d)
    PROVE  \/ Busy(r, d) /\ \E x \in WritingPcs \cup {"failed", "ok", "waiting"} : MovesTo(r, d, x)
           \/ Busy(r, d) /\ \E s : PassesTo(r, d, s)
           \/ pc[r][d] = "waiting" /\ \E x \in {"failed", "ok"} : MovesTo(r, d, x)
<1>1. CASE OpenTmp(r, d) \/ WriteTmp(r, d) \/ OpenMeta(r, d) \/ WriteMeta(r, d)
    <2>1. Busy(r, d) /\ \E x \in WritingPcs : pc' = [pc EXCEPT ![r][d] = x]
        BY <1>1 DEF OpenTmp, WriteTmp, OpenMeta, WriteMeta, Busy, WritingPcs
    <2> QED
        BY <2>1, Moves DEF WritingPcs, Pcs
<1>2. CASE ForwardReply(r, d) \/ ForwardTimeout(r, d)
    <2>1. pc[r][d] = "waiting" /\ \E x \in {"failed", "ok"} : pc' = [pc EXCEPT ![r][d] = x]
        BY <1>2 DEF ForwardReply, ForwardTimeout
    <2> QED
        BY <2>1, Moves DEF Pcs
<1>3. CASE RenameTmp(r, d) \/ DiskError(r, d)
    <2>1. Busy(r, d) /\ \E written : AfterWrite(r, d, written)
        BY <1>3 DEF RenameTmp, DiskError, Busy, WritingPcs
    <2> QED
        BY <2>1, AfterWritePasses
<1> QED
    BY <1>1, <1>2, <1>3 DEF WriteStep

\* The thread of a request stays at one node.
LEMMA OneThreadStep ==
    ASSUME TypeOK, NEW q \in Requests, OneThread(q), [Next]_vars
    PROVE  OneThread(q)'
<1>1. CASE \A e \in Nodes : pc'[q][e] = pc[q][e] \/ pc'[q][e] = "failed"
    BY <1>1 DEF OneThread, Busy, WritingPcs
<1>2. ASSUME NEW r \in Requests, Request(r)
      PROVE  OneThread(q)'
    <2>1. PICK d : d = Pipeline[1]
        OBVIOUS
    <2>2. pc[r][d] = "none" /\ pc' = [pc EXCEPT ![r][d] = "start"]
        BY <1>2, <2>1 DEF Request
    <2>3. CASE d \notin Nodes \/ q # r
        <3>1. \A e \in Nodes : pc'[q][e] = pc[q][e]
            BY <2>2, <2>3 DEF TypeOK
        <3> QED
            BY <1>1, <3>1
    <2>4. CASE d \in Nodes /\ q = r
        <3>1. \A e \in Nodes : ~ Busy(q, e)
            BY <2>1, <2>2, <2>4 DEF OneThread
        <3>2. \A e \in Nodes : pc'[q][e] = IF e = d THEN "start" ELSE pc[q][e]
            BY <2>2, <2>4 DEF TypeOK
        <3> QED
            BY <2>1, <2>4, <3>1, <3>2 DEF OneThread, Busy, WritingPcs
    <2> QED
        BY <2>3, <2>4
<1>3. ASSUME NEW r \in Requests, NEW d \in Nodes, WriteStep(r, d) \/ DiskError(r, d)
      PROVE  OneThread(q)'
    <2>1. CASE q # r
        <3>1. \A e \in Nodes : pc'[q][e] = pc[q][e]
            BY <1>3, <2>1, StepMoves DEF MovesTo, PassesTo
        <3> QED
            BY <1>1, <3>1
    <2>2. CASE q = r /\ pc[r][d] = "waiting" /\ \E x \in {"failed", "ok"} : MovesTo(r, d, x)
        <3>1. \A e \in Nodes : pc'[q][e] = pc[q][e] \/ pc'[q][e] \in {"failed", "ok"}
            BY <2>2 DEF MovesTo
        <3> QED
            BY <3>1 DEF OneThread, Busy, WritingPcs
    <2>3. CASE q = r /\ Busy(r, d)
        <3>1. \A e \in Nodes \ {d} : ~ Busy(q, e)
            BY <2>3 DEF OneThread
        <3>2. \A e \in Nodes : e = Pipeline[1] => pc[q][e] # "none"
            BY <2>3 DEF OneThread
        <3>3. CASE \E x \in WritingPcs \cup {"failed", "ok", "waiting"} : MovesTo(r, d, x)
            <4>1. PICK x \in WritingPcs \cup {"failed", "ok", "waiting"} : MovesTo(r, d, x)
                BY <3>3
            <4>2. \A e \in Nodes : pc'[q][e] = IF e = d THEN x ELSE pc[q][e]
                BY <2>3, <4>1 DEF MovesTo
            <4> QED
                BY <3>1, <3>2, <4>1, <4>2 DEF OneThread, Busy, WritingPcs
        <3>4. CASE \E s : PassesTo(r, d, s)
            <4>1. PICK s : PassesTo(r, d, s)
                BY <3>4
            <4>2. \A e \in Nodes : pc'[q][e] = IF e = s THEN "start"
                                              ELSE IF e = d THEN "waiting" ELSE pc[q][e]
                BY <2>3, <4>1 DEF PassesTo
            <4> QED
                BY <3>1, <3>2, <4>2 DEF OneThread, Busy, WritingPcs
        <3> QED
            BY <1>3, <2>3, <3>3, <3>4, StepMoves DEF Busy, WritingPcs
    <2> QED
        BY <1>3, <2>1, <2>2, <2>3, StepMoves
<1>4. ASSUME NEW d \in Nodes, DeleteData(d) \/ DeleteMeta(d) \/ Crash(d) \/ Restart(d)
      PROVE  OneThread(q)'
    <2>1. \A e \in Nodes : pc'[q][e] = pc[q][e] \/ pc'[q][e] = "failed"
        BY <1>4 DEF DeleteData, DeleteMeta, Crash, Restart, TypeOK
    <2> QED
        BY <1>1, <2>1
<1>5. CASE UNCHANGED vars
    BY <1>1, <1>5 DEF vars
<1> QED
    BY <1>2, <1>3, <1>4, <1>5 DEF Next

-----------------------------------------------------------------------------
(* Who is inside WriteBlock of a node, after a step elsewhere.              *)

KeepsWriting(e) ==
    \A q \in Requests : \/ pc'[q][e] = pc[q][e]
                        \/ pc[q][e] \notin WritingPcs /\ pc'[q][e] \notin WritingPcs

\* A step that leaves the files of e alone, and the threads inside its WriteBlock.
LEMMA StoredFrame ==
    ASSUME TypeOK, TypeOK', NEW e \in Nodes, StoredInv(e), KeepsWriting(e),
           UNCHANGED <<tmp[e], dat[e], meta[e], deleting[e], cut[e]>>
    PROVE  StoredInv(e)'
<1>1. Writing(e)' = Writing(e) /\ Describing(e)' = Describing(e)
    <2>1. \A q \in Requests : pc'[q][e] \in WritingPcs <=> pc[q][e] \in WritingPcs
        BY DEF KeepsWriting
    <2>2. Describing(e)' = Describing(e)
        BY DEF KeepsWriting, Describing, WritingPcs
    <2> HIDE DEF WritingPcs
    <2> QED
        BY <2>1, <2>2, WritingDef
<1> QED
    BY <1>1 DEF StoredInv, AtRest, Reported, HasBlock

\* Seen from another node, a step of r moves nobody into WriteBlock or out of it.
LEMMA KeepsElsewhere ==
    ASSUME TypeOK, NEW r \in Requests, NEW d \in Nodes, NEW e \in Nodes \ {d}, OneThread(r),
           WriteStep(r, d) \/ DiskError(r, d)
    PROVE  KeepsWriting(e)
<1>1. CASE \E x \in WritingPcs \cup {"failed", "ok", "waiting"} : MovesTo(r, d, x)
    BY <1>1 DEF MovesTo, KeepsWriting
<1>2. CASE Busy(r, d) /\ \E s : PassesTo(r, d, s)
    <2>1. pc[r][e] \notin WritingPcs
        BY <1>2 DEF OneThread, Busy
    <2>2. \A q \in Requests : \/ pc'[q][e] = pc[q][e]
                              \/ q = r /\ pc'[q][e] = "start"
        BY <1>2 DEF PassesTo
    <2> QED
        BY <2>1, <2>2 DEF KeepsWriting, WritingPcs
<1> QED
    BY <1>1, <1>2, StepMoves

\* The last write to leave finds the data there and has written the metadata, or
\* another write still will.
LEMMA RenameStored ==
    ASSUME TypeOK, TypeOK', NEW r \in Requests, NEW d \in Nodes, StoredInv(d), RenameTmp(r, d),
           OneThread(r)
    PROVE  StoredInv(d)'
<1>1. r \in Writing(d) /\ None \notin Requests /\ pc[r][d] = "described"
    BY WritingDef, DataNodeAssumption DEF RenameTmp, WritingPcs
<1>2. pc'[r][d] \notin WritingPcs /\ \A q \in Requests \ {r} : pc'[q][d] = pc[q][d]
    <2>1. PICK written : AfterWrite(r, d, written)
        BY DEF RenameTmp
    <2>2. \A q \in Requests \ {r} : pc'[q][d] = pc[q][d]
        BY <2>1, AfterWritePasses DEF MovesTo, PassesTo
    <2> QED
        BY <2>1, <2>2, AfterWriteMoves
<1>3. Describing(d)' = Describing(d) /\ Describing(d)' \subseteq Writing(d)'
    <2>1. Describing(d)' = Describing(d)
        BY <1>1, <1>2 DEF Describing, WritingPcs
    <2>2. Describing(d)' \subseteq Writing(d)'
        BY WritingDef DEF Describing, WritingPcs
    <2> QED
        BY <2>1, <2>2
<1>4. UNCHANGED <<meta, deleting, cut>> /\ dat'[d] = Renamed(d)
    BY DEF RenameTmp, TypeOK
<1>5. SUFFICES ASSUME ~ cut[d]
               PROVE  /\ ~ deleting[d] /\ dat'[d] # None
                      /\ meta'[d] \in Requests \/ Writing(d)' # {}
                      /\ meta'[d] \in Requests \/ Describing(d)' # {}
    BY <1>4, <1>5 DEF StoredInv, AtRest, Reported, HasBlock
<1>6. ~ deleting[d] /\ (tmp[d] # None \/ dat[d] # None)
    BY <1>1, <1>5 DEF StoredInv
<1>7. meta[d] \in Requests \/ Describing(d) # {}
    BY <1>1, <1>5 DEF StoredInv
<1> QED
    BY <1>3, <1>4, <1>6, <1>7 DEF Renamed

LEMMA ThreadStored ==
    ASSUME TypeOK, TypeOK', NEW r \in Requests, NEW d \in Nodes, StoredInv(d), OneThread(r),
           cut \in [Nodes -> BOOLEAN], WriteStep(r, d) \/ DiskError(r, d)
    PROVE  StoredInv(d)'
<1>0. None \notin Requests
    BY DataNodeAssumption
<1>1. CASE OpenTmp(r, d)
    <2>1. MovesTo(r, d, "opened")
        BY <1>1, Moves DEF OpenTmp, Pcs
    <2>2. r \in Writing(d)' /\ r \in Describing(d)'
        BY <2>1, WritingDef DEF MovesTo, Describing, WritingPcs
    <2>3. /\ tmp'[d] # None /\ deleting' = deleting
          /\ cut'[d] = (~ AtRest(d) /\ (cut[d] \/ deleting[d]))
        BY <1>0, <1>1 DEF OpenTmp, TypeOK
    <2>4. ~ cut'[d] => ~ deleting[d]
        BY <2>3 DEF AtRest
    <2> QED
        BY <2>2, <2>3, <2>4 DEF StoredInv, AtRest
<1>2. CASE WriteTmp(r, d)
    <2>1. MovesTo(r, d, "written") /\ pc[r][d] = "opened"
        BY <1>2, Moves DEF WriteTmp, Pcs
    <2>2. UNCHANGED <<tmp, dat, meta, deleting, cut>>
        BY <1>2 DEF WriteTmp, historyVars
    <2>3. Describing(d)' = Describing(d)
        BY <2>1 DEF Describing, MovesTo
    <2>4. Writing(d)' = Writing(d)
        BY <2>1, WritingDef, WritingStays DEF WritingPcs
    <2> QED
        BY <2>2, <2>3, <2>4 DEF StoredInv, AtRest, Reported, HasBlock
<1>3. CASE OpenMeta(r, d)
    <2>1. MovesTo(r, d, "metaopen") /\ pc[r][d] = "written"
        BY <1>3, Moves DEF OpenMeta, Pcs
    <2>2. UNCHANGED <<tmp, dat, deleting, cut>>
        BY <1>3 DEF OpenMeta, historyVars
    <2>3. r \in Describing(d)'
        BY <2>1 DEF Describing, MovesTo
    <2>4. Writing(d)' = Writing(d) /\ r \in Writing(d)
        BY <2>1, WritingDef, WritingStays DEF WritingPcs
    <2> QED
        BY <2>2, <2>3, <2>4 DEF StoredInv, AtRest
<1>4. CASE WriteMeta(r, d)
    <2>1. MovesTo(r, d, "described") /\ pc[r][d] = "metaopen"
        BY <1>4, Moves DEF WriteMeta, Pcs
    <2>2. UNCHANGED <<tmp, dat, deleting, cut>> /\ meta'[d] = r
        BY <1>4 DEF WriteMeta, historyVars, TypeOK
    <2>4. Writing(d)' = Writing(d) /\ r \in Writing(d)
        BY <2>1, WritingDef, WritingStays DEF WritingPcs
    <2> QED
        BY <2>2, <2>4 DEF StoredInv, AtRest
<1>5. CASE RenameTmp(r, d)
    BY <1>5, RenameStored
<1>6. CASE ForwardReply(r, d) \/ ForwardTimeout(r, d)
    <2>1. \E x \in {"ok", "failed"} : pc[r][d] = "waiting" /\ pc' = [pc EXCEPT ![r][d] = x]
        BY <1>6 DEF ForwardReply, ForwardTimeout
    <2>2. KeepsWriting(d)
        BY <2>1 DEF KeepsWriting, WritingPcs, TypeOK
    <2>3. UNCHANGED <<tmp, dat, meta, deleting, cut>>
        BY <1>6 DEF ForwardReply, ForwardTimeout, diskVars, historyVars
    <2> QED
        BY <2>2, <2>3, StoredFrame
<1>7. CASE DiskError(r, d)
    <2>1. CASE pc[r][d] = "written"
        <3>1. cut'[d]
            BY <1>7, <2>1 DEF DiskError
        <3> QED
            BY <3>1 DEF StoredInv
    <2>2. CASE pc[r][d] = "start"
        <3>1. UNCHANGED <<dat, meta, deleting, tmp[d], cut[d]>>
            BY <1>7, <2>2 DEF DiskError, TypeOK
        <3>2. PICK written : AfterWrite(r, d, written)
            BY <1>7 DEF DiskError
        <3>3. /\ pc'[r][d] \notin WritingPcs
              /\ \A q \in Requests \ {r} : pc'[q][d] = pc[q][d]
            BY <3>2, AfterWritePasses, AfterWriteMoves DEF MovesTo, PassesTo
        <3>4. KeepsWriting(d)
            BY <2>2, <3>3 DEF KeepsWriting, WritingPcs
        <3> QED
            BY <3>1, <3>4, StoredFrame
    <2> QED
        BY <1>7, <2>1, <2>2 DEF DiskError
<1> QED
    BY <1>1, <1>2, <1>3, <1>4, <1>5, <1>6, <1>7 DEF WriteStep

\* Deletion, crash and restart of d.
LEMMA NodeStored ==
    ASSUME TypeOK, TypeOK', NEW d \in Nodes, StoredInv(d), NoThreads(d),
           cut \in [Nodes -> BOOLEAN],
           DeleteData(d) \/ DeleteMeta(d) \/ Crash(d) \/ Restart(d)
    PROVE  StoredInv(d)'
<1>0. None \notin Requests
    BY DataNodeAssumption
<1>1. CASE DeleteData(d)
    <2>1. /\ pc' = pc /\ cut'[d] = (Writing(d) # {})
          /\ dat'[d] = None /\ deleting'[d]
        BY <1>1 DEF DeleteData, TypeOK
    <2>2. Writing(d)' = Writing(d)
        BY <2>1 DEF Writing
    <2> QED
        BY <2>1, <2>2 DEF StoredInv, AtRest
<1>2. CASE DeleteMeta(d)
    <2>1. /\ UNCHANGED <<dat, pc, cut>> /\ deleting[d] /\ ~ deleting'[d]
          /\ meta'[d] = None
        BY <1>2 DEF DeleteMeta, historyVars, TypeOK
    <2>2. Writing(d)' = Writing(d)
        BY <2>1 DEF Writing
    <2> QED
        BY <1>0, <2>1, <2>2 DEF StoredInv, AtRest, Reported, HasBlock
<1>3. CASE Crash(d)
    <2>1. /\ UNCHANGED <<dat, meta>> /\ ~ deleting'[d]
          /\ cut'[d] = (cut[d] \/ ~ AtRest(d))
        BY <1>3 DEF Crash, diskVars, TypeOK
    <2>2. Writing(d)' = {}
        BY <1>3, CrashMoves, WritingDef
    <2> QED
        BY <2>1, <2>2 DEF StoredInv, AtRest, Reported, HasBlock
<1>4. CASE Restart(d)
    <2>1. Writing(d) = {}
        BY <1>4 DEF Restart, NoThreads
    <2>2. UNCHANGED <<dat, meta, pc, deleting, cut>>
        BY <1>4 DEF Restart, historyVars
    <2>3. Writing(d)' = {}
        BY <2>1, <2>2 DEF Writing
    <2> QED
        BY <2>1, <2>2, <2>3 DEF StoredInv, AtRest, Reported, HasBlock
<1> QED
    BY <1>1, <1>2, <1>3, <1>4

LEMMA ReportInit == Init => ReportInv
<1> SUFFICES ASSUME Init
             PROVE  ReportInv
    OBVIOUS
<1>1. \A r \in Requests : OneThread(r)
    BY DEF Init, OneThread, Busy, WritingPcs
<1>2. \A d \in Nodes : StoredInv(d)
    BY DataNodeAssumption DEF Init, StoredInv, Writing, Done, Reported, HasBlock
<1> QED
    BY <1>1, <1>2 DEF Init, ReportInv

LEMMA ReportStep ==
    ASSUME IInv, IInv', ReportInv, [Next]_vars
    PROVE  ReportInv'
<1>0. /\ TypeOK /\ TypeOK' /\ \A d \in Nodes : NoThreads(d) /\ StoredInv(d)
      /\ \A r \in Requests : OneThread(r)
      /\ cut \in [Nodes -> BOOLEAN]
    BY DEF IInv, ReportInv, NodeInv
<1>1. \A r \in Requests : OneThread(r)'
    BY <1>0, OneThreadStep
<1>2. cut' \in [Nodes -> BOOLEAN] /\ \A d \in Nodes : StoredInv(d)'
    <2>1. ASSUME NEW r \in Requests, Request(r)
          PROVE  cut' = cut /\ \A d \in Nodes : StoredInv(d)'
        <3>1. UNCHANGED <<tmp, dat, meta, deleting, cut>>
            BY <2>1 DEF Request, diskVars, historyVars
        <3>2. ASSUME NEW e \in Nodes
              PROVE  KeepsWriting(e)
            <4>1. PICK d : d = Pipeline[1]
                OBVIOUS
            <4>2. pc[r][d] = "none" /\ pc' = [pc EXCEPT ![r][d] = "start"]
                BY <2>1, <4>1 DEF Request
            <4> QED
                BY <1>0, <4>2 DEF TypeOK, KeepsWriting, WritingPcs
        <3> QED
            BY <1>0, <3>1, <3>2, StoredFrame
    <2>2. ASSUME NEW r \in Requests, NEW d \in Nodes, WriteStep(r, d) \/ DiskError(r, d)
          PROVE  cut' \in [Nodes -> BOOLEAN] /\ \A e \in Nodes : StoredInv(e)'
        <3>1. /\ cut' \in [Nodes -> BOOLEAN]
              /\ \A e \in Nodes \ {d} : cut'[e] = cut[e]
            <4>1. cut' = cut \/ \E b \in BOOLEAN : cut' = [cut EXCEPT ![d] = b]
                <5>1. CASE OpenTmp(r, d)
                    BY <1>0, <5>1 DEF OpenTmp, AtRest, TypeOK
                <5>2. CASE DiskError(r, d)
                    BY <1>0, <5>2 DEF DiskError
                <5>3. CASE ~ OpenTmp(r, d) /\ ~ DiskError(r, d)
                    BY <2>2, <5>3 DEF WriteStep, WriteTmp, OpenMeta, WriteMeta, RenameTmp,
                                      ForwardReply, ForwardTimeout, historyVars
                <5> QED
                    BY <5>1, <5>2, <5>3
            <4> QED
                BY <1>0, <4>1
        <3>2. ASSUME NEW e \in Nodes \ {d}
              PROVE  StoredInv(e)'
            <4>1. KeepsWriting(e)
                BY <1>0, <2>2, KeepsElsewhere
            <4>2. UNCHANGED <<tmp[e], dat[e], meta[e], deleting[e]>>
                BY <1>0, <2>2, ElsewhereFiles
            <4> QED
                BY <1>0, <3>1, <4>1, <4>2, StoredFrame
        <3>3. StoredInv(d)'
            BY <1>0, <2>2, ThreadStored
        <3> QED
            BY <3>1, <3>2, <3>3
    <2>3. ASSUME NEW d \in Nodes, DeleteData(d) \/ DeleteMeta(d) \/ Crash(d) \/ Restart(d)
          PROVE  cut' \in [Nodes -> BOOLEAN] /\ \A e \in Nodes : StoredInv(e)'
        <3>1. /\ cut' \in [Nodes -> BOOLEAN]
              /\ \A e \in Nodes \ {d} : cut'[e] = cut[e]
            <4>1. cut' = cut \/ \E b \in BOOLEAN : cut' = [cut EXCEPT ![d] = b]
                <5>1. CASE DeleteData(d)
                    <6>1. (Writing(d) # {}) \in BOOLEAN
                        OBVIOUS
                    <6> QED
                        BY <5>1, <6>1 DEF DeleteData
                <5>2. CASE Crash(d)
                    <6>1. (cut[d] \/ ~ AtRest(d)) \in BOOLEAN
                        OBVIOUS
                    <6> QED
                        BY <5>2, <6>1 DEF Crash
                <5>3. CASE DeleteMeta(d) \/ Restart(d)
                    BY <5>3 DEF DeleteMeta, Restart, historyVars
                <5> QED
                    BY <2>3, <5>1, <5>2, <5>3
            <4> QED
                BY <1>0, <4>1
        <3>2. ASSUME NEW e \in Nodes \ {d}
              PROVE  StoredInv(e)'
            <4>1. KeepsWriting(e)
                BY <1>0, <2>3 DEF DeleteData, DeleteMeta, Crash, Restart, KeepsWriting, TypeOK
            <4>2. UNCHANGED <<tmp[e], dat[e], meta[e], deleting[e]>>
                BY <1>0, <2>3 DEF DeleteData, DeleteMeta, Crash, Restart, diskVars, TypeOK
            <4> QED
                BY <1>0, <3>1, <4>1, <4>2, StoredFrame
        <3>3. StoredInv(d)'
            BY <1>0, <2>3, NodeStored
        <3> QED
            BY <3>1, <3>2, <3>3
    <2>4. CASE UNCHANGED vars
        BY <1>0, <2>4 DEF vars, diskVars, historyVars, StoredInv, AtRest, Reported, HasBlock,
                          Writing, Describing
    <2> QED
        BY <1>0, <2>1, <2>2, <2>3, <2>4 DEF Next
<1> QED
    BY <1>1, <1>2 DEF ReportInv

\* ReportedIsStored, for every pipeline, any number of writes, deletes, disk errors
\* and crashes: at rest, and unless a write or a delete was cut short or the two
\* met, the DataNode reports the block exactly when it has its data (WriteBlock,
\* DeleteBlock, CleanTempFiles, ListAllBlocks).
THEOREM ReportsRight == FairSpec => []ReportedIsStored
<1>1. ReportInv => ReportedIsStored
    BY DEF ReportInv, StoredInv, ReportedIsStored
<1> QED
    BY <1>1, Invariance, ReportInit, ReportStep, PTL DEF FairSpec
=============================================================================
