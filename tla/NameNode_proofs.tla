--------------------------- MODULE NameNode_proofs ---------------------------
(***************************************************************************)
(* Proofs about NameNode, for every set of paths, requests and DataNodes   *)
(* and for every bound.                                                    *)
(*                                                                         *)
(* The three properties rest on what the requests in flight hold: an       *)
(* allocation owns an id that is in no file yet, and between reading a     *)
(* file and writing it back it holds a second copy of the file's list.     *)
(***************************************************************************)
EXTENDS NameNode, TLAPS

CallPcs      == {"new", "log", "drop", "checked", "committed", "read", "answer", "done"}
CallOps      == {"none", "create", "createFailed", "delete", "deleteFailed", "allocate"}
CallRecord   == [pc : CallPcs, op : CallOps, path : Paths \cup {"none"}, ids : Seq(Nat), id : Nat]
BlockInfo    == [locs : SUBSET DataNodes, sized : BOOLEAN]
EditRecord   == [op : {"create", "delete"}, path : Paths, whole : BOOLEAN]
RepairEntry  == [id : Nat, existing : SUBSET DataNodes, dead : SUBSET DataNodes]

RepairType   == [pc : {"idle", "scanned", "copying"}, queue : SUBSET RepairEntry, id : Nat,
                 targets : SUBSET DataNodes]

\* The types of the variables that a step changes; a request under way names a path.
TypeOK ==
    /\ DOMAIN files \subseteq Paths
    /\ files \in [DOMAIN files -> Seq(Nat)]
    /\ DOMAIN blocks \subseteq Nat
    /\ blocks \in [DOMAIN blocks -> BlockInfo]
    /\ nextId \in Nat \ {0}
    /\ status \in [DataNodes -> {"UNKNOWN", "ALIVE", "SUSPECT", "DEAD"}]
    /\ editLog \in Seq(EditRecord)
    /\ call \in [Calls -> CallRecord]
    /\ \A c \in Calls : call[c].pc \notin {"new", "done"} => call[c].path \in Paths
    /\ report \in [pc : {"idle", "located", "read"}, id : Nat, locs : SUBSET DataNodes]
    /\ repair \in RepairType
    /\ acked \subseteq Paths
    /\ deleted \subseteq Paths
    /\ allocated \in [Calls -> Nat]

-----------------------------------------------------------------------------
(* What the requests in flight hold.                                       *)

\* The block lists of p: the file's, and the copies that allocations write back.
Lists(p) ==
    {files[q] : q \in DOMAIN files \cap {p}}
        \cup {call[c].ids : c \in {d \in Calls : At(d, "allocate", "read") /\ call[d].path = p}}

\* The allocation has committed its block and has not yet entered it in the file.
Pending(c) == At(c, "allocate", "committed") \/ At(c, "allocate", "read")

\* Every id in use was given out since the last restart.
IdsGivenOut ==
    /\ \A p \in Paths : \A s \in Lists(p) : \A i \in DOMAIN s : s[i] < nextId
    /\ \A c \in Calls : Pending(c) => call[c].id < nextId

\* The id of a pending allocation is its own: no other one has it and no list does.
PendingIdUnlisted ==
    /\ \A c, d \in Calls : Pending(c) /\ Pending(d) /\ call[c].id = call[d].id => c = d
    /\ \A c \in Calls : Pending(c) =>
          \A p \in Paths : \A s \in Lists(p) : \A i \in DOMAIN s : s[i] # call[c].id

\* An id is at one place of a list, and in the lists of one path.
ListsDisjoint ==
    \A p, q \in Paths : \A s \in Lists(p), t \in Lists(q) :
        \A i \in DOMAIN s, j \in DOMAIN t :
            s[i] = t[j] => p = q /\ (s = t => i = j)

\* The blocks of a path that nobody asked to delete are known, those about to
\* be entered in it included.
ListedKnown ==
    \A p \in Paths \ deleted :
        /\ \A s \in Lists(p) : \A i \in DOMAIN s : s[i] \in DOMAIN blocks
        /\ \A c \in Calls : Pending(c) /\ call[c].path = p => call[c].id \in DOMAIN blocks

OwnershipInv == IdsGivenOut /\ PendingIdUnlisted /\ ListsDisjoint /\ ListedKnown

\* A file about to be logged as created is there, one about to be dropped was
\* asked to be deleted.
RequestsInv ==
    \A c \in Calls :
        /\ call[c].pc = "log" /\ call[c].op \in {"create", "createFailed"}
              => call[c].path \in DOMAIN files \cup deleted
        /\ At(c, "delete", "drop") => call[c].path \in deleted

IInv == TypeOK /\ OwnershipInv /\ RequestsInv /\ AckedFileRecovered

-----------------------------------------------------------------------------
(* Type correctness.                                                       *)

\* Append keeps a sequence over its set.
LEMMA AppendTyped ==
    ASSUME NEW S, NEW s \in Seq(S), NEW e \in S
    PROVE  Append(s, e) \in Seq(S)
OBVIOUS

\* The records of a request, written out.
LEMMA CallTypes ==
    /\ NewCall = [pc |-> "new", op |-> "none", path |-> "none", ids |-> <<>>, id |-> 0]
    /\ DoneCall = [pc |-> "done", op |-> "none", path |-> "none", ids |-> <<>>, id |-> 0]
    /\ NewCall \in CallRecord /\ DoneCall \in CallRecord
<1>1. NewCall = [pc |-> "new", op |-> "none", path |-> "none", ids |-> <<>>, id |-> 0]
    BY DEF NewCall
<1>2. DoneCall = [pc |-> "done", op |-> "none", path |-> "none", ids |-> <<>>, id |-> 0]
    BY DEF NewCall, DoneCall
<1>3. NewCall \in CallRecord /\ DoneCall \in CallRecord
    BY <1>1, <1>2 DEF CallRecord, CallPcs, CallOps
<1> QED
    BY <1>1, <1>2, <1>3

\* A step of request c leaves the other requests where they are.
OnlyCall(c) ==
    /\ call' \in [Calls -> CallRecord]
    /\ \A d \in Calls \ {c} : call'[d] = call[d]

\* How each step of a request changes its record.
LEMMA CallSteps ==
    ASSUME TypeOK, NEW c \in Calls, NEW p \in Paths
    PROVE  /\ CreateFile(c, p) =>
                /\ OnlyCall(c)
                /\ call'[c].op = IF p \notin DOMAIN files THEN "create" ELSE "createFailed"
                /\ call'[c].pc = "log" /\ call'[c].path = p
           /\ DeleteBlocks(c, p) =>
                /\ OnlyCall(c)
                /\ call'[c].path = p
                /\ \/ p \in DOMAIN files /\ call'[c].op = "delete" /\ call'[c].pc = "drop"
                   \/ p \notin DOMAIN files /\ call'[c].op = "deleteFailed" /\ call'[c].pc = "log"
           /\ Allocate(c, p) =>
                /\ OnlyCall(c)
                /\ call'[c].pc \in {"checked", "done"}
                /\ call'[c].pc = "checked" => call'[c].path = p
           /\ DeleteFile(c) \/ UpdateFile(c) =>
                /\ OnlyCall(c)
                /\ call'[c].pc = IF call[c].op = "delete" THEN "log" ELSE "answer"
                /\ call'[c].op = call[c].op /\ call'[c].path = call[c].path
                /\ call'[c].id = call[c].id
           /\ AppendEditLog(c) \/ AnswerAllocate(c) => OnlyCall(c) /\ call'[c] = DoneCall
           /\ CommitBlock(c) =>
                /\ OnlyCall(c)
                /\ \/ call'[c] = DoneCall /\ UNCHANGED <<blocks, nextId>>
                   \/ /\ call'[c].pc = "committed" /\ call'[c].op = "allocate"
                      /\ call'[c].path = call[c].path /\ call'[c].id = nextId
                      /\ nextId' = nextId + 1
                      /\ \E selected \in SUBSET DataNodes :
                            blocks' = PutBlock(nextId, [locs |-> selected, sized |-> FALSE])
           /\ ReadFile(c) =>
                /\ OnlyCall(c)
                /\ call'[c].op = call[c].op /\ call'[c].path = call[c].path
                /\ call'[c].id = call[c].id
                /\ \/ call'[c].pc = "answer"
                   \/ /\ call'[c].pc = "read"
                      /\ call[c].path \in DOMAIN files /\ call'[c].ids = files[call[c].path]
<1> USE DEF OnlyCall
<1>0. /\ call \in [Calls -> CallRecord]
      /\ call[c] \in CallRecord
    BY DEF TypeOK
<1>a. ASSUME NEW r \in CallRecord, call' = [call EXCEPT ![c] = r]
      PROVE  OnlyCall(c) /\ call'[c] = r
    BY <1>0, <1>a
<1>b. ASSUME NEW x \in CallPcs, call' = [call EXCEPT ![c].pc = x]
      PROVE  /\ OnlyCall(c)
             /\ call'[c].pc = x /\ call'[c].op = call[c].op /\ call'[c].path = call[c].path
             /\ call'[c].ids = call[c].ids /\ call'[c].id = call[c].id
    <2>1. [call[c] EXCEPT !.pc = x] \in CallRecord
        BY <1>0 DEF CallRecord
    <2> QED
        BY <1>0, <1>b, <2>1 DEF CallRecord
<1>n. NewCall \in CallRecord
    BY CallTypes
<1>c. ASSUME NEW o \in CallOps, NEW x \in CallPcs,
             call' = [call EXCEPT ![c] = [NewCall EXCEPT !.op = o, !.pc = x, !.path = p]]
      PROVE  /\ OnlyCall(c)
             /\ call'[c].op = o /\ call'[c].pc = x /\ call'[c].path = p
    <2> DEFINE r == [NewCall EXCEPT !.op = o, !.pc = x, !.path = p]
    <2>1. r \in CallRecord
        BY <1>n DEF CallRecord
    <2>2. r.op = o /\ r.pc = x /\ r.path = p
        BY <1>n DEF CallRecord
    <2>3. call' = [call EXCEPT ![c] = r]
        BY <1>c
    <2> HIDE DEF r
    <2>4. OnlyCall(c) /\ call'[c] = r
        BY <2>1, <2>3, <1>a
    <2> QED
        BY <2>2, <2>4
<1>1. ASSUME CreateFile(c, p)
      PROVE  /\ OnlyCall(c)
             /\ call'[c].op = IF p \notin DOMAIN files THEN "create" ELSE "createFailed"
             /\ call'[c].pc = "log" /\ call'[c].path = p
    <2> DEFINE o == IF p \notin DOMAIN files THEN "create" ELSE "createFailed"
    <2>1. o \in CallOps /\ "log" \in CallPcs
        BY DEF CallOps, CallPcs
    <2>2. call' = [call EXCEPT ![c] = [NewCall EXCEPT !.op = o, !.pc = "log", !.path = p]]
        BY <1>1 DEF CreateFile
    <2> HIDE DEF o
    <2>3. OnlyCall(c) /\ call'[c].op = o /\ call'[c].pc = "log" /\ call'[c].path = p
        BY <2>1, <2>2, <1>c
    <2> QED
        BY <2>3 DEF o
<1>2. ASSUME DeleteBlocks(c, p)
      PROVE  /\ OnlyCall(c)
             /\ call'[c].path = p
             /\ \/ p \in DOMAIN files /\ call'[c].op = "delete" /\ call'[c].pc = "drop"
                \/ p \notin DOMAIN files /\ call'[c].op = "deleteFailed" /\ call'[c].pc = "log"
    <2>1. {"delete", "deleteFailed"} \subseteq CallOps /\ {"drop", "log"} \subseteq CallPcs
        BY DEF CallOps, CallPcs
    <2>2. CASE p \in DOMAIN files
        <3>1. call' = [call EXCEPT ![c] =
                          [NewCall EXCEPT !.op = "delete", !.pc = "drop", !.path = p]]
            BY <1>2, <2>2 DEF DeleteBlocks
        <3> QED
            BY <2>1, <2>2, <3>1, <1>c
    <2>3. CASE p \notin DOMAIN files
        <3>1. call' = [call EXCEPT ![c] =
                          [NewCall EXCEPT !.op = "deleteFailed", !.pc = "log", !.path = p]]
            BY <1>2, <2>3 DEF DeleteBlocks
        <3> QED
            BY <2>1, <2>3, <3>1, <1>c
    <2> QED
        BY <2>2, <2>3
<1>3. ASSUME Allocate(c, p)
      PROVE  /\ OnlyCall(c)
             /\ call'[c].pc \in {"checked", "done"}
             /\ call'[c].pc = "checked" => call'[c].path = p
    <2> DEFINE r == [NewCall EXCEPT !.op = "allocate", !.path = p, !.pc = "checked"]
    <2>1. r \in CallRecord
        BY <1>n DEF CallRecord, CallOps, CallPcs
    <2>2. r.path = p /\ r.pc = "checked"
        BY <1>n DEF CallRecord
    <2>3. call' = [call EXCEPT ![c] = IF p \in DOMAIN files THEN r ELSE DoneCall]
        BY <1>3 DEF Allocate
    <2> HIDE DEF r
    <2>4. OnlyCall(c) /\ (call'[c] = r \/ call'[c] = DoneCall)
        BY <2>1, <2>3, <1>a, CallTypes
    <2>5. DoneCall.pc = "done"
        BY CallTypes
    <2> QED
        BY <2>2, <2>4, <2>5
<1>4. ASSUME DeleteFile(c) \/ UpdateFile(c)
      PROVE  /\ OnlyCall(c)
             /\ call'[c].pc = IF call[c].op = "delete" THEN "log" ELSE "answer"
             /\ call'[c].op = call[c].op /\ call'[c].path = call[c].path
             /\ call'[c].id = call[c].id
    <2>1. {"log", "answer"} \subseteq CallPcs
        BY DEF CallPcs
    <2>2. CASE DeleteFile(c)
        BY <2>1, <2>2, <1>b DEF DeleteFile, At
    <2>3. CASE UpdateFile(c)
        BY <2>1, <2>3, <1>b DEF UpdateFile, At
    <2> QED
        BY <1>4, <2>2, <2>3
<1>5. ASSUME AppendEditLog(c) \/ AnswerAllocate(c)
      PROVE  OnlyCall(c) /\ call'[c] = DoneCall
    BY <1>5, <1>a, CallTypes DEF AppendEditLog, AnswerAllocate
<1>6. ASSUME CommitBlock(c)
      PROVE  /\ OnlyCall(c)
             /\ \/ call'[c] = DoneCall /\ UNCHANGED <<blocks, nextId>>
                \/ /\ call'[c].pc = "committed" /\ call'[c].op = "allocate"
                   /\ call'[c].path = call[c].path /\ call'[c].id = nextId
                   /\ nextId' = nextId + 1
                   /\ \E selected \in SUBSET DataNodes :
                         blocks' = PutBlock(nextId, [locs |-> selected, sized |-> FALSE])
    <2>1. CASE call' = [call EXCEPT ![c] = DoneCall] /\ UNCHANGED <<blocks, nextId>>
        BY <2>1, <1>a, CallTypes
    <2>2. ASSUME NEW selected \in SUBSET DataNodes,
                 blocks' = PutBlock(nextId, [locs |-> selected, sized |-> FALSE]),
                 nextId' = NextBlockId,
                 call' = [call EXCEPT ![c].pc = "committed", ![c].id = nextId]
          PROVE  /\ OnlyCall(c)
                 /\ call'[c].pc = "committed" /\ call'[c].op = "allocate"
                 /\ call'[c].path = call[c].path /\ call'[c].id = nextId
                 /\ nextId' = nextId + 1
        <3> DEFINE r == [call[c] EXCEPT !.pc = "committed", !.id = nextId]
        <3>1. r \in CallRecord
            BY <1>0 DEF TypeOK, CallRecord, CallPcs
        <3>2. r.pc = "committed" /\ r.op = call[c].op /\ r.path = call[c].path /\ r.id = nextId
            BY <1>0 DEF CallRecord
        <3>3. call' = [call EXCEPT ![c] = r]
            BY <2>2, <1>0
        <3> HIDE DEF r
        <3>4. OnlyCall(c) /\ call'[c] = r
            BY <3>1, <3>3, <1>a
        <3> QED
            BY <3>2, <3>4, <2>2, <1>6 DEF NextBlockId, CommitBlock, At
    <2> QED
        BY <1>6, <2>1, <2>2 DEF CommitBlock, Alive
<1>7. ASSUME ReadFile(c)
      PROVE  /\ OnlyCall(c)
             /\ call'[c].op = call[c].op /\ call'[c].path = call[c].path
             /\ call'[c].id = call[c].id
             /\ \/ call'[c].pc = "answer"
                \/ /\ call'[c].pc = "read"
                   /\ call[c].path \in DOMAIN files /\ call'[c].ids = files[call[c].path]
    <2>1. CASE call[c].path \notin DOMAIN files
        BY <1>7, <2>1, <1>b DEF ReadFile, CallPcs
    <2>2. CASE call[c].path \in DOMAIN files
        <3> DEFINE r == [call[c] EXCEPT !.pc = "read", !.ids = files[call[c].path]]
        <3>1. r \in CallRecord
            BY <1>0, <2>2 DEF TypeOK, CallRecord, CallPcs
        <3>2. /\ r.pc = "read" /\ r.op = call[c].op /\ r.path = call[c].path
              /\ r.id = call[c].id /\ r.ids = files[call[c].path]
            BY <1>0 DEF CallRecord
        <3>3. call' = [call EXCEPT ![c] = r]
            BY <1>7, <2>2, <1>0 DEF ReadFile
        <3> HIDE DEF r
        <3>4. OnlyCall(c) /\ call'[c] = r
            BY <3>1, <3>3, <1>a
        <3> QED
            BY <3>2, <3>4, <2>2
    <2> QED
        BY <2>1, <2>2
<1> QED
    BY <1>1, <1>2, <1>3, <1>4, <1>5, <1>6, <1>7

\* Entering a file or a block keeps the tables typed.
LEMMA PutTypes ==
    ASSUME TypeOK
    PROVE  /\ \A p \in Paths : \A ids \in Seq(Nat) :
                /\ DOMAIN PutFile(p, ids) \subseteq Paths
                /\ PutFile(p, ids) \in [DOMAIN PutFile(p, ids) -> Seq(Nat)]
           /\ \A id \in Nat : \A info \in BlockInfo :
                /\ DOMAIN PutBlock(id, info) \subseteq Nat
                /\ PutBlock(id, info) \in [DOMAIN PutBlock(id, info) -> BlockInfo]
           /\ \A id \in Nat : \A d \in DataNodes :
                /\ DOMAIN WithLocation(id, d) \subseteq Nat
                /\ WithLocation(id, d) \in [DOMAIN WithLocation(id, d) -> BlockInfo]
<1>1. \A p \in Paths : \A ids \in Seq(Nat) :
                /\ DOMAIN PutFile(p, ids) \subseteq Paths
                /\ PutFile(p, ids) \in [DOMAIN PutFile(p, ids) -> Seq(Nat)]
    BY DEF TypeOK, PutFile
<1>2. \A id \in Nat : \A info \in BlockInfo :
                /\ DOMAIN PutBlock(id, info) \subseteq Nat
                /\ PutBlock(id, info) \in [DOMAIN PutBlock(id, info) -> BlockInfo]
    BY DEF TypeOK, PutBlock
<1>3. ASSUME NEW id \in Nat, NEW d \in DataNodes
      PROVE  /\ DOMAIN WithLocation(id, d) \subseteq Nat
             /\ WithLocation(id, d) \in [DOMAIN WithLocation(id, d) -> BlockInfo]
    <2> DEFINE info == IF id \in DOMAIN blocks
                       THEN [blocks[id] EXCEPT !.locs = @ \cup {d}]
                       ELSE [locs |-> {d}, sized |-> FALSE]
    <2>1. CASE id \in DOMAIN blocks
        <3>1. blocks[id] \in BlockInfo
            BY <2>1 DEF TypeOK
        <3>2. info = [blocks[id] EXCEPT !.locs = blocks[id].locs \cup {d}]
            BY <2>1
        <3>3. [blocks[id] EXCEPT !.locs = blocks[id].locs \cup {d}] \in BlockInfo
            BY <3>1 DEF BlockInfo
        <3> HIDE DEF info
        <3>4. info \in BlockInfo
            BY <3>2, <3>3
        <3> QED
            BY <3>4, <1>2 DEF WithLocation, info
    <2>2. CASE id \notin DOMAIN blocks
        <3>1. info = [locs |-> {d}, sized |-> FALSE]
            BY <2>2
        <3>2. [locs |-> {d}, sized |-> FALSE] \in BlockInfo
            BY DEF BlockInfo
        <3> QED
            BY <3>1, <3>2, <1>2 DEF WithLocation
    <2> QED
        BY <2>1, <2>2
<1> QED
    BY <1>1, <1>2, <1>3

LEMMA InitType == Init => TypeOK
BY CallTypes DEF Init, TypeOK, NewCall, IdleReport, IdleRepair, RepairType

\* The steps of client requests.
LEMMA RequestTypes ==
    ASSUME TypeOK, NEW c \in Calls, NEW p \in Paths,
           \/ CreateFile(c, p) \/ DeleteBlocks(c, p) \/ Allocate(c, p)
           \/ DeleteFile(c) \/ AppendEditLog(c) \/ CommitBlock(c)
           \/ ReadFile(c) \/ UpdateFile(c) \/ AnswerAllocate(c)
    PROVE  TypeOK'
<1>a. /\ call' \in [Calls -> CallRecord]
      /\ \A x \in Calls : call'[x].pc \notin {"new", "done"} => call'[x].path \in Paths
    <2>1. OnlyCall(c)
        BY CallSteps
    <2>2. call[c].pc \notin {"new", "done"} => call[c].path \in Paths
        BY DEF TypeOK
    <2>3. call'[c].pc \notin {"new", "done"} => call'[c].path \in Paths
        <3>1. CASE CreateFile(c, p) \/ DeleteBlocks(c, p) \/ Allocate(c, p)
            BY <3>1, CallSteps
        <3>2. CASE DeleteFile(c) \/ UpdateFile(c) \/ CommitBlock(c) \/ ReadFile(c)
            <4>1. call[c].path \in Paths
                BY <3>2, <2>2 DEF DeleteFile, UpdateFile, CommitBlock, ReadFile, At
            <4>2. DoneCall.pc = "done"
                BY CallTypes
            <4>3. call'[c].path = call[c].path \/ call'[c] = DoneCall
                BY <3>2, CallSteps
            <4> QED
                BY <4>1, <4>2, <4>3
        <3>3. CASE AppendEditLog(c) \/ AnswerAllocate(c)
            BY <3>3, CallSteps, CallTypes
        <3> QED
            BY <3>1, <3>2, <3>3
    <2> QED
        BY <2>1, <2>3 DEF OnlyCall, TypeOK
<1>1. CASE CreateFile(c, p)
    <2>1. <<>> \in Seq(Nat)
        OBVIOUS
    <2>2. DOMAIN files' \subseteq Paths /\ files' \in [DOMAIN files' -> Seq(Nat)]
        BY <1>1, <2>1, PutTypes DEF TypeOK, CreateFile
    <2> QED
        BY <1>1, <1>a, <2>2 DEF TypeOK, CreateFile, boundVars, historyVars
<1>2. CASE DeleteBlocks(c, p)
    BY <1>2, <1>a DEF TypeOK, DeleteBlocks, DropBlocks, boundVars
<1>3. CASE Allocate(c, p) \/ ReadFile(c)
    BY <1>3, <1>a DEF TypeOK, Allocate, ReadFile, metaVars, boundVars, historyVars
<1>4. CASE DeleteFile(c)
    BY <1>4, <1>a DEF TypeOK, DeleteFile, DropFile, boundVars, historyVars
<1>5. CASE AppendEditLog(c)
    <2>1. call[c].path \in Paths
        BY <1>5 DEF TypeOK, AppendEditLog
    <2>2. Record(c, TRUE) \in EditRecord
        BY <2>1 DEF Record, EditRecord
    <2>3. editLog \in Seq(EditRecord) /\ editLog' = Append(editLog, Record(c, TRUE))
        BY <1>5 DEF TypeOK, AppendEditLog
    <2>4. editLog' \in Seq(EditRecord)
        BY <2>2, <2>3, AppendTyped
    <2>5. acked' \subseteq Paths
        <3>1. acked \subseteq Paths
            BY DEF TypeOK
        <3>2. acked' \in {acked, acked \cup {call[c].path}}
            BY <1>5 DEF AppendEditLog
        <3> QED
            BY <2>1, <3>1, <3>2
    <2> QED
        BY <1>5, <1>a, <2>4, <2>5 DEF TypeOK, AppendEditLog, metaVars, boundVars
<1>6. CASE CommitBlock(c)
    <2>1. /\ nextId' \in Nat \ {0} /\ DOMAIN blocks' \subseteq Nat
          /\ blocks' \in [DOMAIN blocks' -> BlockInfo]
        <3>1. CASE UNCHANGED <<blocks, nextId>>
            BY <3>1 DEF TypeOK
        <3>2. ASSUME nextId' = nextId + 1, NEW selected \in SUBSET DataNodes,
                     blocks' = PutBlock(nextId, [locs |-> selected, sized |-> FALSE])
              PROVE  /\ nextId' \in Nat \ {0} /\ DOMAIN blocks' \subseteq Nat
                     /\ blocks' \in [DOMAIN blocks' -> BlockInfo]
            <4>1. [locs |-> selected, sized |-> FALSE] \in BlockInfo
                BY DEF BlockInfo
            <4>2. nextId \in Nat \ {0}
                BY DEF TypeOK
            <4> DEFINE table == PutBlock(nextId, [locs |-> selected, sized |-> FALSE])
            <4>3. DOMAIN table \subseteq Nat /\ table \in [DOMAIN table -> BlockInfo]
                BY <4>1, <4>2, PutTypes
            <4>4. blocks' = table
                BY <3>2
            <4> HIDE DEF table
            <4>5. nextId' \in Nat \ {0}
                BY <3>2, <4>2
            <4> QED
                BY <4>3, <4>4, <4>5
        <3> QED
            BY <1>6, <3>1, <3>2, CallSteps
    <2> QED
        BY <1>6, <1>a, <2>1 DEF TypeOK, CommitBlock, boundVars, historyVars
<1>7. CASE UpdateFile(c)
    <2>1. call[c] \in CallRecord /\ call[c].path \in Paths
        BY <1>7 DEF TypeOK, UpdateFile, At
    <2>2. Append(call[c].ids, call[c].id) \in Seq(Nat)
        BY <2>1 DEF CallRecord
    <2>3. DOMAIN files' \subseteq Paths /\ files' \in [DOMAIN files' -> Seq(Nat)]
        BY <1>7, <2>1, <2>2, PutTypes DEF TypeOK, UpdateFile
    <2> QED
        BY <1>7, <1>a, <2>3 DEF TypeOK, UpdateFile, boundVars, historyVars
<1>8. CASE AnswerAllocate(c)
    <2>1. call[c].id \in Nat
        BY DEF TypeOK, CallRecord
    <2> QED
        BY <1>8, <1>a, <2>1 DEF TypeOK, AnswerAllocate, metaVars, boundVars
<1> QED
    BY <1>1, <1>2, <1>3, <1>4, <1>5, <1>6, <1>7, <1>8

\* The steps of DataNodes.
LEMMA DataNodeTypes ==
    ASSUME TypeOK, NEW d \in DataNodes, NEW id \in Nat \ {0},
           \/ RegisterDN(d) \/ Heartbeat(d) \/ CheckDataNodeHealth(d)
           \/ BlockReport(d, id) \/ Replicate(d)
    PROVE  TypeOK'
<1>1. CASE RegisterDN(d) \/ Heartbeat(d) \/ CheckDataNodeHealth(d)
    BY <1>1 DEF TypeOK, RegisterDN, Heartbeat, CheckDataNodeHealth, metaVars, boundVars, historyVars
<1>2. CASE BlockReport(d, id)
    BY <1>2, PutTypes DEF TypeOK, BlockReport, historyVars
<1>3. CASE Replicate(d)
    <2>1. DOMAIN blocks' \subseteq Nat /\ blocks' \in [DOMAIN blocks' -> BlockInfo]
        <3>1. repair.id \in Nat /\ blocks' \in {blocks, WithLocation(repair.id, d)}
            BY <1>3 DEF TypeOK, RepairType, Replicate
        <3>2. DOMAIN blocks \subseteq Nat /\ blocks \in [DOMAIN blocks -> BlockInfo]
            BY DEF TypeOK
        <3>3. CASE blocks' = blocks
            BY <3>2, <3>3
        <3>4. CASE blocks' = WithLocation(repair.id, d)
            <4>1. /\ DOMAIN WithLocation(repair.id, d) \subseteq Nat
                  /\ WithLocation(repair.id, d) \in [DOMAIN WithLocation(repair.id, d) -> BlockInfo]
                BY <3>1, PutTypes
            <4> QED
                BY <3>4, <4>1
        <3> QED
            BY <3>1, <3>3, <3>4
    <2>2. repair' \in RepairType
        <3>1. repair \in RepairType
            BY DEF TypeOK
        <3>2. repair' = [repair EXCEPT !.targets = repair.targets \ {d},
                           !.pc = IF repair.targets = {d} THEN "scanned" ELSE repair.pc]
            BY <1>3 DEF Replicate
        <3> QED
            BY <3>1, <3>2 DEF RepairType
    <2> QED
        BY <1>3, <2>1, <2>2 DEF TypeOK, Replicate, boundVars, historyVars
<1> QED
    BY <1>1, <1>2, <1>3

\* The steps of a report under way and of the FaultDetector.
LEMMA DetectorTypes ==
    ASSUME TypeOK, NEW u,
           ReportRead \/ ReportUpdate \/ Scan \/ SelectTargets(u) \/ RepairDone
    PROVE  TypeOK'
<1>1. CASE ReportRead
    BY <1>1 DEF TypeOK, ReportRead, IdleReport, BlockInfo, metaVars, boundVars, historyVars
<1>2. CASE ReportUpdate
    BY <1>2, PutTypes DEF TypeOK, ReportUpdate, IdleReport, BlockInfo, boundVars, historyVars
<1>3. CASE Scan
    <2>1. PICK under \in SUBSET DOMAIN blocks :
             repair' = [IdleRepair EXCEPT !.pc = "scanned",
                        !.queue = {[id |-> b, existing |-> blocks[b].locs \cap Alive,
                                    dead |-> blocks[b].locs \ Alive] : b \in under}]
        BY <1>3 DEF Scan
    <2> DEFINE queue == {[id |-> b, existing |-> blocks[b].locs \cap Alive,
                          dead |-> blocks[b].locs \ Alive] : b \in under}
    <2>2. ASSUME NEW b \in under
          PROVE  [id |-> b, existing |-> blocks[b].locs \cap Alive,
                  dead |-> blocks[b].locs \ Alive] \in RepairEntry
        <3>1. b \in Nat /\ blocks[b] \in BlockInfo
            BY DEF TypeOK
        <3> QED
            BY <3>1 DEF BlockInfo, RepairEntry
    <2>3. queue \subseteq RepairEntry
        BY <2>2
    <2>4. repair' = [IdleRepair EXCEPT !.pc = "scanned", !.queue = queue]
        BY <2>1
    <2> HIDE DEF queue
    <2>5. repair' \in RepairType
        <3>1. IdleRepair \in RepairType
            BY DEF IdleRepair, RepairType
        <3> QED
            BY <2>3, <2>4, <3>1 DEF RepairType
    <2> QED
        BY <1>3, <2>5 DEF TypeOK, Scan, metaVars, historyVars
<1>4. CASE SelectTargets(u)
    <2>1. PICK targets \in SUBSET DataNodes :
             repair' = [repair EXCEPT !.queue = repair.queue \ {u}, !.id = u.id,
                    !.targets = IF u.existing = {} THEN {} ELSE targets,
                    !.pc = IF u.existing = {} \/ targets = {} THEN "scanned" ELSE "copying"]
        BY <1>4 DEF SelectTargets, Alive
    <2>2. repair \in RepairType /\ u.id \in Nat
        BY <1>4 DEF TypeOK, SelectTargets, RepairType, RepairEntry
    <2>3. repair' \in RepairType
        BY <2>1, <2>2 DEF RepairType
    <2> QED
        BY <1>4, <2>3 DEF TypeOK, SelectTargets, metaVars, boundVars, historyVars
<1>5. CASE RepairDone
    BY <1>5 DEF TypeOK, RepairDone, IdleRepair, RepairType, metaVars, boundVars, historyVars
<1> QED
    BY <1>1, <1>2, <1>3, <1>4, <1>5

\* A restart, the replay of edit.log included.
LEMMA RestartTypes ==
    ASSUME TypeOK, Restart
    PROVE  TypeOK'
<1>1. ASSUME NEW log \in {editLog} \cup {Append(editLog, Record(c, FALSE)) :
                                    c \in {x \in Calls : call[x].pc = "log"}}
      PROVE  log \in Seq(EditRecord) /\ ReplayedPaths(log) \subseteq Paths
    <2>1. \A c \in {x \in Calls : call[x].pc = "log"} : Record(c, FALSE) \in EditRecord
        BY DEF TypeOK, Record, EditRecord, CallRecord, CallPcs, CallOps
    <2>2. log \in Seq(EditRecord)
        <3>1. editLog \in Seq(EditRecord)
            BY DEF TypeOK
        <3> QED
            BY <2>1, <3>1, AppendTyped
    <2>3. \A i \in 1..Len(log) : log[i].path \in Paths
        <3>1. \A i \in 1..Len(log) : log[i] \in EditRecord
            BY <2>2
        <3> QED
            BY <3>1 DEF EditRecord
    <2> QED
        BY <2>2, <2>3 DEF ReplayedPaths, Replayable
<1>2. editLog' \in Seq(EditRecord) /\ DOMAIN files' \subseteq Paths
      /\ files' \in [DOMAIN files' -> Seq(Nat)]
    <2>1. <<>> \in Seq(Nat)
        OBVIOUS
    <2>2. PICK log \in {editLog} \cup {Append(editLog, Record(c, FALSE)) :
                                    c \in {x \in Calls : call[x].pc = "log"}} :
             editLog' = log /\ files' = [p \in ReplayedPaths(log) |-> <<>>]
        BY DEF Restart
    <2> QED
        BY <1>1, <2>1, <2>2
<1> QED
    BY <1>2, CallTypes
       DEF TypeOK, Restart, IdleReport, IdleRepair, RepairType, historyVars

LEMMA NextType ==
    ASSUME TypeOK, [Next]_vars
    PROVE  TypeOK'
<1>1. CASE UNCHANGED vars
    BY <1>1 DEF TypeOK, vars, metaVars, historyVars
<1>2. CASE Next
    <2>1. \A id \in {allocated[c] : c \in Calls} \ {0} : id \in Nat \ {0}
        BY DEF TypeOK
    <2>2. CASE \E c \in Calls, p \in Paths :
                  CreateFile(c, p) \/ DeleteBlocks(c, p) \/ Allocate(c, p)
        BY <2>2, RequestTypes
    <2>3. CASE \E c \in Calls : \/ DeleteFile(c) \/ AppendEditLog(c) \/ CommitBlock(c)
                                \/ ReadFile(c) \/ UpdateFile(c) \/ AnswerAllocate(c)
        <3>1. Paths # {}
            BY <2>3 DEF TypeOK, DeleteFile, AppendEditLog, CommitBlock, ReadFile,
                        UpdateFile, AnswerAllocate, At
        <3> QED
            BY <2>3, <3>1, RequestTypes
    <2>4. CASE \E d \in DataNodes :
                  \/ RegisterDN(d) \/ Heartbeat(d) \/ CheckDataNodeHealth(d) \/ Replicate(d)
                  \/ \E id \in {allocated[c] : c \in Calls} \ {0} : BlockReport(d, id)
        BY <2>1, <2>4, DataNodeTypes, 1 \in Nat \ {0}
    <2>5. CASE ReportRead \/ ReportUpdate \/ Scan \/ RepairDone
                  \/ \E u \in repair.queue : SelectTargets(u)
        BY <2>5, DetectorTypes
    <2> QED
        BY <1>2, <2>2, <2>3, <2>4, <2>5, RestartTypes DEF Next
<1> QED
    BY <1>1, <1>2

\* Every variable keeps its type: in particular a list of blocks stays a
\* sequence of ids and every request under way names a path.
THEOREM TypeCorrect == Spec => []TypeOK
BY InitType, NextType, PTL DEF Spec

-----------------------------------------------------------------------------
(* Ownership of blocks.                                                    *)

LEMMA ListsTyped ==
    ASSUME TypeOK, NEW p \in Paths, NEW s \in Lists(p)
    PROVE  s \in Seq(Nat)
BY DEF TypeOK, Lists, CallRecord

\* Every list after the step was one before it, or is empty.
ListsFrom == \A p \in Paths : \A s \in Lists(p)' : s \in Lists(p) \/ s = <<>>

\* Every pending allocation was pending before the step.
PendingFrom ==
    \A c \in Calls : Pending(c)' =>
        Pending(c) /\ call'[c].id = call[c].id /\ call'[c].path = call[c].path

\* A step of c that changes files only by entering or dropping empty ones, and
\* after which c holds no new id, makes no list and no pending allocation.
LEMMA RequestFrame ==
    ASSUME TypeOK, NEW c \in Calls, OnlyCall(c),
           \A q \in DOMAIN files' : (q \in DOMAIN files /\ files'[q] = files[q]) \/ files'[q] = <<>>,
           Pending(c)' => /\ Pending(c) /\ call'[c].id = call[c].id /\ call'[c].path = call[c].path
                          /\ At(c, "allocate", "read")' => call'[c].ids \in Lists(call[c].path)
    PROVE  ListsFrom /\ PendingFrom
<1>1. PendingFrom
    BY DEF PendingFrom, Pending, At, OnlyCall
<1>2. ASSUME NEW p \in Paths, NEW s \in Lists(p)'
      PROVE  s \in Lists(p) \/ s = <<>>
    <2>1. CASE p \in DOMAIN files' /\ s = files'[p]
        BY <2>1 DEF Lists
    <2>2. ASSUME NEW d \in Calls, At(d, "allocate", "read")', call'[d].path = p, s = call'[d].ids
          PROVE  s \in Lists(p)
        <3>1. CASE d = c
            BY <2>2, <3>1 DEF Pending
        <3>2. CASE d # c
            BY <2>2, <3>2 DEF Lists, At, OnlyCall
        <3> QED
            BY <3>1, <3>2
    <2> QED
        BY <2>1, <2>2 DEF Lists
<1> QED
    BY <1>1, <1>2 DEF ListsFrom

\* With no new list and no new pending allocation, ids stay where they are.
LEMMA OwnershipFrame ==
    ASSUME TypeOK, IdsGivenOut, PendingIdUnlisted, ListsDisjoint,
           nextId' \in Nat, nextId' >= nextId, ListsFrom, PendingFrom
    PROVE  IdsGivenOut' /\ PendingIdUnlisted' /\ ListsDisjoint'
<1>0. DOMAIN <<>> = {}
    OBVIOUS
<1>a. nextId \in Nat /\ \A c \in Calls : call[c].id \in Nat
    BY DEF TypeOK, CallRecord
<1>1. IdsGivenOut'
    <2>1. ASSUME NEW p \in Paths, NEW s \in Lists(p)', NEW i \in DOMAIN s
          PROVE  s[i] < nextId'
        <3>1. s \in Lists(p)
            BY <1>0 DEF ListsFrom
        <3>2. s[i] \in Nat /\ s[i] < nextId
            BY <3>1, ListsTyped DEF IdsGivenOut
        <3> QED
            BY <1>a, <3>2
    <2>2. ASSUME NEW c \in Calls, Pending(c)'
          PROVE  call'[c].id < nextId'
        <3>1. call'[c].id = call[c].id /\ call[c].id < nextId
            BY <2>2 DEF PendingFrom, IdsGivenOut
        <3> QED
            BY <1>a, <3>1
    <2> QED
        BY <2>1, <2>2 DEF IdsGivenOut
<1>2. PendingIdUnlisted'
    BY <1>0 DEF PendingIdUnlisted, PendingFrom, ListsFrom
<1>3. ListsDisjoint'
    BY <1>0 DEF ListsDisjoint, ListsFrom
<1> QED
    BY <1>1, <1>2, <1>3

\* And blocks that are listed stay known when none is dropped.
LEMMA KnownFrame ==
    ASSUME ListedKnown, ListsFrom, PendingFrom,
           deleted \subseteq deleted', DOMAIN blocks \subseteq DOMAIN blocks'
    PROVE  ListedKnown'
<1>0. DOMAIN <<>> = {}
    OBVIOUS
<1> QED
    BY <1>0 DEF ListedKnown, ListsFrom, PendingFrom

\* HandleDeleteFile: no list but those of p has a block of p, and none is pending.
LEMMA DeleteBlocksKnown ==
    ASSUME TypeOK, OwnershipInv, NEW c \in Calls, NEW p \in Paths, DeleteBlocks(c, p),
           ListsFrom, PendingFrom
    PROVE  ListedKnown'
<1>1. CASE p \notin DOMAIN files
    BY <1>1, KnownFrame DEF DeleteBlocks, OwnershipInv
<1>2. CASE p \in DOMAIN files
    <2>1. files[p] \in Lists(p) /\ files[p] \in Seq(Nat)
        BY <1>2 DEF Lists, TypeOK
    <2>2. DOMAIN blocks' = DOMAIN blocks \ IdsOf(p) /\ deleted' = deleted \cup {p}
        BY <1>2 DEF DeleteBlocks, DropBlocks
    <2>3. ASSUME NEW q \in Paths, q # p, NEW s \in Lists(q), NEW i \in DOMAIN s
          PROVE  s[i] \notin IdsOf(p)
        BY <2>1, <2>3 DEF IdsOf, OwnershipInv, ListsDisjoint
    <2>4. ASSUME NEW d \in Calls, Pending(d)
          PROVE  call[d].id \notin IdsOf(p)
        BY <2>1, <2>4 DEF IdsOf, OwnershipInv, PendingIdUnlisted
    <2>5. DOMAIN <<>> = {}
        OBVIOUS
    <2> QED
        BY <2>2, <2>3, <2>4, <2>5 DEF ListedKnown, OwnershipInv, ListsFrom, PendingFrom
<1> QED
    BY <1>1, <1>2

\* CommitBlock: the id that next_block_id_ gives out is in no list and nobody's.
LEMMA CommitBlockOwnership ==
    ASSUME TypeOK, OwnershipInv, NEW c \in Calls, CommitBlock(c)
    PROVE  OwnershipInv'
<1>0. call[c].path \in Paths /\ call[c].pc = "checked"
    BY DEF TypeOK, CommitBlock, At
<1>1. OnlyCall(c) /\ files' = files /\ deleted' = deleted
    BY <1>0, CallSteps DEF CommitBlock, historyVars
<1>2. CASE call'[c] = DoneCall /\ UNCHANGED <<blocks, nextId>>
    <2>1. ~ Pending(c)'
        BY <1>2, CallTypes DEF Pending, At
    <2>2. ListsFrom /\ PendingFrom
        BY <1>1, <2>1, RequestFrame
    <2>3. nextId' \in Nat /\ nextId' >= nextId
        BY <1>2 DEF TypeOK
    <2> QED
        BY <1>1, <1>2, <2>2, <2>3, OwnershipFrame, KnownFrame DEF OwnershipInv
<1>3. CASE /\ call'[c].pc = "committed" /\ call'[c].op = "allocate"
           /\ call'[c].path = call[c].path /\ call'[c].id = nextId
           /\ nextId' = nextId + 1
           /\ \E selected \in SUBSET DataNodes :
                 blocks' = PutBlock(nextId, [locs |-> selected, sized |-> FALSE])
    <2>1. DOMAIN blocks' = DOMAIN blocks \cup {nextId}
        BY <1>3 DEF PutBlock
    <2>2. nextId \in Nat /\ nextId' \in Nat /\ nextId < nextId'
        BY <1>3 DEF TypeOK
    <2>3. ASSUME NEW p \in Paths, NEW s \in Lists(p)'
          PROVE  s \in Lists(p) /\ \A i \in DOMAIN s : s[i] \in Nat /\ s[i] < nextId
        <3>1. s \in Lists(p)
            BY <1>0, <1>1, <1>3 DEF Lists, At, OnlyCall
        <3> QED
            BY <3>1, ListsTyped DEF OwnershipInv, IdsGivenOut
    <2>4. ASSUME NEW d \in Calls, Pending(d)'
          PROVE  \/ d = c
                 \/ /\ Pending(d) /\ call'[d] = call[d]
                    /\ call[d].id \in Nat /\ call[d].id < nextId
        <3>1. d # c => Pending(d) /\ call'[d] = call[d]
            BY <1>1, <2>4 DEF Pending, At, OnlyCall
        <3> QED
            BY <3>1 DEF OwnershipInv, IdsGivenOut, TypeOK, CallRecord
    <2>5. IdsGivenOut'
        <3>1. ASSUME NEW p \in Paths, NEW s \in Lists(p)', NEW i \in DOMAIN s
              PROVE  s[i] < nextId'
            BY <2>2, <2>3
        <3>2. ASSUME NEW d \in Calls, Pending(d)'
              PROVE  call'[d].id < nextId'
            BY <2>2, <2>4, <3>2, <1>3
        <3> QED
            BY <3>1, <3>2 DEF IdsGivenOut
    <2>6. PendingIdUnlisted'
        <3>1. ASSUME NEW d \in Calls, NEW e \in Calls, Pending(d)', Pending(e)',
                     call'[d].id = call'[e].id
              PROVE  d = e
            BY <1>3, <2>2, <2>4, <3>1 DEF OwnershipInv, PendingIdUnlisted
        <3>2. ASSUME NEW d \in Calls, Pending(d)', NEW p \in Paths, NEW s \in Lists(p)',
                     NEW i \in DOMAIN s
              PROVE  s[i] # call'[d].id
            BY <1>3, <2>2, <2>3, <2>4, <3>2 DEF OwnershipInv, PendingIdUnlisted
        <3> QED
            BY <3>1, <3>2 DEF PendingIdUnlisted
    <2>7. ListsDisjoint'
        BY <2>3 DEF OwnershipInv, ListsDisjoint
    <2>8. ListedKnown'
        BY <1>1, <1>3, <2>1, <2>3, <2>4 DEF OwnershipInv, ListedKnown
    <2> QED
        BY <2>5, <2>6, <2>7, <2>8 DEF OwnershipInv
<1> QED
    BY <1>0, <1>2, <1>3, CallSteps

\* UpdateFile: the copy written back is a list of the same path, and the id
\* added to it is the one that was in no list.
LEMMA UpdateFileOwnership ==
    ASSUME TypeOK, OwnershipInv, NEW c \in Calls, UpdateFile(c)
    PROVE  OwnershipInv'
<1> DEFINE p == call[c].path
           old == call[c].ids
           id == call[c].id
           new == Append(old, id)
<1>0. /\ p \in Paths /\ old \in Seq(Nat) /\ id \in Nat
      /\ call[c].pc = "read" /\ call[c].op = "allocate" /\ Pending(c)
      /\ old \in Lists(p)
    BY DEF TypeOK, UpdateFile, At, CallRecord, Pending, Lists
<1>1. /\ OnlyCall(c) /\ call'[c].pc = "answer"
      /\ deleted' = deleted /\ blocks' = blocks /\ nextId' = nextId
    BY <1>0, CallSteps DEF UpdateFile, historyVars
<1>2. \A k \in DOMAIN new : \/ k \in DOMAIN old /\ new[k] = old[k]
                            \/ k = Len(old) + 1 /\ new[k] = id
    BY <1>0
<1>3. Len(old) + 1 \in DOMAIN new /\ new[Len(old) + 1] = id
    BY <1>0
<1>4. ASSUME NEW q \in Paths, NEW s \in Lists(q)'
      PROVE  s \in Lists(q) \/ (q = p /\ s = new)
    <2>1. CASE q \in DOMAIN files' /\ s = files'[q]
        <3>1. files' = files \/ files' = PutFile(p, new)
            BY DEF UpdateFile
        <3> HIDE DEF p, new
        <3>2. (q = p /\ s = new) \/ (q \in DOMAIN files /\ s = files[q])
            BY <2>1, <3>1 DEF PutFile
        <3> QED
            BY <3>2 DEF Lists
    <2>2. ASSUME NEW d \in Calls, At(d, "allocate", "read")', call'[d].path = q, s = call'[d].ids
          PROVE  s \in Lists(q)
        <3>1. d # c
            BY <1>1, <2>2 DEF At
        <3> QED
            BY <1>1, <2>2, <3>1 DEF Lists, At, OnlyCall
    <2> HIDE DEF p, new
    <2> QED
        BY <2>1, <2>2 DEF Lists
<1>5. ASSUME NEW d \in Calls, Pending(d)'
      PROVE  Pending(d) /\ call'[d] = call[d] /\ call[d].id # id
    <2>1. d # c
        BY <1>1, <1>5 DEF Pending, At
    <2>2. Pending(d) /\ call'[d] = call[d]
        BY <1>1, <1>5, <2>1 DEF Pending, At, OnlyCall
    <2> QED
        BY <1>0, <2>1, <2>2 DEF OwnershipInv, PendingIdUnlisted
<1>6. \A q \in Paths : \A s \in Lists(q) : s # new /\ \A i \in DOMAIN s : s[i] # id
    BY <1>0, <1>3 DEF OwnershipInv, PendingIdUnlisted
<1> HIDE DEF p, old, id, new
<1>7. IdsGivenOut'
    <2>1. ASSUME NEW q \in Paths, NEW s \in Lists(q)', NEW i \in DOMAIN s
          PROVE  s[i] < nextId'
        <3>1. CASE s \in Lists(q)
            BY <1>1, <3>1 DEF OwnershipInv, IdsGivenOut
        <3>2. CASE s = new
            BY <1>0, <1>1, <1>2, <3>2 DEF OwnershipInv, IdsGivenOut, id
        <3> QED
            BY <1>4, <3>1, <3>2
    <2> QED
        BY <1>1, <1>5, <2>1 DEF OwnershipInv, IdsGivenOut
<1>8. PendingIdUnlisted'
    <2>1. ASSUME NEW d \in Calls, Pending(d)', NEW q \in Paths, NEW s \in Lists(q)',
                 NEW i \in DOMAIN s
          PROVE  s[i] # call'[d].id
        <3>1. CASE s \in Lists(q)
            BY <1>5, <2>1, <3>1 DEF OwnershipInv, PendingIdUnlisted
        <3>2. CASE s = new
            BY <1>0, <1>2, <1>5, <2>1, <3>2 DEF OwnershipInv, PendingIdUnlisted
        <3> QED
            BY <1>4, <3>1, <3>2
    <2> QED
        BY <1>5, <2>1 DEF OwnershipInv, PendingIdUnlisted
<1>9. ListsDisjoint'
    <2> SUFFICES ASSUME NEW q \in Paths, NEW r \in Paths, NEW s \in Lists(q)', NEW t \in Lists(r)',
                        NEW i \in DOMAIN s, NEW j \in DOMAIN t, s[i] = t[j]
                 PROVE  q = r /\ (s = t => i = j)
        BY DEF ListsDisjoint
    <2>1. CASE s \in Lists(q) /\ t \in Lists(r)
        BY <2>1 DEF OwnershipInv, ListsDisjoint
    <2>2. CASE s \in Lists(q) /\ r = p /\ t = new
        BY <1>0, <1>2, <1>6, <2>2 DEF OwnershipInv, ListsDisjoint
    <2>3. CASE q = p /\ s = new /\ t \in Lists(r)
        BY <1>0, <1>2, <1>6, <2>3 DEF OwnershipInv, ListsDisjoint
    <2>4. CASE q = p /\ s = new /\ r = p /\ t = new
        BY <1>0, <1>2, <1>6, <2>4 DEF OwnershipInv, ListsDisjoint
    <2> QED
        BY <1>4, <2>1, <2>2, <2>3, <2>4
<1>10. ListedKnown'
    <2>1. ASSUME NEW q \in Paths \ deleted, NEW s \in Lists(q)', NEW i \in DOMAIN s
          PROVE  s[i] \in DOMAIN blocks
        <3>1. CASE s \in Lists(q)
            BY <3>1 DEF OwnershipInv, ListedKnown
        <3>2. CASE q = p /\ s = new
            BY <1>0, <1>2, <3>2 DEF OwnershipInv, ListedKnown, p, id
        <3> QED
            BY <1>4, <3>1, <3>2
    <2> QED
        BY <1>1, <1>5, <2>1 DEF OwnershipInv, ListedKnown
<1> QED
    BY <1>7, <1>8, <1>9, <1>10 DEF OwnershipInv

\* The other steps of requests give out no id and write no list back.
LEMMA RequestOwnership ==
    ASSUME TypeOK, OwnershipInv, NEW c \in Calls, NEW p \in Paths,
           \/ CreateFile(c, p) \/ DeleteBlocks(c, p) \/ Allocate(c, p)
           \/ DeleteFile(c) \/ AppendEditLog(c) \/ ReadFile(c) \/ AnswerAllocate(c)
    PROVE  OwnershipInv'
<1>1. OnlyCall(c) /\ nextId' = nextId
    BY CallSteps DEF CreateFile, DeleteBlocks, Allocate, DeleteFile, AppendEditLog, ReadFile,
                     AnswerAllocate
<1>2. \A q \in DOMAIN files' : (q \in DOMAIN files /\ files'[q] = files[q]) \/ files'[q] = <<>>
    BY DEF CreateFile, DeleteBlocks, Allocate, DeleteFile, AppendEditLog, ReadFile,
           AnswerAllocate, metaVars, PutFile, DropFile
<1>3. Pending(c)' => /\ Pending(c) /\ call'[c].id = call[c].id /\ call'[c].path = call[c].path
                     /\ At(c, "allocate", "read")' => call'[c].ids \in Lists(call[c].path)
    <2>1. CASE CreateFile(c, p) \/ DeleteBlocks(c, p) \/ Allocate(c, p)
        <3>1. call'[c].pc \in {"log", "drop", "checked", "done"}
            BY <2>1, CallSteps
        <3> QED
            BY <3>1 DEF Pending, At
    <2>2. CASE DeleteFile(c)
        <3>1. call[c].op = "delete"
            BY <2>2 DEF DeleteFile, At
        <3>2. call'[c].pc = "log"
            BY <2>2, <3>1, CallSteps
        <3> QED
            BY <3>2 DEF Pending, At
    <2>3. CASE AppendEditLog(c) \/ AnswerAllocate(c)
        <3>1. call'[c].pc = "done"
            BY <2>3, CallSteps, CallTypes
        <3> QED
            BY <3>1 DEF Pending, At
    <2>4. CASE ReadFile(c)
        <3>1. Pending(c) /\ call'[c].id = call[c].id /\ call'[c].path = call[c].path
            BY <2>4, CallSteps DEF ReadFile, Pending
        <3>2. \/ call'[c].pc = "answer"
              \/ call[c].path \in DOMAIN files /\ call'[c].ids = files[call[c].path]
            BY <2>4, CallSteps
        <3>3. call[c].path \in DOMAIN files => files[call[c].path] \in Lists(call[c].path)
            BY DEF Lists
        <3>4. At(c, "allocate", "read")' => call'[c].pc # "answer"
            BY DEF At
        <3> QED
            BY <3>1, <3>2, <3>3, <3>4
    <2> QED
        BY <2>1, <2>2, <2>3, <2>4
<1>4. ListsFrom /\ PendingFrom
    BY <1>1, <1>2, <1>3, RequestFrame
<1>5. IdsGivenOut' /\ PendingIdUnlisted' /\ ListsDisjoint'
    <2>1. nextId' \in Nat /\ nextId' >= nextId
        BY <1>1 DEF TypeOK
    <2> QED
        BY <1>4, <2>1, OwnershipFrame DEF OwnershipInv
<1>6. ListedKnown'
    <2>1. CASE DeleteBlocks(c, p)
        BY <1>4, <2>1, DeleteBlocksKnown
    <2>2. CASE ~ DeleteBlocks(c, p)
        <3>1. blocks' = blocks /\ deleted' = deleted
            BY <2>2 DEF CreateFile, Allocate, DeleteFile, AppendEditLog, ReadFile,
                        AnswerAllocate, metaVars, historyVars
        <3> QED
            BY <1>4, <3>1, KnownFrame DEF OwnershipInv
    <2> QED
        BY <2>1, <2>2
<1> QED
    BY <1>5, <1>6 DEF OwnershipInv

\* Reports and repairs enter blocks and drop none.
LEMMA BackgroundSteps ==
    ASSUME NEW d, NEW id, NEW u,
           \/ RegisterDN(d) \/ Heartbeat(d) \/ CheckDataNodeHealth(d)
           \/ BlockReport(d, id) \/ Replicate(d)
           \/ ReportRead \/ ReportUpdate \/ Scan \/ SelectTargets(u) \/ RepairDone
    PROVE  /\ UNCHANGED <<files, call, nextId, editLog, acked, deleted>>
           /\ DOMAIN blocks \subseteq DOMAIN blocks'
BY DEF RegisterDN, Heartbeat, CheckDataNodeHealth, BlockReport, Replicate, ReportRead,
       ReportUpdate, Scan, SelectTargets, RepairDone, metaVars, boundVars, historyVars,
       WithLocation, PutBlock

LEMMA BackgroundOwnership ==
    ASSUME TypeOK, OwnershipInv, UNCHANGED <<files, call, nextId, deleted>>,
           DOMAIN blocks \subseteq DOMAIN blocks'
    PROVE  OwnershipInv'
<1>1. ListsFrom /\ PendingFrom
    BY DEF ListsFrom, PendingFrom, Lists, Pending, At
<1>2. nextId' \in Nat /\ nextId' >= nextId
    BY DEF TypeOK
<1> QED
    BY <1>1, <1>2, OwnershipFrame, KnownFrame DEF OwnershipInv

\* After a restart every file is empty and no request is under way: the ids
\* that next_block_id_ gives out again are in no list.
LEMMA RestartOwnership ==
    ASSUME TypeOK, Restart
    PROVE  OwnershipInv'
<1>1. \A c \in Calls : call'[c].pc \in {"new", "done"}
    BY CallTypes DEF Restart
<1>2. \A c \in Calls : ~ Pending(c)' /\ ~ At(c, "allocate", "read")'
    BY <1>1 DEF Pending, At
<1>3. \A p \in DOMAIN files' : files'[p] = <<>>
    BY DEF Restart
<1>4. ASSUME NEW p \in Paths, NEW s \in Lists(p)'
      PROVE  DOMAIN s = {}
    BY <1>2, <1>3 DEF Lists
<1> QED
    BY <1>2, <1>4 DEF OwnershipInv, IdsGivenOut, PendingIdUnlisted, ListsDisjoint, ListedKnown

-----------------------------------------------------------------------------
(* Acknowledged files.                                                     *)

LEMMA RequestRecovery ==
    ASSUME TypeOK, RequestsInv, AckedFileRecovered, NEW c \in Calls, NEW p \in Paths,
           \/ CreateFile(c, p) \/ DeleteBlocks(c, p) \/ Allocate(c, p)
           \/ DeleteFile(c) \/ CommitBlock(c) \/ ReadFile(c) \/ UpdateFile(c)
           \/ AnswerAllocate(c)
    PROVE  RequestsInv' /\ AckedFileRecovered'
<1>1. OnlyCall(c) /\ editLog' = editLog /\ acked' = acked /\ deleted \subseteq deleted'
    BY CallSteps DEF CreateFile, DeleteBlocks, Allocate, DeleteFile, CommitBlock, ReadFile,
                     UpdateFile, AnswerAllocate, historyVars
<1>2. \A q \in DOMAIN files : q \in DOMAIN files' \/ q \in deleted
    <2>1. CASE DeleteFile(c)
        BY <2>1 DEF DeleteFile, DropFile, RequestsInv
    <2>2. CASE ~ DeleteFile(c)
        BY <2>2 DEF CreateFile, DeleteBlocks, Allocate, CommitBlock, ReadFile,
                    UpdateFile, AnswerAllocate, metaVars, PutFile
    <2> QED
        BY <2>1, <2>2
<1>3. RequestsInv'
    <2>1. ASSUME NEW d \in Calls, d # c
          PROVE  /\ call'[d].pc = "log" /\ call'[d].op \in {"create", "createFailed"}
                       => call'[d].path \in DOMAIN files' \cup deleted'
                 /\ At(d, "delete", "drop")' => call'[d].path \in deleted'
        BY <1>1, <1>2, <2>1 DEF RequestsInv, OnlyCall, At
    <2>2. /\ call'[c].pc = "log" /\ call'[c].op \in {"create", "createFailed"}
                => call'[c].path \in DOMAIN files' \cup deleted'
          /\ At(c, "delete", "drop")' => call'[c].path \in deleted'
        <3>1. CASE CreateFile(c, p)
            <4>1. call'[c].pc = "log" /\ call'[c].path = p
                BY <3>1, CallSteps
            <4>2. p \in DOMAIN files'
                BY <3>1 DEF CreateFile, PutFile
            <4> QED
                BY <4>1, <4>2 DEF At
        <3>2. CASE DeleteBlocks(c, p)
            <4>1. call'[c].path = p /\ p \in deleted'
                BY <3>2, CallSteps DEF DeleteBlocks
            <4> QED
                BY <4>1
        <3>3. CASE DeleteFile(c)
            <4>1. call[c].op = "delete"
                BY <3>3 DEF DeleteFile, At
            <4>2. call'[c].op = "delete" /\ call'[c].pc = "log"
                BY <3>3, <4>1, CallSteps
            <4> QED
                BY <4>2 DEF At
        <3>4. CASE Allocate(c, p) \/ CommitBlock(c) \/ ReadFile(c) \/ UpdateFile(c) \/ AnswerAllocate(c)
            <4>1. UpdateFile(c) => call[c].op # "delete"
                BY DEF UpdateFile, At
            <4>2. DoneCall.pc = "done"
                BY CallTypes
            <4>3. call'[c].pc \in {"checked", "committed", "read", "answer", "done"}
                BY <3>4, <4>1, <4>2, CallSteps
            <4> QED
                BY <4>3 DEF At
        <3> QED
            BY <3>1, <3>2, <3>3, <3>4
    <2> QED
        BY <2>1, <2>2 DEF RequestsInv
<1>4. AckedFileRecovered'
    BY <1>1, <1>2 DEF AckedFileRecovered
<1> QED
    BY <1>3, <1>4

\* EditLog::Append: the path it acknowledges is there, and so is any path it logs
\* as created.
LEMMA AppendRecovery ==
    ASSUME TypeOK, RequestsInv, AckedFileRecovered, NEW c \in Calls, AppendEditLog(c)
    PROVE  RequestsInv' /\ AckedFileRecovered'
<1>0. call[c].path \in Paths /\ call[c].pc = "log"
    BY DEF TypeOK, AppendEditLog
<1>1. /\ OnlyCall(c) /\ call'[c].pc = "done"
      /\ files' = files /\ deleted' = deleted
      /\ editLog' = Append(editLog, Record(c, TRUE))
      /\ acked' = IF call[c].op = "create" THEN acked \cup {call[c].path} ELSE acked
    <2>1. OnlyCall(c) /\ call'[c] = DoneCall
        BY <1>0, CallSteps
    <2>2. DoneCall.pc = "done"
        BY CallTypes
    <2> QED
        BY <2>1, <2>2 DEF AppendEditLog, metaVars
<1>2. RequestsInv'
    BY <1>1 DEF RequestsInv, OnlyCall, At
<1>3. AckedFileRecovered'
    <2> SUFFICES ASSUME NEW p \in acked' \ deleted', p \notin DOMAIN files',
                        NEW i \in 1..Len(editLog'),
                        editLog'[i].op = "create", editLog'[i].path = p
                 PROVE  \E j \in 1..i : ~ editLog'[j].whole
        BY DEF AckedFileRecovered
    <2> DEFINE r == Record(c, TRUE)
    <2>1. p \in acked
        BY <1>0, <1>1 DEF RequestsInv
    <2>2. ~ (r.op = "create" /\ r.path = p)
        BY <1>0, <1>1 DEF RequestsInv, Record
    <2>3. editLog \in Seq(EditRecord)
        BY DEF TypeOK
    <2>4. editLog' = Append(editLog, r)
        BY <1>1
    <2> HIDE DEF r
    <2>5. i \in 1..Len(editLog) /\ editLog'[i] = editLog[i]
        BY <2>2, <2>3, <2>4
    <2>6. PICK j \in 1..i : ~ editLog[j].whole
        BY <1>1, <2>1, <2>5 DEF AckedFileRecovered
    <2>7. j \in 1..Len(editLog) /\ editLog'[j] = editLog[j]
        BY <2>3, <2>4, <2>5
    <2> QED
        BY <2>6, <2>7
<1> QED
    BY <1>2, <1>3

\* EditLog::Replay: a path is replayed unless every record of its creation comes
\* after one cut short.
LEMMA RestartRecovery ==
    ASSUME TypeOK, Restart
    PROVE  RequestsInv' /\ AckedFileRecovered'
<1>1. \A c \in Calls : call'[c].pc \in {"new", "done"}
    BY CallTypes DEF Restart
<1>2. RequestsInv'
    BY <1>1 DEF RequestsInv, At
<1>3. DOMAIN files' = ReplayedPaths(editLog')
    BY DEF Restart
<1>4. AckedFileRecovered'
    BY <1>3 DEF AckedFileRecovered, ReplayedPaths, Replayable
<1> QED
    BY <1>2, <1>4

-----------------------------------------------------------------------------
(* The invariant and what follows from it.                                 *)

LEMMA InitInv == Init => IInv
<1> SUFFICES ASSUME Init PROVE IInv
    OBVIOUS
<1>1. TypeOK
    BY InitType
<1>2. \A c \in Calls : call[c].pc = "new"
    BY CallTypes DEF Init
<1>3. \A p \in Paths : Lists(p) = {}
    BY <1>2 DEF Init, Lists, At
<1>4. OwnershipInv
    BY <1>2, <1>3 DEF OwnershipInv, IdsGivenOut, PendingIdUnlisted, ListsDisjoint, ListedKnown,
                      Pending, At
<1>5. RequestsInv
    BY <1>2 DEF RequestsInv, At
<1>6. AckedFileRecovered
    BY DEF Init, AckedFileRecovered
<1> QED
    BY <1>1, <1>4, <1>5, <1>6 DEF IInv

LEMMA NextInv ==
    ASSUME IInv, [Next]_vars
    PROVE  IInv'
<1> USE DEF IInv
<1>1. TypeOK'
    BY NextType
<1>2. CASE UNCHANGED vars
    <2>1. OwnershipInv'
        BY <1>2, BackgroundOwnership DEF vars, metaVars, historyVars
    <2>2. RequestsInv' /\ AckedFileRecovered'
        BY <1>2 DEF vars, metaVars, historyVars, RequestsInv, AckedFileRecovered, At
    <2> QED
        BY <1>1, <2>1, <2>2
<1>3. ASSUME NEW c \in Calls, NEW p \in Paths,
             CreateFile(c, p) \/ DeleteBlocks(c, p) \/ Allocate(c, p)
      PROVE  IInv'
    BY <1>1, <1>3, RequestOwnership, RequestRecovery
<1>4. ASSUME NEW c \in Calls,
             \/ DeleteFile(c) \/ AppendEditLog(c) \/ CommitBlock(c)
             \/ ReadFile(c) \/ UpdateFile(c) \/ AnswerAllocate(c)
      PROVE  IInv'
    <2>1. PICK p \in Paths : TRUE
        BY <1>4 DEF TypeOK, DeleteFile, AppendEditLog, CommitBlock, ReadFile, UpdateFile,
                    AnswerAllocate, At
    <2>2. OwnershipInv'
        BY <1>4, RequestOwnership, CommitBlockOwnership, UpdateFileOwnership
    <2>3. RequestsInv' /\ AckedFileRecovered'
        BY <1>4, RequestRecovery, AppendRecovery
    <2> QED
        BY <1>1, <2>2, <2>3
<1>5. ASSUME NEW d, NEW id, NEW u,
             \/ RegisterDN(d) \/ Heartbeat(d) \/ CheckDataNodeHealth(d)
             \/ BlockReport(d, id) \/ Replicate(d)
             \/ ReportRead \/ ReportUpdate \/ Scan \/ SelectTargets(u) \/ RepairDone
      PROVE  IInv'
    <2>1. /\ UNCHANGED <<files, call, nextId, editLog, acked, deleted>>
          /\ DOMAIN blocks \subseteq DOMAIN blocks'
        BY <1>5, BackgroundSteps
    <2>2. OwnershipInv'
        BY <2>1, BackgroundOwnership
    <2>3. RequestsInv' /\ AckedFileRecovered'
        BY <2>1 DEF RequestsInv, AckedFileRecovered, At
    <2> QED
        BY <1>1, <2>2, <2>3
<1>6. CASE Restart
    BY <1>1, <1>6, RestartOwnership, RestartRecovery
<1> QED
    BY <1>2, <1>3, <1>4, <1>5, <1>6 DEF Next

LEMMA Invariance == Spec => []IInv
BY InitInv, NextInv, PTL DEF Spec

\* A block belongs to one place of one file: however many allocations of one or
\* several files, deletions, repairs and restarts interleave, no list loses the
\* identity of its blocks to another (AllocateBlock, UpdateFile, HandleDeleteFile).
THEOREM BlocksOwnedOnce == Spec => []BlockOwnedOnce
<1>1. IInv => BlockOwnedOnce
    <2> SUFFICES ASSUME IInv, NEW p \in DOMAIN files, NEW q \in DOMAIN files,
                        NEW i \in 1..Len(files[p]), NEW j \in 1..Len(files[q]),
                        files[p][i] = files[q][j]
                 PROVE  p = q /\ i = j
        BY DEF BlockOwnedOnce
    <2>1. /\ p \in Paths /\ q \in Paths
          /\ files[p] \in Seq(Nat) /\ files[q] \in Seq(Nat)
        BY DEF IInv, TypeOK
    <2>2. files[p] \in Lists(p) /\ files[q] \in Lists(q)
        BY DEF Lists
    <2>3. i \in DOMAIN files[p] /\ j \in DOMAIN files[q]
        BY <2>1
    <2> QED
        BY <2>1, <2>2, <2>3 DEF IInv, OwnershipInv, ListsDisjoint
<1> QED
    BY <1>1, Invariance, PTL

\* A file that nobody asked to delete lists only blocks the NameNode knows:
\* HandleDeleteFile of another file, and the copy that UpdateFile writes back,
\* never leave it with one that was dropped.
THEOREM FilesKnown == Spec => []FileBlocksKnown
<1>1. IInv => FileBlocksKnown
    <2> SUFFICES ASSUME IInv, NEW p \in DOMAIN files \ deleted, NEW i \in 1..Len(files[p])
                 PROVE  files[p][i] \in DOMAIN blocks
        BY DEF FileBlocksKnown, IdsOf
    <2>1. p \in Paths \ deleted /\ files[p] \in Seq(Nat)
        BY DEF IInv, TypeOK
    <2>2. files[p] \in Lists(p)
        BY DEF Lists
    <2>3. i \in DOMAIN files[p]
        BY <2>1
    <2> QED
        BY <2>1, <2>2, <2>3 DEF IInv, OwnershipInv, ListedKnown
<1> QED
    BY <1>1, Invariance, PTL

\* An acknowledged file that nobody asked to delete is there after any number of
\* restarts, unless its record comes after one that a crash cut short
\* (EditLog::Append before the answer, Replay).
THEOREM AckedRecovered == Spec => []AckedFileRecovered
<1>1. IInv => AckedFileRecovered
    BY DEF IInv
<1> QED
    BY <1>1, Invariance, PTL
=============================================================================
