------------------------------ MODULE NameNode ------------------------------
(***************************************************************************)
(* The NameNode (src/src/namenode): NameNodeServer with its MetadataStore, *)
(* BlockManager, DataNodeManager and EditLog, and the FaultDetector that   *)
(* repairs replicas in the background.                                     *)
(*                                                                         *)
(* Each request runs on a worker thread.  MetadataStore locks every call   *)
(* by itself, so a handler is a sequence of atomic calls that interleave   *)
(* with those of other handlers; an action is one or more such calls       *)
(* between which no other thread can make a difference.  Metadata is in    *)
(* memory only: a restart has nothing but edit.log.                        *)
(*                                                                         *)
(* Clocks are left out: a DataNode that has not been heard of lately may   *)
(* have been silent for any time.  So is free space: any of the live       *)
(* DataNodes may be full.                                                  *)
(***************************************************************************)
EXTENDS Integers, Sequences, FiniteSets

CONSTANTS
    Paths,
    DataNodes,
    Calls,              \* client requests, each handled once
    ReplicationFactor,  \* kReplicationFactor
    MaxRestarts,        \* bound: crashes of the NameNode
    MaxReports,         \* bound: block reports
    MaxScans            \* bound: rounds of the FaultDetector

ASSUME NameNodeAssumption ==
    /\ IsFiniteSet(DataNodes)
    /\ ReplicationFactor \in Nat \ {0}
    /\ MaxRestarts \in Nat /\ MaxReports \in Nat /\ MaxScans \in Nat

VARIABLES
    files,      \* files_: path -> ids of its blocks
    blocks,     \* blocks_: id -> the DataNodes that have it, whether its size is known
    nextId,     \* next_block_id_
    status,     \* nodes_: the status of a registered DataNode
    editLog,    \* the records of edit.log
    call,       \* the worker thread of a request
    report,     \* the worker thread of a block report
    repair,     \* the thread of the FaultDetector
    restarts, reports, scans,
    \* history
    acked,      \* paths whose creation was acknowledged
    deleted,    \* paths a client ever asked to delete
    allocated   \* the id each successful ALLOCATE_BLOCK was given

metaVars    == <<files, blocks>>
boundVars   == <<restarts, reports, scans>>
historyVars == <<acked, deleted, allocated>>
vars == <<metaVars, nextId, status, editLog, call, report, repair, boundVars, historyVars>>

NewCall     == [pc |-> "new", op |-> "none", path |-> "none", ids |-> <<>>, id |-> 0]
DoneCall    == [NewCall EXCEPT !.pc = "done"]
IdleReport  == [pc |-> "idle", id |-> 0, locs |-> {}]
IdleRepair  == [pc |-> "idle", queue |-> {}, id |-> 0, targets |-> {}]

Smaller(a, b) == IF a < b THEN a ELSE b
IdsOf(p) == {files[p][i] : i \in 1..Len(files[p])}

Init ==
    /\ files = [p \in {} |-> <<>>]
    /\ blocks = [b \in {} |-> [locs |-> {}, sized |-> FALSE]]
    /\ nextId = 1
    /\ status = [d \in DataNodes |-> "UNKNOWN"]
    /\ editLog = <<>>
    /\ call = [c \in Calls |-> NewCall]
    /\ report = IdleReport
    /\ repair = IdleRepair
    /\ restarts = 0 /\ reports = 0 /\ scans = 0
    /\ acked = {} /\ deleted = {} /\ allocated = [c \in Calls |-> 0]

-----------------------------------------------------------------------------
(* MetadataStore.                                                          *)

PutFile(p, ids) == [q \in DOMAIN files \cup {p} |-> IF q = p THEN ids ELSE files[q]]
DropFile(p)     == [q \in DOMAIN files \ {p} |-> files[q]]

\* Mutant of PutBlock: AddBlock, like UpdateBlock, ignores an id that is not there.
PutBlockKnown(id, info) == [b \in DOMAIN blocks |-> IF b = id THEN info ELSE blocks[b]]

\* AddBlock, also UpdateBlock of a block that is there.
PutBlock(id, info) == [b \in DOMAIN blocks \cup {id} |-> IF b = id THEN info ELSE blocks[b]]
DropBlocks(ids)    == [b \in DOMAIN blocks \ ids |-> blocks[b]]

\* UpdateBlockLocation: an unknown block is entered.
WithLocation(id, d) ==
    PutBlock(id, IF id \in DOMAIN blocks
                 THEN [blocks[id] EXCEPT !.locs = @ \cup {d}]
                 ELSE [locs |-> {d}, sized |-> FALSE])

-----------------------------------------------------------------------------
(* Client requests.                                                        *)

At(c, op, pc) == call[c].op = op /\ call[c].pc = pc

\* HandleCreateFile.  The request is logged whether or not the path was free.
CreateFile(c, p) ==
    LET free == p \notin DOMAIN files
    IN  /\ call[c].pc = "new"
        /\ files' = IF free THEN PutFile(p, <<>>) ELSE files
        /\ call' = [call EXCEPT ![c] = [NewCall EXCEPT
                        !.op = IF free THEN "create" ELSE "createFailed",
                        !.pc = "log", !.path = p]]
        /\ UNCHANGED <<blocks, nextId, status, editLog, report, repair, boundVars,
                       historyVars>>

\* HandleDeleteFile reads the file and deletes its blocks.
DeleteBlocks(c, p) ==
    /\ call[c].pc = "new"
    /\ deleted' = deleted \cup {p}
    /\ IF p \in DOMAIN files
       THEN /\ blocks' = DropBlocks(IdsOf(p))
            /\ call' = [call EXCEPT ![c] = [NewCall EXCEPT
                            !.op = "delete", !.pc = "drop", !.path = p]]
       ELSE /\ call' = [call EXCEPT ![c] = [NewCall EXCEPT
                            !.op = "deleteFailed", !.pc = "log", !.path = p]]
            /\ UNCHANGED blocks
    /\ UNCHANGED <<files, nextId, status, editLog, report, repair, boundVars, acked,
                   allocated>>

\* Then it deletes the file, which may no longer be the one it read.
DeleteFile(c) ==
    /\ At(c, "delete", "drop")
    /\ files' = DropFile(call[c].path)
    /\ call' = [call EXCEPT ![c].pc = "log"]
    /\ UNCHANGED <<blocks, nextId, status, editLog, report, repair, boundVars,
                   historyVars>>

Record(c, whole) ==
    [op |-> IF call[c].op \in {"create", "createFailed"} THEN "create" ELSE "delete",
     path |-> call[c].path, whole |-> whole]

\* EditLog::Append; the answer goes out after it.
AppendEditLog(c) ==
    /\ call[c].pc = "log"
    /\ editLog' = Append(editLog, Record(c, TRUE))
    /\ call' = [call EXCEPT ![c] = DoneCall]
    /\ acked' = IF call[c].op = "create" THEN acked \cup {call[c].path} ELSE acked
    /\ UNCHANGED <<metaVars, nextId, status, report, repair, boundVars, deleted,
                   allocated>>

Alive == {d \in DataNodes : status[d] = "ALIVE"}

\* HandleAllocateBlock, up to the check of the file.
Allocate(c, p) ==
    /\ call[c].pc = "new"
    /\ call' = [call EXCEPT ![c] =
                    IF p \in DOMAIN files
                    THEN [NewCall EXCEPT !.op = "allocate", !.path = p, !.pc = "checked"]
                    ELSE DoneCall]
    /\ UNCHANGED <<metaVars, nextId, status, editLog, report, repair, boundVars,
                   historyVars>>

\* Mutant of NextBlockId: the counter is read and not advanced.
NextBlockIdSame == nextId

\* next_block_id_.fetch_add(1).
NextBlockId == nextId + 1

\* AllocateBlock and CommitBlock: a new id on as many of the live DataNodes with
\* room as there are, up to the replication factor.
CommitBlock(c) ==
    /\ At(c, "allocate", "checked")
    /\ \/ \E usable \in SUBSET Alive \ {{}} : \E selected \in SUBSET usable :
             /\ Cardinality(selected) = Smaller(Cardinality(usable), ReplicationFactor)
             /\ blocks' = PutBlock(nextId, [locs |-> selected, sized |-> FALSE])
             /\ nextId' = NextBlockId
             /\ call' = [call EXCEPT ![c].pc = "committed", ![c].id = nextId]
       \/ /\ call' = [call EXCEPT ![c] = DoneCall]
          /\ UNCHANGED <<blocks, nextId>>
    /\ UNCHANGED <<files, status, editLog, report, repair, boundVars, historyVars>>

\* The file is read again and copied.
ReadFile(c) ==
    LET p == call[c].path
    IN  /\ At(c, "allocate", "committed")
        /\ IF p \in DOMAIN files
           THEN call' = [call EXCEPT ![c].pc = "read", ![c].ids = files[p]]
           ELSE call' = [call EXCEPT ![c].pc = "answer"]
        /\ UNCHANGED <<metaVars, nextId, status, editLog, report, repair, boundVars,
                       historyVars>>

\* UpdateFile writes the copy back with the new block, if the path is there.
UpdateFile(c) ==
    LET p == call[c].path
    IN  /\ At(c, "allocate", "read")
        /\ files' = IF p \in DOMAIN files THEN PutFile(p, Append(call[c].ids, call[c].id))
                    ELSE files
        /\ call' = [call EXCEPT ![c].pc = "answer"]
        /\ UNCHANGED <<blocks, nextId, status, editLog, report, repair, boundVars,
                       historyVars>>

\* The client learns the id, also when the file is gone meanwhile.
AnswerAllocate(c) ==
    /\ At(c, "allocate", "answer")
    /\ allocated' = [allocated EXCEPT ![c] = call[c].id]
    /\ call' = [call EXCEPT ![c] = DoneCall]
    /\ UNCHANGED <<metaVars, nextId, status, editLog, report, repair, boundVars, acked,
                   deleted>>

-----------------------------------------------------------------------------
(* DataNodes: registration, heartbeats, block reports, health.             *)

\* RegisterDataNode; a heartbeat does the same for a DataNode that is known.
RegisterDN(d) ==
    /\ status[d] = "UNKNOWN"
    /\ status' = [status EXCEPT ![d] = "ALIVE"]
    /\ UNCHANGED <<metaVars, nextId, editLog, call, report, repair, boundVars, historyVars>>

Heartbeat(d) ==
    /\ status[d] \in {"SUSPECT", "DEAD"}
    /\ status' = [status EXCEPT ![d] = "ALIVE"]
    /\ UNCHANGED <<metaVars, nextId, editLog, call, report, repair, boundVars, historyVars>>

\* CheckDataNodeHealth, for one DataNode: after ten seconds of silence it is
\* suspect, after thirty dead.
CheckDataNodeHealth(d) ==
    /\ \/ status[d] = "ALIVE" /\ status' \in {[status EXCEPT ![d] = s] : s \in {"SUSPECT", "DEAD"}}
       \/ status[d] = "SUSPECT" /\ status' = [status EXCEPT ![d] = "DEAD"]
    /\ UNCHANGED <<metaVars, nextId, editLog, call, report, repair, boundVars, historyVars>>

\* HandleBlockReport, sent by a DataNode that has registered: a client may have
\* written any block whose id it was told, maybe before a restart.
BlockReport(d, id) ==
    /\ report.pc = "idle"
    /\ status[d] = "ALIVE"
    /\ reports < MaxReports
    /\ reports' = reports + 1
    /\ blocks' = WithLocation(id, d)
    /\ report' = [pc |-> "located", id |-> id, locs |-> {}]
    /\ UNCHANGED <<files, nextId, status, editLog, call, repair, restarts, scans,
                   historyVars>>

\* GetBlock: a block without a size is copied to get one.
ReportRead ==
    /\ report.pc = "located"
    /\ report' = IF report.id \in DOMAIN blocks /\ ~ blocks[report.id].sized
                 THEN [report EXCEPT !.pc = "read", !.locs = blocks[report.id].locs]
                 ELSE IdleReport
    /\ UNCHANGED <<metaVars, nextId, status, editLog, call, repair, boundVars, historyVars>>

\* UpdateBlock puts the copy back, with the locations it had when it was read.
ReportUpdate ==
    /\ report.pc = "read"
    /\ blocks' = IF report.id \in DOMAIN blocks
                 THEN PutBlock(report.id, [locs |-> report.locs, sized |-> TRUE])
                 ELSE blocks
    /\ report' = IdleReport
    /\ UNCHANGED <<files, nextId, status, editLog, call, repair, boundVars, historyVars>>

-----------------------------------------------------------------------------
(* FaultDetector: RunOnce.                                                 *)

\* ScanUnderReplicated: the blocks of the files that have too few live replicas.
Scan ==
    LET known == {id \in UNION {IdsOf(p) : p \in DOMAIN files} : id \in DOMAIN blocks}
        under == {id \in known : Cardinality(blocks[id].locs \cap Alive) < ReplicationFactor}
    IN  /\ repair.pc = "idle"
        /\ scans < MaxScans
        /\ scans' = scans + 1
        /\ repair' = [IdleRepair EXCEPT !.pc = "scanned",
                        !.queue = {[id |-> id, existing |-> blocks[id].locs \cap Alive,
                                    dead |-> blocks[id].locs \ Alive] : id \in under}]
        /\ UNCHANGED <<metaVars, nextId, status, editLog, call, report, restarts, reports,
                       historyVars>>

\* RepairUnderReplicated takes the next block and SelectTargetNodes chooses for
\* it; a block without a live replica, or without a target, is passed over.
SelectTargets(u) ==
    LET candidates == Alive \ (u.existing \cup u.dead)
        need == ReplicationFactor - Cardinality(u.existing)
    IN  /\ repair.pc = "scanned"
        /\ u \in repair.queue
        /\ \E roomy \in SUBSET candidates : \E targets \in SUBSET roomy :
              /\ Cardinality(targets) = Smaller(Cardinality(roomy), need)
              /\ repair' = [repair EXCEPT !.queue = @ \ {u}, !.id = u.id,
                    !.targets = IF u.existing = {} THEN {} ELSE targets,
                    !.pc = IF u.existing = {} \/ targets = {} THEN "scanned" ELSE "copying"]
        /\ UNCHANGED <<metaVars, nextId, status, editLog, call, report, boundVars,
                       historyVars>>

\* Replicate: only a fetch and a push that both succeed record the location.
Replicate(d) ==
    /\ repair.pc = "copying"
    /\ d \in repair.targets
    /\ repair' = [repair EXCEPT !.targets = @ \ {d},
                    !.pc = IF repair.targets = {d} THEN "scanned" ELSE @]
    /\ blocks' \in {blocks, WithLocation(repair.id, d)}
    /\ UNCHANGED <<files, nextId, status, editLog, call, report, boundVars, historyVars>>

RepairDone ==
    /\ repair.pc = "scanned" /\ repair.queue = {}
    /\ repair' = IdleRepair
    /\ UNCHANGED <<metaVars, nextId, status, editLog, call, report, boundVars, historyVars>>

-----------------------------------------------------------------------------
(* Crash and restart.                                                      *)

\* EditLog::Replay stops at a record that is cut short.
Replayable(log) ==
    {i \in 1..Len(log) : \A j \in 1..i : log[j].whole}

\* Mutant of ReplayedPaths: replay stops one record early.
ReplayedPathsShort(log) ==
    {log[i].path : i \in {j \in Replayable(log) : j < Len(log) /\ log[j].op = "create"}}

\* The constructor of NameNodeServer replays CREATE_FILE and nothing else.
ReplayedPaths(log) ==
    {log[i].path : i \in {j \in Replayable(log) : log[j].op = "create"}}

\* The process dies, maybe inside Append, and starts again.
Restart ==
    /\ restarts < MaxRestarts
    /\ restarts' = restarts + 1
    /\ \E log \in {editLog} \cup {Append(editLog, Record(c, FALSE)) :
                                    c \in {x \in Calls : call[x].pc = "log"}} :
          /\ editLog' = log
          /\ files' = [p \in ReplayedPaths(log) |-> <<>>]
    /\ blocks' = [b \in {} |-> [locs |-> {}, sized |-> FALSE]]
    /\ nextId' = 1
    /\ status' = [d \in DataNodes |-> "UNKNOWN"]
    /\ call' = [c \in Calls |-> IF call[c].pc = "new" THEN NewCall ELSE DoneCall]
    /\ report' = IdleReport
    /\ repair' = IdleRepair
    /\ UNCHANGED <<reports, scans, historyVars>>

-----------------------------------------------------------------------------
Next ==
    \/ \E c \in Calls, p \in Paths : CreateFile(c, p) \/ DeleteBlocks(c, p) \/ Allocate(c, p)
    \/ \E c \in Calls :
        \/ DeleteFile(c)
        \/ AppendEditLog(c)
        \/ CommitBlock(c)
        \/ ReadFile(c)
        \/ UpdateFile(c)
        \/ AnswerAllocate(c)
    \/ \E d \in DataNodes :
        \/ RegisterDN(d)
        \/ Heartbeat(d)
        \/ CheckDataNodeHealth(d)
        \/ \E id \in {allocated[c] : c \in Calls} \ {0} : BlockReport(d, id)
        \/ Replicate(d)
    \/ ReportRead
    \/ ReportUpdate
    \/ Scan
    \/ \E u \in repair.queue : SelectTargets(u)
    \/ RepairDone
    \/ Restart

Spec == Init /\ [][Next]_vars

-----------------------------------------------------------------------------
(* Properties.                                                             *)

\* A block belongs to one place of one file, however allocations, deletions and
\* restarts interleave (AllocateBlock, UpdateFile, HandleDeleteFile).
BlockOwnedOnce ==
    \A p, q \in DOMAIN files : \A i \in 1..Len(files[p]), j \in 1..Len(files[q]) :
        files[p][i] = files[q][j] => p = q /\ i = j

\* A file that nobody asked to delete lists only blocks the NameNode knows
\* (HandleAllocateBlock commits the block before it updates the file).
FileBlocksKnown ==
    \A p \in DOMAIN files \ deleted : IdsOf(p) \subseteq DOMAIN blocks

\* A file whose creation was acknowledged, and that nobody asked to delete, is
\* there after any number of restarts, unless its record comes after one that a
\* crash cut short (EditLog::Append before the answer, Replay).
AckedFileRecovered ==
    \A p \in acked \ deleted :
        \/ p \in DOMAIN files
        \/ \A i \in 1..Len(editLog) :
              editLog[i].op = "create" /\ editLog[i].path = p
                => \E j \in 1..i : ~ editLog[j].whole
=============================================================================
