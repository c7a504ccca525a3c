------------------------------ MODULE DataNode ------------------------------
(***************************************************************************)
(* DataNodes that store one block: BlockStore, the write pipeline and the  *)
(* request handlers of DataNodeServer (src/src/datanode).                  *)
(*                                                                         *)
(* Every connection has a thread of its own and BlockStore has no lock, so *)
(* two writes of the block, a delete and a crash may meet at any of the    *)
(* steps of WriteBlock.  The data of a request is the request itself.  A   *)
(* file is an inode: an open stream follows the inode when another thread  *)
(* renames the file.                                                       *)
(***************************************************************************)
EXTENDS Integers, Sequences, FiniteSets, TLC

CONSTANTS
    Requests,       \* write requests of clients, or pushes of the NameNode
    Pipeline,       \* the DataNodes a write goes through, in order
    None,
    MaxDiskErrors,  \* bound: files that cannot be opened
    MaxCrashes,     \* bound: crashes of a DataNode
    MaxDeletes      \* bound: DELETE_BLOCK requests

ASSUME DataNodeAssumption ==
    /\ Pipeline # <<>>
    /\ None \notin Requests
    /\ MaxDiskErrors \in Nat /\ MaxCrashes \in Nat /\ MaxDeletes \in Nat

Nodes == {Pipeline[i] : i \in 1..Len(Pipeline)}

VARIABLES
    \* disk of a DataNode
    content,    \* what an inode holds; an inode has the name of its creator
    tmp,        \* the inode of tmp/block.dat.tmp, or None
    dat,        \* the inode of blocks/block.dat, or None
    meta,       \* whose checksum block.meta holds: a request, Torn or None
    \* processes
    up,         \* the process of the DataNode runs
    pc,         \* how far the thread of a request is at a DataNode
    handle,     \* the inode its stream writes to
    deleting,   \* a thread is between the two removals of DeleteBlock
    \* bounds
    diskErrors, crashes, deletes,
    \* history
    sole,       \* the write that has had the block for itself since it began
    sure,       \* the last write, if it was such a one and is complete
    cut         \* since the block was at rest, a write or a delete was cut short,
                \* or the two met

diskVars    == <<content, tmp, dat, meta>>
boundVars   == <<diskErrors, crashes, deletes>>
historyVars == <<sole, sure, cut>>
vars == <<diskVars, up, pc, handle, deleting, boundVars, historyVars>>

Nothing == "nothing"    \* an empty file
Mixed   == "mixed"      \* bytes of two writes
Torn    == "torn"       \* a metadata file without its line

Done   == {"none", "ok", "failed"}

\* The requests whose thread is inside WriteBlock.
Writing(d) == {r \in Requests : pc[r][d] \notin Done \cup {"start", "waiting"}}

\* No thread is inside WriteBlock or DeleteBlock.
AtRest(d) == Writing(d) = {} /\ ~ deleting[d]

Init ==
    /\ content = [d \in Nodes |-> [r \in Requests |-> Nothing]]
    /\ tmp = [d \in Nodes |-> None]
    /\ dat = [d \in Nodes |-> None]
    /\ meta = [d \in Nodes |-> None]
    /\ up = [d \in Nodes |-> TRUE]
    /\ pc = [r \in Requests |-> [d \in Nodes |-> "none"]]
    /\ handle = [r \in Requests |-> [d \in Nodes |-> None]]
    /\ deleting = [d \in Nodes |-> FALSE]
    /\ diskErrors = 0 /\ crashes = 0 /\ deletes = 0
    /\ sole = [d \in Nodes |-> None]
    /\ sure = [d \in Nodes |-> None]
    /\ cut = [d \in Nodes |-> FALSE]

-----------------------------------------------------------------------------
(* HandlerWrite: what follows the local write.                             *)

Position(d) == CHOOSE i \in 1..Len(Pipeline) : Pipeline[i] = d
IsLast(d)   == Position(d) = Len(Pipeline)
Successor(d) == Pipeline[Position(d) + 1]

\* The handler tests the result of WriteBlock the wrong way round: a write that
\* succeeded is answered with an error and not forwarded; after one that failed
\* the request goes to the next DataNode, or is answered with success.
AfterWrite(r, d, written) ==
    pc' = IF written THEN [pc EXCEPT ![r][d] = "failed"]
          ELSE IF IsLast(d) THEN [pc EXCEPT ![r][d] = "ok"]
          ELSE IF up[Successor(d)]
               THEN [pc EXCEPT ![r][d] = "waiting", ![r][Successor(d)] = "start"]
               ELSE [pc EXCEPT ![r][d] = "failed"]

\* ForwardToNext returns with the answer of the next DataNode.
ForwardReply(r, d) ==
    /\ up[d] /\ pc[r][d] = "waiting"
    /\ pc[r][Successor(d)] \in {"ok", "failed"}
    /\ pc' = [pc EXCEPT ![r][d] = pc[r][Successor(d)]]
    /\ UNCHANGED <<diskVars, up, handle, deleting, boundVars, historyVars>>

\* Mutant of ForwardTimeout: the socket has no receive timeout.
ForwardTimeoutMissing(r, d) == FALSE /\ UNCHANGED vars

\* The receive timeout of five seconds: the next DataNode may still be writing.
ForwardTimeout(r, d) ==
    /\ up[d] /\ pc[r][d] = "waiting"
    /\ pc[r][Successor(d)] \notin {"ok", "failed"}
    /\ pc' = [pc EXCEPT ![r][d] = "failed"]
    /\ UNCHANGED <<diskVars, up, handle, deleting, boundVars, historyVars>>

-----------------------------------------------------------------------------
(* WriteBlock, one step per file operation.                                *)

\* A client, or BlockReplicator::PushBlock, calls the first DataNode.
Request(r) ==
    LET d == Pipeline[1]
    IN  /\ up[d] /\ pc[r][d] = "none"
        /\ pc' = [pc EXCEPT ![r][d] = "start"]
        /\ UNCHANGED <<diskVars, up, handle, deleting, boundVars, historyVars>>

\* The temporary file is created, or emptied if another write of the block left
\* it there or is still busy with it.
OpenTmp(r, d) ==
    LET inode == IF tmp[d] = None THEN r ELSE tmp[d]
    IN  /\ up[d] /\ pc[r][d] = "start"
        /\ tmp' = [tmp EXCEPT ![d] = inode]
        /\ content' = [content EXCEPT ![d][inode] = Nothing]
        /\ handle' = [handle EXCEPT ![r][d] = inode]
        /\ pc' = [pc EXCEPT ![r][d] = "opened"]
        /\ sole' = [sole EXCEPT ![d] = IF AtRest(d) THEN r ELSE None]
        /\ sure' = [sure EXCEPT ![d] = None]
        /\ cut' = [cut EXCEPT ![d] = ~ AtRest(d) /\ (@ \/ deleting[d])]
        /\ UNCHANGED <<dat, meta, up, deleting, boundVars>>

\* Data and flush.  Onto bytes of another write of another length the two mix.
WriteTmp(r, d) ==
    LET inode == handle[r][d]
    IN  /\ up[d] /\ pc[r][d] = "opened"
        /\ \E c \in IF content[d][inode] = Nothing THEN {r} ELSE {r, Mixed} :
              content' = [content EXCEPT ![d][inode] = c]
        /\ pc' = [pc EXCEPT ![r][d] = "written"]
        /\ UNCHANGED <<tmp, dat, meta, up, handle, deleting, boundVars, historyVars>>

\* WriteMeta opens, and so empties, the metadata file, and then fills it.
OpenMeta(r, d) ==
    /\ up[d] /\ pc[r][d] = "written"
    /\ meta' = [meta EXCEPT ![d] = Torn]
    /\ pc' = [pc EXCEPT ![r][d] = "metaopen"]
    /\ UNCHANGED <<content, tmp, dat, up, handle, deleting, boundVars, historyVars>>

WriteMeta(r, d) ==
    /\ up[d] /\ pc[r][d] = "metaopen"
    /\ meta' = [meta EXCEPT ![d] = r]
    /\ pc' = [pc EXCEPT ![r][d] = "described"]
    /\ UNCHANGED <<content, tmp, dat, up, handle, deleting, boundVars, historyVars>>

\* Mutant of Renamed: the temporary file stays where it is.
RenamedNot(d) == dat[d]

\* Mutant of Renamed: the old block is removed before the rename.
RenamedRemoved(d) == tmp[d]

\* The temporary file becomes the block; without one the rename fails.
Renamed(d) == IF tmp[d] = None THEN dat[d] ELSE tmp[d]

RenameTmp(r, d) ==
    /\ up[d] /\ pc[r][d] = "described"
    /\ dat' = [dat EXCEPT ![d] = Renamed(d)]
    /\ tmp' = [tmp EXCEPT ![d] = None]
    /\ AfterWrite(r, d, tmp[d] # None)
    /\ sure' = [sure EXCEPT ![d] = IF sole[d] = r THEN r ELSE None]
    /\ UNCHANGED <<content, meta, up, handle, deleting, boundVars, sole, cut>>

\* A file cannot be opened.  When it is the metadata file, the temporary file
\* is removed, whoever wrote it.
DiskError(r, d) ==
    /\ up[d] /\ pc[r][d] \in {"start", "written"}
    /\ diskErrors < MaxDiskErrors
    /\ diskErrors' = diskErrors + 1
    /\ tmp' = [tmp EXCEPT ![d] = IF pc[r][d] = "written" THEN None ELSE @]
    /\ AfterWrite(r, d, FALSE)
    /\ sole' = [sole EXCEPT ![d] = IF @ = r THEN None ELSE @]
    /\ cut' = [cut EXCEPT ![d] = @ \/ pc[r][d] = "written"]
    /\ UNCHANGED <<content, dat, meta, up, handle, deleting, crashes, deletes, sure>>

-----------------------------------------------------------------------------
(* DeleteBlock: the data first, then the metadata.                         *)

DeleteData(d) ==
    /\ up[d] /\ ~ deleting[d]
    /\ deletes < MaxDeletes
    /\ deletes' = deletes + 1
    /\ dat' = [dat EXCEPT ![d] = None]
    /\ deleting' = [deleting EXCEPT ![d] = TRUE]
    /\ sole' = [sole EXCEPT ![d] = None]
    /\ sure' = [sure EXCEPT ![d] = None]
    /\ cut' = [cut EXCEPT ![d] = Writing(d) # {}]
    /\ UNCHANGED <<content, tmp, meta, up, pc, handle, diskErrors, crashes>>

DeleteMeta(d) ==
    /\ up[d] /\ deleting[d]
    /\ meta' = [meta EXCEPT ![d] = None]
    /\ deleting' = [deleting EXCEPT ![d] = FALSE]
    /\ UNCHANGED <<content, tmp, dat, up, pc, handle, boundVars, historyVars>>

-----------------------------------------------------------------------------
(* Crash and restart of a DataNode.                                        *)

\* The threads are gone; callers see their connection closed.
Crash(d) ==
    /\ up[d]
    /\ crashes < MaxCrashes
    /\ crashes' = crashes + 1
    /\ up' = [up EXCEPT ![d] = FALSE]
    /\ pc' = [r \in Requests |->
                [pc[r] EXCEPT ![d] = IF @ \in Done THEN @ ELSE "failed"]]
    /\ deleting' = [deleting EXCEPT ![d] = FALSE]
    /\ sole' = [sole EXCEPT ![d] = None]
    /\ cut' = [cut EXCEPT ![d] = @ \/ ~ AtRest(d)]
    /\ UNCHANGED <<diskVars, handle, diskErrors, deletes, sure>>

\* The constructor of BlockStore, with CleanTempFiles.
Restart(d) ==
    /\ ~ up[d]
    /\ up' = [up EXCEPT ![d] = TRUE]
    /\ tmp' = [tmp EXCEPT ![d] = None]
    /\ UNCHANGED <<content, dat, meta, pc, handle, deleting, boundVars, historyVars>>

-----------------------------------------------------------------------------
WriteStep(r, d) ==
    \/ OpenTmp(r, d)
    \/ WriteTmp(r, d)
    \/ OpenMeta(r, d)
    \/ WriteMeta(r, d)
    \/ RenameTmp(r, d)
    \/ ForwardReply(r, d)
    \/ ForwardTimeout(r, d)

Next ==
    \/ \E r \in Requests : Request(r)
    \/ \E r \in Requests, d \in Nodes : WriteStep(r, d) \/ DiskError(r, d)
    \/ \E d \in Nodes : DeleteData(d) \/ DeleteMeta(d) \/ Crash(d) \/ Restart(d)

\* The threads of the first DataNode are scheduled and its timeouts expire;
\* nothing is assumed of the DataNodes behind it.
FairSpec ==
    /\ Init /\ [][Next]_vars
    /\ \A r \in Requests : WF_vars(WriteStep(r, Pipeline[1]))

-----------------------------------------------------------------------------
(* Properties.                                                             *)

\* A read of the whole block: its data, or None when the metadata or the data
\* is missing or the checksum does not match.
ReadBlock(d) ==
    IF meta[d] \in Requests /\ dat[d] # None /\ content[d][dat[d]] = meta[d]
    THEN content[d][dat[d]] ELSE None

\* What ListAllBlocks reports and what HasBlock finds.
Reported(d) == meta[d] \in Requests
HasBlock(d) == dat[d] # None

\* When no thread is at work, the DataNode reports the block exactly when it has
\* its data, although two writes may have shared the temporary file and one of
\* them found it renamed; except after a crash or a failed open inside a write, a
\* crash inside a delete, and a write that met a delete (WriteBlock, DeleteBlock,
\* CleanTempFiles, ListAllBlocks).
ReportedIsStored ==
    \A d \in Nodes : AtRest(d) /\ ~ cut[d] => (Reported(d) <=> HasBlock(d))

\* A write that had the block to itself from OpenTmp to its rename can be read
\* until another write or a delete begins, also after crashes and restarts
\* (WriteBlock, CleanTempFiles).
CompleteWriteReadable ==
    \A d \in Nodes : sure[d] # None => ReadBlock(d) = sure[d]

\* The first DataNode answers every request, whatever the others do
\* (ForwardToNext, ConnectTo).
WriteAnswered ==
    \A r \in Requests :
        pc[r][Pipeline[1]] = "start" ~> pc[r][Pipeline[1]] \in {"ok", "failed"}
=============================================================================
