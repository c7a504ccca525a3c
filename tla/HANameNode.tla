----------------------------- MODULE HANameNode -----------------------------
(***************************************************************************)
(* The replicated NameNode (src/src/namenode/namenode_ha_server.cc): every *)
(* HANameNodeServer holds a RaftNode, whose variables and steps this       *)
(* module extends, and the metadata that node's callbacks maintain.        *)
(*                                                                         *)
(* Threads of a server.  ApplyCommitted calls OnApplyCommitted under       *)
(* state_mutex_, so until the callbacks of a step have returned the server *)
(* takes no other step of Raft that needs the mutex; the crash, and the    *)
(* few steps that do not take it, can come in between.  MetadataStore has  *)
(* a mutex of its own, held for one call: reads, the block reports of the  *)
(* client workers and the repairs of the fault detector (ha_server:100)    *)
(* interleave with the calls of a callback.                                *)
(*                                                                         *)
(* RaftNode applies entries and sends what follows from it in one step;    *)
(* here the callbacks of that step come after it.  Nobody can tell, since  *)
(* the metadata are this server's alone and a crash forgets them.          *)
(*                                                                         *)
(* Sizes, times and the locations of a block are left out.  Whether a      *)
(* DataNode is alive, has room or holds a copy is decided by registrations *)
(* and heartbeats each server gets for itself, so it is any answer.        *)
(***************************************************************************)
EXTENDS RaftNode

CONSTANTS
    Paths,
    OpOf, PathOf,       \* the operation and the path of a write request
    NumWorkers,         \* threads of thread_pool_
    MaxRounds           \* bound: items of block reports, and rounds of the fault
                        \* detectors that find a block listed

ASSUME HAAssumption ==
    /\ OpOf \in [Commands -> {"create", "delete", "allocate"}]
    /\ PathOf \in [Commands -> Paths]
    /\ NumWorkers \in Nat /\ MaxRounds \in Nat

VARIABLES
    files,      \* metadata_: path -> ids of its blocks
    blocks,     \* metadata_: the ids that have an entry in the block table
    nextId,     \* block_manager_: next_block_id_
    todo,       \* the entries given to the state machine whose callback is not over
    script,     \* the calls of MetadataStore that are left of the callback under way
    captured,   \* what TakeMetadataSnapshot returned to the TakeSnapshot under way
    saved,      \* the metadata in raft_snapshot.dat
    counted,    \* history: the index up to which RestoreState counted entries as applied
    detect,     \* the fault detector: blocks left to scan, blocks left to repair
    rounds,
    \* history
    touched,    \* the blocks a report or a repair entered since the start
    reused      \* the ids that were given out while a file listed them

storeVars  == <<files, blocks>>
callVars   == <<nextId, todo, script>>
savingVars == <<captured, saved, counted>>
detectVars == <<detect, touched, rounds>>
haVars     == <<vars, storeVars, callVars, savingVars, detectVars, reused>>

NoFiles     == [p \in {} |-> <<>>]
IdsIn(f, p) == {f[p][i] : i \in 1..Len(f[p])}
Listed(f)   == UNION {IdsIn(f, p) : p \in DOMAIN f}
NoMetadata  == [files |-> NoFiles, blocks |-> {}, reused |-> {}]
AtRest      == [scan |-> {}, repair |-> {}]

HAInit ==
    /\ Init
    /\ files = [n \in Nodes |-> NoFiles]
    /\ blocks = [n \in Nodes |-> {}]
    /\ nextId = [n \in Nodes |-> 1]
    /\ todo = [n \in Nodes |-> <<>>]
    /\ script = [n \in Nodes |-> <<>>]
    /\ captured = [n \in Nodes |-> NoMetadata]
    /\ saved = [n \in Nodes |-> NoMetadata]
    /\ counted = [n \in Nodes |-> 0]
    /\ detect = [n \in Nodes |-> AtRest]
    /\ rounds = 0
    /\ touched = [n \in Nodes |-> {}]
    /\ reused = [n \in Nodes |-> {}]

-----------------------------------------------------------------------------
(* The calls of MetadataStore that a callback makes.                       *)

Call(name, p, id) == [name |-> name, path |-> p, id |-> id]

WithFile(f, p, ids) == [q \in DOMAIN f \cup {p} |-> IF q = p THEN ids ELSE f[q]]
WithoutFile(f, p)   == [q \in DOMAIN f \ {p} |-> f[q]]

\* What a call does to the files.  UpdateFile gets the file as GetFile returned it
\* and one more block; nobody else changes a file in between.
FilesBy(f, c) ==
    CASE c.name = "CreateFile" /\ c.path \notin DOMAIN f -> WithFile(f, c.path, <<>>)
      [] c.name = "UpdateFile" /\ c.path \in DOMAIN f ->
            WithFile(f, c.path, Append(f[c.path], c.id))
      [] c.name = "DeleteFile" -> WithoutFile(f, c.path)
      [] OTHER -> f

\* What a call does to the block table.
BlocksBy(b, c) ==
    CASE c.name = "AddBlock"    -> b \cup {c.id}
      [] c.name = "DeleteBlock" -> b \ {c.id}
      [] OTHER -> b

-----------------------------------------------------------------------------
(* OnApplyCommitted and its three handlers.                                *)

ApplyCreateFile(p) == <<Call("CreateFile", p, 0)>>

\* The blocks GetFile names, one after the other, then the file.
ApplyDeleteFile(f, p) ==
    IF p \in DOMAIN f
    THEN [i \in 1..Len(f[p]) |-> Call("DeleteBlock", p, f[p][i])]
            \o <<Call("DeleteFile", p, 0)>>
    ELSE <<>>

\* CommitBlock enters the block AllocateBlock made, then UpdateFile lists it.
ApplyAllocateBlock(f, p, id, room) ==
    IF p \in DOMAIN f /\ room
    THEN <<Call("AddBlock", p, id), Call("UpdateFile", p, id)>>
    ELSE <<>>

CallsFor(f, id, v, room) ==
    CASE OpOf[v] = "create"   -> ApplyCreateFile(PathOf[v])
      [] OpOf[v] = "delete"   -> ApplyDeleteFile(f, PathOf[v])
      [] OpOf[v] = "allocate" -> ApplyAllocateBlock(f, PathOf[v], id, room)

\* The entry is done with its last call.
Remaining(n, calls) ==
    /\ script' = [script EXCEPT ![n] = calls]
    /\ todo' = [todo EXCEPT ![n] = IF calls = <<>> THEN Tail(@) ELSE @]

\* A callback begins: it looks the file up, and an allocation asks whether a
\* DataNode is alive and has room and takes the next id.
OnApplyCommitted(n) ==
    /\ todo[n] # <<>> /\ script[n] = <<>>
    /\ \E room \in BOOLEAN :
        LET v     == Head(todo[n]).cmd
            calls == CallsFor(files[n], nextId[n], v, room)
            taken == IF OpOf[v] = "allocate" /\ calls # <<>> THEN {nextId[n]} ELSE {}
        IN  /\ Remaining(n, calls)
            /\ nextId' = [nextId EXCEPT ![n] = IF taken = {} THEN @ ELSE @ + 1]
            /\ reused' = [reused EXCEPT ![n] = @ \cup (taken \cap Listed(files[n]))]
    /\ UNCHANGED <<vars, storeVars, savingVars, detectVars>>

\* Its next call of MetadataStore.
StoreCall(n) ==
    /\ script[n] # <<>>
    /\ files' = [files EXCEPT ![n] = FilesBy(@, Head(script[n]))]
    /\ blocks' = [blocks EXCEPT ![n] = BlocksBy(@, Head(script[n]))]
    /\ Remaining(n, Tail(script[n]))
    /\ UNCHANGED <<vars, nextId, savingVars, detectVars, reused>>

-----------------------------------------------------------------------------
(* The steps of RaftNode.                                                  *)

\* Mutant of CallbacksOver: the callbacks run without state_mutex_.
CallbacksOverAlways(n) == TRUE

\* No callback is under way, so state_mutex_ is not held for one.
CallbacksOver(n) == todo[n] = <<>>

\* Workers of n inside Propose; the others wait for a request.
Busy(n) ==
    {v \in Commands : call[v].node = n /\ call[v].pc \notin {"committed", "failed"}}

ProposeWrite(n) ==
    \E v \in Commands :
        \/ Cardinality(Busy(n)) < NumWorkers /\ Propose(n, v)
        \/ ProposeAdvance(n, v)
        \/ ProposeSend(n, v)
        \/ ProposeCheck(n, v)

\* A step under state_mutex_.
LockedStep(n) ==
    \/ BecomeCandidate(n)
    \/ StartElection(n)
    \/ \E r \in replies : HandleRequestVoteResponse(n, r)
    \/ FinishElection(n)
    \/ \E m \in requests : HandleRequestVote(n, m)
    \/ \E m \in requests : HandleAppendEntries(n, m)
    \/ HeartbeatTimeout(n)
    \/ AppendEntriesTimeout(n)
    \/ \E r \in replies : HandleAppendEntriesResponse(n, r)
    \/ ProposeWrite(n)
    \/ SnapshotDecide(n)
    \/ SnapshotTrim(n)

\* ApplyCommitted hands what the step committed to the callbacks.
RaftLocked(n) ==
    /\ CallbacksOver(n)
    /\ LockedStep(n)
    /\ todo' = [todo EXCEPT
            ![n] = @ \o SubSeq(applied'[n], Len(applied[n]) + 1, Len(applied'[n]))]
    /\ UNCHANGED <<storeVars, nextId, script, savingVars, detectVars, reused>>

\* A step without it.
RaftUnlocked(n) ==
    /\ \/ RequestVoteTimeout(n)
       \/ ResumeElection(n)
       \/ \E v \in Commands : ProposeTimeout(n, v)
    /\ UNCHANGED <<storeVars, callVars, savingVars, detectVars, reused>>

-----------------------------------------------------------------------------
(* Snapshots and restarts.                                                 *)

\* Mutant of TakeMetadataSnapshot: the snapshot has the files only.
TakeMetadataSnapshotFiles(n) ==
    [files |-> files[n], blocks |-> {}, reused |-> reused[n]]

\* All files, and the entries of the blocks they list.  It is called under
\* state_mutex_, so no callback runs; reports and repairs only add entries.
TakeMetadataSnapshot(n) ==
    [files |-> files[n], blocks |-> blocks[n] \cap Listed(files[n]), reused |-> reused[n]]

CaptureMetadata(n) ==
    /\ CallbacksOver(n)
    /\ SnapshotCapture(n)
    /\ captured' = [captured EXCEPT ![n] =
            IF taking'[n].pc = "captured" THEN TakeMetadataSnapshot(n) ELSE NoMetadata]
    /\ UNCHANGED <<storeVars, callVars, saved, counted, detectVars, reused>>

PublishMetadata(n) ==
    /\ SnapshotPublish(n)
    /\ saved' = [saved EXCEPT ![n] = captured[n]]
    /\ captured' = [captured EXCEPT ![n] = NoMetadata]
    /\ UNCHANGED <<storeVars, callVars, counted, detectVars, reused>>

\* Mutant of RestoreMetadataSnapshot: UpdateFile without CreateFile before it.
RestoreMetadataSnapshotUpdate(n) ==
    /\ files' = [files EXCEPT ![n] = NoFiles]
    /\ blocks' = [blocks EXCEPT ![n] = saved[n].blocks]

\* Into an empty MetadataStore, before anyone is served.
RestoreMetadataSnapshot(n) ==
    /\ files' = [files EXCEPT ![n] = saved[n].files]
    /\ blocks' = [blocks EXCEPT ![n] = saved[n].blocks]

\* Start of a new process; its BlockManager counts from 1.
RestartServer(n) ==
    /\ Restart(n)
    /\ RestoreMetadataSnapshot(n)
    /\ nextId' = [nextId EXCEPT ![n] = 1]
    /\ todo' = [todo EXCEPT ![n] = <<>>]
    /\ script' = [script EXCEPT ![n] = <<>>]
    /\ captured' = [captured EXCEPT ![n] = NoMetadata]
    /\ counted' = [counted EXCEPT ![n] = lastApplied'[n]]
    /\ detect' = [detect EXCEPT ![n] = AtRest]
    /\ touched' = [touched EXCEPT ![n] = {}]
    /\ reused' = [reused EXCEPT ![n] = saved[n].reused]
    /\ UNCHANGED <<saved, rounds>>

-----------------------------------------------------------------------------
(* Block reports and the fault detector: not through the log.              *)

\* UpdateBlockLocation makes an entry for a block that has none.
UpdateBlockLocation(n, id) ==
    /\ blocks' = [blocks EXCEPT ![n] = @ \cup {id}]
    /\ touched' = [touched EXCEPT ![n] = @ \cup {id}]

\* The blocks a DataNode may hold: a server lists the id, or has given it out and
\* a client wrote the block.
AllocatedIds ==
    UNION {Listed(files[s]) \cup 1..(nextId[s] - 1) : s \in Nodes}

\* HandleBlockReport, one item of it; the size it may note is left out.
HandleBlockReport(n, id) ==
    /\ rounds < MaxRounds
    /\ rounds' = rounds + 1
    /\ UpdateBlockLocation(n, id)
    /\ UNCHANGED <<vars, files, callVars, savingVars, detect, reused>>

\* ScanUnderReplicated begins with ListFiles.
ScanUnderReplicated(n) ==
    /\ detect[n] = AtRest
    /\ Listed(files[n]) # {}
    /\ rounds < MaxRounds
    /\ rounds' = rounds + 1
    /\ detect' = [detect EXCEPT ![n].scan = Listed(files[n])]
    /\ UNCHANGED <<vars, storeVars, callVars, savingVars, touched, reused>>

\* GetBlock of the next one: if it has an entry, it may lack replicas.
ScanBlock(n) ==
    \E id \in detect[n].scan :
        /\ \E lacking \in SUBSET ({id} \cap blocks[n]) :
              detect' = [detect EXCEPT ![n] = [scan   |-> @.scan \ {id},
                                               repair |-> @.repair \cup lacking]]
        /\ UNCHANGED <<vars, storeVars, callVars, savingVars, touched, rounds, reused>>

\* RepairUnderReplicated: a copy to a DataNode, which may fail, then its location
\* is entered, whatever became of the block since the scan; it may lack more.
Replicate(n) ==
    /\ detect[n].scan = {}
    /\ \E id \in detect[n].repair :
        /\ \E more \in SUBSET {id} :
              detect' = [detect EXCEPT ![n].repair = (@ \ {id}) \cup more]
        /\ UpdateBlockLocation(n, id) \/ UNCHANGED <<blocks, touched>>
    /\ UNCHANGED <<vars, files, callVars, savingVars, rounds, reused>>

-----------------------------------------------------------------------------
HANext ==
    \E n \in Nodes :
        \/ RaftLocked(n)
        \/ RaftUnlocked(n)
        \/ OnApplyCommitted(n)
        \/ StoreCall(n)
        \/ CaptureMetadata(n)
        \/ PublishMetadata(n)
        \/ RestartServer(n)
        \/ \E id \in AllocatedIds : HandleBlockReport(n, id)
        \/ ScanUnderReplicated(n)
        \/ ScanBlock(n)
        \/ Replicate(n)

HASpec == HAInit /\ [][HANext]_haVars

-----------------------------------------------------------------------------
(* Reads, served by any server from its own metadata at any moment.        *)

HandleListFiles(n) == DOMAIN files[n]

\* The blocks of a file, and whether they have an entry to read locations from.
HandleGetFileBlocks(n, p) ==
    {[id |-> b, known |-> b \in blocks[n]] : b \in IdsIn(files[n], p)}

-----------------------------------------------------------------------------
(* Properties.                                                             *)

\* The files that are there after the entries of l, from an empty namespace.
FilesAfter(l) ==
    {p \in Paths : \E i \in 1..Len(l) :
        /\ OpOf[l[i].cmd] = "create" /\ PathOf[l[i].cmd] = p
        /\ \A j \in (i + 1)..Len(l) :
              ~ (OpOf[l[j].cmd] = "delete" /\ PathOf[l[j].cmd] = p)}

\* The entries whose callbacks have returned.
Finished(n) == SubSeq(applied[n], 1, Len(applied[n]) - Len(todo[n]))

\* Between any two calls of MetadataStore a server lists the files that the
\* entries whose callbacks have returned make of an empty namespace, across
\* snapshots, crashes inside a callback and restarts (OnApplyCommitted,
\* TakeMetadataSnapshot, RestoreMetadataSnapshot).
FilesReflectApplied ==
    \A n \in Nodes : HandleListFiles(n) = FilesAfter(Finished(n))

\* The ids a callback with the calls c left is about to list, and those it takes
\* the entries of because it deletes their file.
BeingListed(c) == {c[i].id : i \in {j \in 1..Len(c) : c[j].name = "UpdateFile"}}
BeingDeleted(f, c) ==
    UNION {IdsIn(f, c[i].path) : i \in {j \in 1..Len(c) : c[j].name = "DeleteFile"}}

\* The block table of a server has an entry for every block a file lists, except
\* of a file whose deletion is under way and of an id that was given out again
\* after a restart; and it has no entry that no file lists, except of an
\* allocation under way and of a block that a report, or a repair which began
\* before the deletion, entered by itself (ApplyAllocateBlock, ApplyDeleteFile,
\* TakeMetadataSnapshot, UpdateBlockLocation).
BlockTableExact ==
    \A n \in Nodes :
        LET f == files[n]
        IN  /\ \A p \in HandleListFiles(n) : \A b \in HandleGetFileBlocks(n, p) :
                  b.known \/ b.id \in BeingDeleted(f, script[n]) \cup reused[n]
            /\ blocks[n] \subseteq Listed(f) \cup BeingListed(script[n]) \cup touched[n]

\* A write is answered as committed only when an entry with its index went
\* through the callbacks of this server, as ProposeWrite takes for granted, in
\* whatever way leaders changed and logs were cut meanwhile.  Except once a snapshot
\* was taken, since log_ may then number its entries from 1 again or have a hole;
\* and after a restart for an index that RestoreState counted as applied, since
\* that entry may have been cut from the log and another one proposed in its place.
AnswersFollowApply ==
    [][\A v \in Commands :
          call[v].pc # "committed" /\ call'[v].pc = "committed"
            => LET n == call[v].node
               IN  \/ \E i \in 1..Len(Finished(n)) : applied[n][i].index = call[v].index
                   \/ call[v].index <= counted[n]
                   \/ snapshots > 0]_call
=============================================================================
