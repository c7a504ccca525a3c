# Verification of the mini storage system

The repository is a small distributed file system: a NameNode, optionally
replicated with Raft, keeps files and blocks; DataNodes store the blocks and
copy them along a write pipeline; an LSM key-value engine stands beside them.
This directory holds TLA+ models of the parts that carry the logic, the TLC runs
that check them on small instances, and TLAPS proofs for every instance.

Paths below are relative to the repository (`src/raft/...` and so on).

## Inventory

| Part | State | Operations | What makes it correct |
|---|---|---|---|
| Raft node (`raft/raft_node.cc`) | term, vote, log (on disk); role, commit and apply positions, next and match index; snapshot | elections, AppendEntries, Propose, TakeSnapshot, restart | one leader per term, one vote per node and term, what is committed is on a majority, what is applied was given to the state machine |
| Raft RPC (`raft/raft_rpc.cc`) | one socket per call | blocking request and reply, three second timeout | a caller always comes back |
| HA NameNode (`namenode_ha_server.cc`) | metadata of every replica | propose, apply, snapshot, restore; block reports, fault detector | a replica lists what its callbacks made; block table and files fit; a write is answered after its callback |
| NameNode server (`namenode_namenode_server.cc`) | none of its own | one worker thread per request; edit log | acknowledged files survive restarts |
| Metadata store, block manager | files and their blocks, block locations, next block id | one lock per call | a block has one owner; a file lists known blocks; ids are unique |
| DataNode manager | status of every DataNode | register, heartbeat, health check | a silent DataNode is not used |
| Fault detector, replication monitor, block replicator | the list of under-replicated blocks | scan, choose targets, copy | repairs record only copies that were made |
| Consistency checker | none | fetch and compare, print | read only |
| Block store (`datanode_block_store.cc`) | data, metadata and temporary file per block | write, read, delete, clean-up | a block is reported exactly when it is stored; a complete write can be read |
| Write pipeline (`datanode_pipeline_handler.cc`) | none | write, forward, wait | success means every DataNode stored the block; every request is answered |
| DataNode client | connection to the NameNode | register, report, heartbeat | the NameNode knows its DataNodes |
| LSM database (`engine/db.cc`) with MemTable, log, SSTables, cache, Bloom filter | MemTable, `current.log`, numbered files, list of files, cached blocks | Put, Delete, Get, flush, compaction, recovery | a map with atomic and durable writes |
| Write-ahead log, write batch, coding | bytes of `current.log`, the stream buffer | encode, frame, flush; read back | a cut file gives back exactly the batches written before the cut |
| Network (`net/`) | epoll set, task queues, buffers, descriptors | event loop, connections, thread pool | requests and responses stay whole and with their client; every task runs; every response arrives; what clients write is read |

How the parts meet: clients, DataNodes and other NameNodes reach a NameNode over
TCP; each request runs on a worker of the thread pool. The HA NameNode hands a
write to `RaftNode::Propose` and waits; Raft calls back into the metadata store
when an entry commits and asks it for a snapshot. The first DataNode of a
pipeline calls the second and blocks on its answer. The fault detector calls
DataNodes to copy blocks. The engine is used by none of the other parts.

What is hard: Raft nodes hold their mutex while they wait for each other;
handlers of the NameNode are made of several separately locked calls; two
connections may write one block through the same temporary file; and Raft state,
edit log, SSTables and blocks are all written in several steps that a crash can
separate. The list of hazards, each at its line, is in `PROJECT.json`.

## Modules

| Module | Models |
|---|---|
| `RaftNode` | Raft replica and its RPC |
| `RaftNode_proofs` | type correctness and election safety of `RaftNode` |
| `RaftLog_proofs` | contiguous logs, one command per slot, and how applied entries leave the disk, of `RaftNode` |
| `RaftCommit_proofs` | what `RaftNode` commits, confirms and applies under one leader |
| `KVStore` | what the storage engine promises |
| `LsmDB` | the storage engine, shown to implement `KVStore` |
| `LsmDB_proofs` | `LsmDB` implements `KVStore`; file numbers are fresh; reads are right |
| `DataNode` | block store and write pipeline of the DataNodes |
| `DataNode_proofs` | a write that was not disturbed can be read; reports are right |
| `NameNode` | NameNode server, metadata, edit log, repair |
| `NameNode_proofs` | types, ownership of blocks, known blocks, recovered files |
| `HANameNode` | the replicated NameNode, on `RaftNode` |
| `HANameNode_proofs` | `HANameNode` is a `RaftNode`; its files and block tables are right; answers follow callbacks |
| `NetServer` | event loop, connections and thread pool under the NameNodes |
| `NetServer_proofs` | requests and responses of `NetServer` are whole |
| `WalFile` | the bytes of the write-ahead log: coding, write batch, log writer and reader |
| `MC*` | instances of the above for TLC |

Operators called "Mutant of ..." are deliberate errors used to show that a
property depends on the definition they alter; no specification uses them.

### RaftNode

An action is one critical section of `state_mutex_`. `currentTerm`, `votedFor`
and `log` are both memory and `raft_state.dat`, because each critical section
that changes them ends with `PersistState`. `StartElection` calls its peers
without the mutex: `ballot[n]` is how far its loop is. `SendHeartbeats` calls
them with the mutex held: while `round[n].wait` names a peer no other thread of
`n` can enter a critical section, which `LockFree(n)` states, and the handlers,
timers and client calls of `n` have to wait. `call[v]` is the client worker inside
`Propose`; `taking[n]` is the health thread inside `TakeSnapshot`, which releases
the mutex between reading the state machine, writing the file and trimming the
log. `applied[n]` is what the state machine was given.

RPCs are a request and a reply on a socket of their own. A call ends with its
reply or with its timeout; a request whose caller gave up may still be in flight
and be handled later (`MaxLate`). Replies to such requests go nowhere. Entries
keep their own index, since after a snapshot the position in `log_` is not the
index.

Abstractions: commands are opaque and each is proposed once. Timeouts may expire
at any moment. A write of `raft_state.dat` is atomic (see the hazards).
`HandleInstallSnapshot` is left out because no code sends that message.

### LsmDB and KVStore

One operation runs at a time, under `mutex_`. A step ends where the disk changes,
and `Crash` may come between any two steps, also leaving a file that was not
written to its end. `KVStore` is a map with a write in progress; `LsmDB`
implements it with the map `Stored`: the MemTable over the newest entry of each
key in the files or, while the process is down, the log over the files. A `Get`
that the MemTable does not answer is a search of the files from the newest to the
oldest, one step per file (`search` is the key and the position in `sst_files_`),
and each step may change the block cache. Keys and
values are one byte long, so that an SSTable has one block; the Bloom filter and
the index may let any absent key through.

### DataNode

The DataNodes of one pipeline store one block. A request is a client's write or a
copy pushed by the NameNode. Every file operation of `WriteBlock` is a step, for
every thread. Files are inodes: a thread goes on writing to the file it opened
after another thread has renamed it. `Reported` is what `ListAllBlocks` sends to the
NameNode, which looks at metadata files only, and `HasBlock` looks at the data;
`cut` remembers that a write or a delete was cut short, or that the two met, since
the block was at rest. Opens fail, and crashes end a write anywhere; the results
of the write and the flush, which the code ignores (`block_store.cc:37`), are left
out, so a full disk is outside the model. `AfterWrite` follows the code in testing the
result of `WriteBlock` without a negation.

### NameNode

`call[c]` is the worker thread of a request. Each call of the metadata store is
atomic and a handler is a sequence of them: a delete reads the file and drops its
blocks, then drops the file; an allocation checks the file, commits the block,
reads the file again, writes it back, answers. `report` is the thread of a block
report and `repair` the fault detector between scan, target choice and copy. A
restart keeps the edit log only, whose last record a crash may have cut short.
The model leaves out clocks and free space (a DataNode may be silent for any
time, and any may be full) and, of sizes, all but whether one is known.

### HANameNode

The module extends `RaftNode`: a server is a Raft node with all its variables and
steps, terms, messages and conflicting logs included, and the metadata its
callbacks maintain. `ProposeWrite` is `Propose` of `RaftNode`, called by one of
the `NumWorkers` workers of that server. What a step of Raft applies goes to
`todo`. `OnApplyCommitted` then begins the callback of the first entry and puts
the calls of `MetadataStore` it will make into `script`, and each `StoreCall` is
one of them, since each takes the store's mutex by itself: `ApplyDeleteFile` is a
`DeleteBlock` per block and a `DeleteFile`, `ApplyAllocateBlock` an `AddBlock` and an
`UpdateFile`. Reads, block reports and repairs come between any two calls. The
steps of Raft that take `state_mutex_` (`RaftLocked`, `CaptureMetadata`) wait until
the callbacks are over, because `ApplyCommitted` runs under that mutex; the others
(`RaftUnlocked`, the file of a snapshot, a crash) do not.

A snapshot copies the files and the entries of the blocks they list, when Raft
captures its own (`CaptureMetadata`), and reaches the disk with it
(`PublishMetadata`). `RestartServer` starts from the metadata on disk, with
`next_block_id_` at 1 again, and remembers in `counted` up to which index
`RestoreState` counted the log as applied. A `HandleBlockReport` and the `Replicate` of the fault
detector end in `UpdateBlockLocation`, which makes an entry for a block that has
none, also for one that was deleted since the scan. `rounds` counts items of
reports and rounds of fault detectors; a scan that finds no file with a block
changes nothing and is not counted. Which DataNodes are alive, have room or hold a
copy is known to each server by itself, so it is any answer on every server, and an
allocation may be carried out on one and skipped on another.

### NetServer

Three kinds of threads: the loop thread, in `epoll_wait`, inside `HandleRead` of
one connection or inside the tasks it took; the workers; and the thread that
stops the server. A byte of a stream is a message and a position in its frame, so
the model can tell whose byte it is and whether a frame was cut. A client writes one
byte at a time (`next` is the one that follows) and the server reads what is there,
so TCP may cut the stream anywhere. A connection lives as long as the map of the
server, a task in the queue, a worker or a pending response holds its
`shared_ptr`; its descriptor is closed with it and may then be given to the next
client. A write to a connection that the peer has reset either fails or kills the
process, since nobody handles SIGPIPE. The check of a worker and its wait are two
steps with the mutex held, while `Stop` sets its flag without it. A request that
`ParseFromString` refuses (`Garbled`) is handled without a response.

`channels` is the map `channels_`. epoll forgets a descriptor when it is closed, the
map does not, so a Channel is `Watched` while its descriptor is open and the map
has it. `HandleEvent` goes on to `HandleWrite` after `HandleRead` has closed the
connection (`WriteAfterClose`). If nobody held the connection any more, it uses
what was destroyed, and the process may die there. If a worker or a task still
holds it, `DisableWriting` on the removed Channel enters it in the map again, with
no events (`net_event_loop.cc:74`). The destructor then does not take it out
(`net_channel.cpp:22`), and the next connection that gets the descriptor is added
with `EPOLL_CTL_MOD`, which fails: nobody ever reads from it (`Shadowed`).

### WalFile

Strings are sequences of bytes, a byte is a number below `2 * VarintBase`, and a
batch is encoded, framed and put in the buffer of the stream as the code does it.
`Sync` writes all of the buffer or, on a full disk, a part, after which the stream
stays bad. A crash leaves a part of the buffer in the file. `Recovered` is
`DB::Recover` with `ReadRecord` and `Iterate`. A string that needs a length of
more than one byte ends the process, because `EncodeVarint32` (`coding.cc:58`)
then writes without end. The CRC is taken for perfect.

## Runs

| Run | Checks | Result |
|---|---|---|
| `raft_restarts` | `ElectionSafety`, `OneVotePerTerm`, `ElectionInv`, `VoteIsFinal`, `AppliedIsDurable` | hold: three nodes, two elections, a write, two snapshots, a restart between any two steps, every RPC answered |
| `raft_replication` | `TypeOK`, `OneCommandPerSlot`, `LogContiguous` | hold: three nodes, two leaders, two writes, an extra round, every RPC answered |
| `raft_commit` | `AckedOnMajority`, `CommittedOnMajority`, `AppliedReachedStateMachine` | hold under one leader with two lost RPCs, a late request, two writes |
| `raft_liveness` | `ElectionReturns` | holds: elections and rounds end even if no peer answers |
| `raft_conflict_kept` | `CommittedOnMajority` | violated after two elections |
| `lsm_store` | `ImplementsKVStore`, `GetSeesStore`, `FileIdsAreFresh` | hold: five writes, flushes, compactions, one crash anywhere |
| `lsm_wal_loss` | `WalProtectsMem` | violated after a restart |
| `datanode_store` | `ReportedIsStored`, `CompleteWriteReadable`, `WriteAnswered` | hold: two DataNodes, two writes, a disk error, a crash, a delete |
| `namenode_metadata` | `BlockOwnedOnce`, `FileBlocksKnown`, `AckedFileRecovered` | hold: three concurrent requests, two restarts, one report, one repair |
| `ha_namenode` | `FilesReflectApplied`, `BlockTableExact`, `AnswersFollowApply` | hold: two servers, a creation, an allocation and a deletion, two leaders, a snapshot, a restart, a block report or a round of repairs between any two calls of a callback |
| `net_server` | `RequestsWhole`, `ResponsesWhole`, `TasksRun`, `ResponsesArrive`, `BytesRead` | hold: two clients, three requests, one of them garbled, two workers, one descriptor, Stop |
| `wal_file` | `AckedBatchesRecovered`, `RecoveredBatchesWritten` | hold: two batches of up to two operations, one crash, a disk that fills up, every cut |

### What the violated properties mean

* `raft_conflict_kept`. `HandleAppendEntries` (`raft_node.cc:447`) appends only
  beyond the end of its log. A follower that kept an entry of an older leader
  under the same index reports it as matching, and the new leader commits an entry
  that a majority does not have.
* `lsm_wal_loss`. The constructor (`db.cc:49`) truncates the log that it has just
  replayed into memory. A second crash before the next flush loses acknowledged
  writes; this is why `lsm_store` is bounded to one crash.

### Bounds

Three nodes are the smallest cluster in which a majority is not everyone. Two
elections give two rival or successive leaders; one leader is enough for the
commit rules, where losses and late requests matter more, and `CommittedOnMajority`
is known to fail with more. In `raft_liveness` eight failures are more than two
elections can use, so the failure bound never removes a timeout. A write buffer
of two bytes makes one or two writes fill a MemTable, five writes reach the three
files that start a compaction by themselves, and a cache of one block evicts at
every other read. Two DataNodes are a pipeline with a first and a last node.
Three requests are a create and two allocations, or a create, an allocation and a
delete; two paths keep them apart.

In `ha_namenode` two servers are enough for what it checks, which is said of one
server at a time: a leader and a follower, both of which may have been elected. A
leader needs the vote of the other, which compares the logs, so conflicting logs as in
`raft_conflict_kept` take three servers; these are covered by the theorems, which
say the same three properties of every cluster. The three writes are each kind of write on one path; with a
threshold of one entry the snapshot comes early enough for a restart to need it. An
id that is given out again while a file lists it takes five writes and a restart,
which is beyond TLC here. In `net_server` one client makes two requests, of
different length, and the other one, so that responses can overtake each other and
a second connection gets the descriptor of the first; a send buffer of two bytes is
smaller than a frame. In `wal_file` the strings are empty, of the greatest length
one byte can say (with bytes that look like lengths and types), and too long; two
batches are needed to see that nothing follows a torn record.

`CHECK_DEADLOCK FALSE` is set throughout because every model may stop once its
bounds are used up.

### Fairness

`raft_liveness` assumes that the timer thread is scheduled, that it gets
`state_mutex_` when that is free, and that a call ends within its socket timeout
(`raft_rpc.cc` sets one). Peers may stay silent for ever. `datanode_store`
assumes the same of the threads of the first DataNode, whose socket to the second
has a five second timeout. `net_server` assumes that some thread of the server runs
as long as one can, and that clients that stay connected read what they are sent;
the loop never waits for a client, since its sockets do not block. Nothing else is
fair: clients may write, close or stop at any time.

## Proofs

Each theorem holds for every value of the constants: every cluster, every set of
commands, paths, keys or values, and every bound.

| Module | Theorem | Statement |
|---|---|---|
| `RaftNode_proofs` | `TypeCorrect` | `Spec => []TypeOK` |
| | `VoteFinal` | `Spec => VoteIsFinal` |
| | `OneVote` | `Spec => []OneVotePerTerm` |
| | `ElectionSafe` | `Spec => []ElectionSafety` |
| | `VotesCounted` | `Spec => []ElectionInv` |
| `RaftLog_proofs` | `NoHoles` | `Spec => [](snapshots = 0 => LogContiguous)` |
| | `OneCommand` | `Spec => [](snapshots = 0 => OneCommandPerSlot)` |
| | `AppliedLeavesByConflict` | `Spec =>` an entry that was applied leaves the disk of a node only when `HandleAppendEntries` cuts it off the log for a conflict |
| `RaftCommit_proofs` | `CommitsBacked` | `Spec => [](FirstLeader => CommittedOnMajority)` |
| | `AcksBacked` | `Spec => [](FirstLeader => AckedOnMajority)` |
| | `AppliedGiven` | `Spec => [](FirstLeader /\ restarts = 0 => AppliedReachedStateMachine)` |
| `LsmDB_proofs` | `FilesFresh` | `Spec => []FileIdsAreFresh` |
| | `GetAnswers` | `Spec => GetSeesStore` |
| | `Implements` | `Spec /\ [](crashes <= 1) => ImplementsKVStore` |
| `DataNode_proofs` | `WritesReadable` | `FairSpec => []CompleteWriteReadable` |
| | `ReportsRight` | `FairSpec => []ReportedIsStored` |
| `NameNode_proofs` | `TypeCorrect` | `Spec => []TypeOK` |
| | `BlocksOwnedOnce` | `Spec => []BlockOwnedOnce` |
| | `FilesKnown` | `Spec => []FileBlocksKnown` |
| | `AckedRecovered` | `Spec => []AckedFileRecovered` |
| `HANameNode_proofs` | `RunsRaft` | `HASpec => Spec`, the specification of `RaftNode` |
| | `FilesFollow` | `HASpec => []FilesReflectApplied` |
| | `BlocksFollow` | `HASpec => []BlockTableExact` |
| | `AnswersFollow` | `HASpec => AnswersFollowApply` |
| `NetServer_proofs` | `RequestsArriveWhole` | `Spec => []RequestsWhole` |
| | `ResponsesGoWhole` | `Spec => []ResponsesWhole` |

The assumptions are the named ones of the modules (finite sets of nodes, `Nil`
outside them, bounds that are natural numbers), which TLC evaluates in the runs.
Every inductive invariant below was also checked by TLC on the instance of the
run before it was proved.

**Types of Raft.** `TypeOK` is not inductive by itself: `next_index_ - 1` is the
`prevIndex` of a request, so its type depends on `next_index_` being at least one,
in a leader and in a node whose round goes on after it stepped down. `TypeInv` adds
`NextIndexPositive`, and the proof has one lemma per group of actions.

**Elections.** `ElectionSafety` needs to know why a leader had a majority.
`ElectionInv` says that each node's recorded votes agree with `voted_for_`
(`VotesAreRecorded`), that a granting reply stands for a vote (`GrantsAreVotes`),
that a candidate's `votes_received_` is at most the number of peers that voted for
it and whose reply is no longer outstanding (`CountIsBacked`), and that a leader
was elected by a majority (`ElectedByMajority`). The count is the delicate part:
the loop of `StartElection` asks each peer once, so no vote is counted twice
(`BallotShape`). Two majorities share a node (`QuorumsMeet`), and a node votes once
per term.

**Raft logs.** `NoHoles` and `OneCommand` have the condition that no snapshot was taken yet.
They are false afterwards, and that is the code and not the proof: once a snapshot
has emptied `log_`, `Propose` numbers the next entry 1 again (`raft_node.cc:76`).
`LogContiguous` needs the same of the entries in flight: a request carries the
entries that follow its `prevIndex`, without a hole (`RequestsContiguous`).
`OneCommandPerSlot` says that two entries with the same term and index, in any two
logs, are the same. `SlotInv` adds where entries come from: each was made in a term
somebody won (`EntriesElected`), a leader that proposed in its term still holds
all it proposed (`LeaderHolds`), a node that has been elected in a term has not
left it backwards (`ElectedBefore`), and logs and requests agree on every slot
(`SlotsAgree`). `ElectionSafety` then leaves one leader that can have made a slot.

`AppliedLeavesByConflict` has no condition. An entry is on disk when the log or the
snapshot file has it. Logs, and the entries of requests, have rising indexes
(`Ordered`), so trimming a log removes what the snapshot covers by its index, and
`Given` says that a snapshot under way has every applied entry up to its index, that
the published one has no other, and that a newer one includes an older one. So no
order of the steps of `TakeSnapshot`, appends and crashes loses an entry, and what is
left is the branch of `HandleAppendEntries` that cuts (`Cuts`). The code does take
that branch for applied entries, see the observations.

**Commits.** `FirstLeader` says that no snapshot was taken and that one leader was
elected at most, with any number of lost, late and repeated requests and of restarts
(`AppliedGiven` excepts restarts). Beyond it the properties fail, and again that is the
code: after a second election `AppendNew` lets a follower keep an entry of the old
leader and confirm it (`raft_conflict_kept`), after a snapshot `Propose` numbers from 1
again, and a restart counts a log as applied that the state machine never got
(`RestoreState`). `CommitInv` holds under that condition. Only the one leader sends, and
every entry was made by it, so its requests conflict with no log and logs only grow
(`Senders`); `next_index_` is at most one past the leader's log (`NextBound`); what
`match_index_` or a reply in flight says of a peer is at most the length of the log of
that peer (`MatchBound`), which carries a count of peers over to a majority of logs. A leader's
`commit_index_`, and that of a deposed one with a worker still inside `Propose`, is 0
or on a majority (`Backed`, `Calls`); a state machine was given what the log has up to
`last_applied_` (`Applied`). A leader that stepped down may go on with its round and tell a follower
of any term; that is why `Senders` is about `WasElected` and not about the role.

**Storage engine.** `IInv` of `LsmDB_proofs` has seven parts: the types; a running
process knows the files of the directory, in order, and all are older than
`next_file_id_` (`ListInv`); a cached block is the block of its file (`CacheInv`); a
file just built has what it was built from (`BuildInv`); the files a search has passed
over do not have its key (`SearchInv`); which steps belong to which write (`OpInv`);
and until the first crash the log has what the MemTable has (`LogInv`). The refinement
goes through `NewestIn(F, k)`, the newest entry of a key in a directory: a flush adds
a file that is newer than all others, the file of a compaction has the newest
entry of each key (`MergedNewest`), and taking away the older ones, one at a time,
then changes no answer. That the files are removed only after the new one is
complete, and the new one has the highest number, is what makes a crash in between
harmless. `Implements` allows one crash, because the property is false after two
(`lsm_wal_loss`: the constructor has emptied the log); the other two theorems allow
any number.

**DataNode.** A write that had the block to itself can be read afterwards. `NodeInv`
says for each DataNode that a thread inside `WriteBlock` has a file open
(`HandlesOpen`), that the stream of a write without rivals is the temporary file and
holds what the write has put there (`SoleWrite`), that nobody touches the files of a
complete write (`SureWrite`), and that a process that does not run has no threads.
The hard case is the rename, by which a rival's open stream would become the block.
`ReportsRight` needs two more facts, in `ReportInv`. The thread of a request is at
one DataNode at a time (`OneThread`), so nobody takes a write out of the middle of
`WriteBlock`. And while writes are under way that met no delete, the data are in the
temporary file or in place, and the metadata are complete or one of the writes has
still to write them (`StoredInv`); so the last one to leave finds its temporary file
renamed by another at worst, and leaves both files.

**NameNode.** A block id is owned once because ids come from a counter and the
handler that got one keeps it to itself until it lists it. Between reading a file and
writing it back an allocation holds a second copy of the file's list, so the
invariant is about all these lists: every id in use was given out since the last
restart (`IdsGivenOut`), the id of a pending allocation is its own and in no list
(`PendingIdUnlisted`), lists of two paths are disjoint (`ListsDisjoint`), and listed
and pending blocks are known (`ListedKnown`). `RequestsInv` says that a file about to
be logged as created is there, and that one about to be dropped was asked to be
deleted.

**Replicated NameNode.** Every step of `HANameNode` is a step of `RaftNode` or leaves
its variables alone (`RunsRaft`), so each theorem about Raft holds of the replicated
NameNode too, and `TypeOK` of Raft can be used below. Nothing is assumed about what
Raft commits or who leads: the theorems say what callbacks, snapshots and restarts
make of whatever is applied. `HAInv` is about one server at a time. `Holds` says
that the entries of `todo` are the last of those applied and that the files are what
the others make (`FilesAt`); and either no callback is under way and the block table
fits (`Steady`), or the calls that are left are those of the first entry of `todo`
(`UnderWay`). This is where the strengthening lies, because in the middle of a
callback the table fits only up to what its remaining calls will do: a deletion has
taken the entries of some blocks, those it has not yet deleted are in its calls, and
an entry it has taken may be back by a report or a repair (`Deleting`); an
allocation has the entry and not yet the list, and its id is in no list unless it was
given out again (`Allocating`). That two files share no block but a reused one
(`SharedKnown`) keeps a deletion from the entries of others. `Stored` says that the
metadata of a snapshot are what its entries make, in the memory of a `TakeSnapshot`
under way and on disk, which a restart brings back.

`AnswersFollow` joins the two layers. `AnswerInv` says that, until the first
snapshot, a server has applied up to its `commit_index_` and that an entry of every
index up to there was given to its callbacks, except those `RestoreState` counted
(`Through`). The step that commits more goes through the log up to the new index,
and by `NoHoles` of `RaftLog_proofs` the log has every index in between
(`GivesAll`). `Propose` answers only when no callback is left (`RaftLocked`), so what was
given has also been carried out.

**Network.** `RequestsWhole` and `ResponsesWhole` compare streams that are cut and put
together again with whole frames; the proof needs no induction over them, because what
is known of a stream is said byte by byte. `LifeInv` says who may use a descriptor: an open
connection has its own (`FdsOwned`), every task holds an open one (`TasksHold`), so
a write through `conn[c].fd` reaches `c` and nobody else, and only connections in the
map are read (`ListenersKept`). `RequestInv` says that the bytes in `read_buf_`, those
not read yet and the next one the client writes are `Chained`, each followed by the rest of
its frame and that by the next request, and that the first byte starts the request
after the last one delivered; a frame taken from the front leaves that true
(`ChainCut`). `ResponseInv` follows a message through the system: it is handled once
(`UnhandledOnce`), waits for the loop once and has then not been written (`UnsentOnce`),
and what is written together with `write_buf_` is whole frames (`WrittenInv`); a
connection that is destroyed leaves a start of that (`StartResponses`).

Only model-checked:

* liveness (`ElectionReturns`, `WriteAnswered`, `TasksRun`, `ResponsesArrive`):
  the prover has no rule for fairness and `ENABLED`;
* `BytesRead` of `NetServer`, for the same reason;
* the properties of **Commits** on instances that are not in `FirstLeader`, and
  `AppliedIsDurable`: `raft_restarts` checks it with two elections, a restart and two
  snapshots but one write and no lost RPC, and it holds of that instance only;
* `AckedBatchesRecovered` and `RecoveredBatchesWritten` of `WalFile`: recovery parses
  the bytes of the file recursively, which needs induction over sequences.

## Observations without a run

* A crash inside `PersistState` (`raft_node.cc:886`) leaves an empty file, and
  the node forgets its vote. `OneVote` is proved for atomic writes of the file.
* After a snapshot that empties the log, `Propose` starts again at index 1 and
  reports the entry as committed at once (`raft_node.cc:76`; `note/note.md` says
  so too); it is never applied, and the client of the HA NameNode is answered from
  metadata it never reached, against the comment at `namenode_ha_server.cc:405`.
  `AckedOnMajority` is checked without snapshots, and `AnswersFollowApply` is about
  the time before the first snapshot.
* A restart has the same effect on a smaller scale: `RestoreState` takes the index of
  the last entry on disk for `commit_index_`. If a new leader cuts that entry and the
  server later leads itself, a write proposed at that index is answered at once and
  never applied. `AnswersFollowApply` excepts the indexes that were counted so
  (`counted`).
* After its snapshot a leader sends `prev_log_term` 0 to a follower that is behind,
  and the follower cuts entries it has committed and applied (`raft_node.cc:772`).
  `AppliedIsDurable` fails with three elections, two writes, a snapshot and one lost
  RPC. `AppliedLeavesByConflict` says that such a cut is the only way.
* With a second leader `AckedOnMajority` fails like `CommittedOnMajority`: a write is
  acknowledged that a majority does not have and a later leader may lack. A file the
  HA NameNode has acknowledged may then be missing from a later leader, so no
  property of `HANameNode` says that it stays.
* A leader that steps down in the middle of a round goes on sending, with the new
  leader's term (`raft_node.cc:765`).
* A snapshot taken after a restart covers entries the state machine never got.
* `edit.log` is appended to after a record that was cut short; replay never
  reaches what follows. `AckedFileRecovered` excepts those files.
* Two concurrent allocations for one file may drop each other's block from the
  file's list (`namenode_namenode_server.cc:178`).
* A restarted Raft node counts its whole log as applied (`raft_node.cc:961`) while
  its metadata start from the snapshot, and `AppliedReachedStateMachine` fails with
  the first restart. `raft_node.h:168` says of `last_applied_` that it is what was
  really applied. `HANameNode` has this restart: what its metadata lack after it is
  what `RaftNode` did not apply again, and `FilesReflectApplied` is about the rest.
* The fault detector makes an entry for a block that was deleted after its scan, and
  a block report makes one for any block (`UpdateBlockLocation`,
  `namenode_metadata_store.cc:107`). Nothing takes such an entry away;
  `BlockTableExact` excepts it.
* A follower that is behind the snapshot of its leader never gets what the snapshot
  covers: no code sends `InstallSnapshot`. One whose `next_index_` is still 1 since
  the election is sent the entries that are left in `log_` with `prev_log_index` 0
  (`raft_node.cc:794`); if its log is empty it appends and applies them, and its
  log has a hole. `LogContiguous` and `AnswersFollowApply` are therefore about the time
  before the first snapshot.
* `HandlerWrite` (`datanode_pipeline_handler.cc:22`) tests the result of
  `WriteBlock` without a negation: it answers failure for a write that succeeded
  and success for one that failed, against the comment at line 45.
* `next_block_id_` starts at 1 in each process: after a restart ids are given out
  that DataNodes, and files restored from a snapshot, already have
  (`namenode_block_manager.cc:34`; line 13 calls the id globally unique).
* The HA NameNode answers an allocation with the last block of the file
  (`namenode_ha_server.cc:420`), so concurrent allocations may be answered with the
  same block, and one that was skipped with an older one. Servers that skip
  different allocations have different block lists.
* `Replay` of the edit log handles CREATE_FILE only: deleted files come back, and
  files come back without blocks (`namenode_namenode_server.cc:28`).
* A DataNode registers only when it starts. After a restart of the NameNode its
  heartbeats are refused until it is restarted too (`datanode_datanode_client.cc`).
* `ThreadPool::Stop` (`net_thread_pool.cc:35`) sets its flag without the mutex: a
  worker between check and wait misses the notification and `join` never returns.
  The behaviour is in `NetServer`; `TasksRun` holds all the same. A task submitted
  after that, and a response pending when the loop sees `quit_`, are lost.
* A Channel that `HandleEvent` uses after `HandleRead` closed it stays in
  `channels_`, and the next connection on its descriptor is never read
  (`net_event_loop.cc:74`, `net_channel.cpp:22`; see `NetServer`). `BytesRead` excepts
  those connections.
* A request that does not parse gets no response and its connection stays open
  (`namenode_namenode_server.cc:77`). `ResponsesArrive` is about the others.
* A worker that drops the last reference to a connection changes `channels_` while
  the loop thread uses it (`net_event_loop.cc:93`).
* `propose_cv_` is notified without `propose_mutex_` (`raft_node.cc:122`): a
  commit between check and wait is noticed at the timeout only.
* `DB::FlushMemTable` is public (`db.h:44`) and takes no lock (`db.cc:264`). `LsmDB`
  has it where `Put` calls it, under `mutex_`; nothing in the repository calls it
  otherwise, and a caller that did would race with `Put` and `Get`.
* The result of `Sync` is not looked at (`db.cc:187`), so the write that meets a full
  disk is acknowledged; `AckedBatchesRecovered` allows for that one.
* `EncodeVarint32` also writes offset and size of a block in an SSTable, so a
  MemTable of more than 123 bytes cannot be flushed. `LsmDB` is about smaller ones.

## Not modelled

* The C++ that protoc generates from `proto/`: about 24300 of the 32500 lines of
  code in the repository. Messages are records in the models. Of the 8200 lines
  written by hand the map covers 3800; the rest are comments, headers, tests,
  printing, and the code below.
* The consistency checker, which reads replicas and prints.
* Clocks, free space, sizes, and the byte formats of SSTables, blocks and edit log
  records.
* `HandleInstallSnapshot`, which nothing calls, and a crash inside `PersistState`.
* The thread that makes DataNodes register and report: its messages are modelled
  where they arrive.
* Failing starts, and shutdown other than that of the network layer.

## Plan

What is left: a module of the two mutexes of `RaftNode`, which would show their lock
order (`raft_node.cc:984`); a write of `raft_state.dat` in two steps, under which
`OneVotePerTerm` is expected to fail; and a model of the log file at the level of
records, over which recovery could be proved record by record.
