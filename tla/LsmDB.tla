------------------------------- MODULE LsmDB -------------------------------
(***************************************************************************)
(* The LSM storage engine (src/src/engine): DB with its MemTable, its      *)
(* write-ahead log current.log, its numbered SSTable files and its block   *)
(* cache.                                                                  *)
(*                                                                         *)
(* mutex_ is held by every public operation, so one operation runs at a    *)
(* time; "pc" is how far the operation that holds it is.  A step ends      *)
(* where the operation changes what is on disk, because a crash between    *)
(* two such steps is what the engine has to survive.                       *)
(*                                                                         *)
(* Keys and values are one byte each.  The length of a key or a value only *)
(* matters to MemTable::Size.  One block holds a whole SSTable, as in      *)
(* every file the code can finish: EncodeVarint32 does not end for an      *)
(* offset or a size of 128 or more (see WalFile).                          *)
(***************************************************************************)
EXTENDS Integers, Sequences, FiniteSets, FiniteSetsExt

CONSTANTS
    Keys,
    Values,         \* the non-empty values
    Empty,          \* the empty string: a tombstone
    WriteBuffer,    \* options_.write_buffer_size
    MaxSSTables,    \* options_.max_sstable_count
    CacheCapacity,  \* options_.block_cache_size
    MaxWrites,      \* bound: Put and Delete calls
    MaxCompactions, \* bound: Compaction calls
    MaxCrashes      \* bound: crashes

ASSUME LsmAssumption ==
    /\ IsFiniteSet(Keys)
    /\ Empty \notin Values /\ Empty \notin Keys
    /\ WriteBuffer \in Nat \ {0}
    /\ MaxSSTables \in Nat \ {0, 1}
    /\ CacheCapacity \in Nat \ {0}
    /\ MaxWrites \in Nat /\ MaxCompactions \in Nat /\ MaxCrashes \in Nat

VARIABLES
    \* disk
    wal,        \* the records of current.log, each a key and a value
    files,      \* id -> the SSTable and whether it was written to its end
    \* memory
    pc,         \* what the holder of mutex_ does next; "down" without a process
    mem,        \* the MemTable
    sstFiles,   \* sst_files_, ids from old to new
    nextId,     \* next_sst_id_
    cache,      \* the blocks in the LRU cache, most recent first
    op,         \* the Put or Delete in progress
    search,     \* the Get in progress: its key and the position it looks at
    \* bounds
    writes, compactions, crashes

vars == <<wal, files, pc, mem, sstFiles, nextId, cache, op, search, writes, compactions, crashes>>
boundVars == <<writes, compactions, crashes>>

-----------------------------------------------------------------------------
(* Tables: functions from some of the keys to values.                      *)

NoEntries == [k \in {} |-> Empty]
NoOp      == [key |-> Empty, value |-> Empty, done |-> TRUE]
NoSearch  == [key |-> Empty, pos |-> 0]
Whole(t)  == [whole |-> TRUE, table |-> t]
Broken    == [whole |-> FALSE, table |-> NoEntries]

Tables == UNION {[S -> Values \cup {Empty}] : S \in SUBSET Keys}

\* MemTable::Put replaces the value of a key or inserts the key.
MemPut(m, k, v) == [x \in DOMAIN m \cup {k} |-> IF x = k THEN v ELSE m[x]]

\* MemTable::Size: the bytes of all keys and values.
MemSize(m) == Cardinality(DOMAIN m) + Cardinality({k \in DOMAIN m : m[k] # Empty})

\* Recover: the records of the log, replayed in order by MemTableInserter.
Replay(w) ==
    [k \in {w[i].key : i \in 1..Len(w)} |->
        LET last == CHOOSE i \in 1..Len(w) :
                        w[i].key = k /\ \A j \in 1..Len(w) : w[j].key = k => j <= i
        IN  w[last].value]

\* SSTableReader::Open fails on a file that was not written to its end.
Readable(id) == id \in DOMAIN files /\ files[id].whole

\* ReadDataBlock: the cached copy of the block of file id, or the file.
Block(id) ==
    LET hits == {i \in 1..Len(cache) : cache[i].id = id}
    IN  IF hits = {} THEN files[id].table ELSE cache[CHOOSE i \in hits : TRUE].block

\* SSTableReader::Get: the file can be opened and has the key.
Has(id, k) == Readable(id) /\ k \in DOMAIN Block(id)

\* Mutant of FirstSearched: the newest file is passed over.
FirstSearchedNext(list) == Len(list) - 1

\* GetFromSSTables: the list is searched from its end.
FirstSearched(list) == Len(list)

\* LRUCache: a block that is read moves to the front, or enters there, and the
\* one at the end makes room.
Touch(c, id) ==
    LET at   == {i \in 1..Len(c) : c[i].id = id}
        hit  == CHOOSE i \in at : TRUE
        rest == IF at # {} THEN SubSeq(c, 1, hit - 1) \o SubSeq(c, hit + 1, Len(c))
                ELSE IF Len(c) < CacheCapacity THEN c
                ELSE SubSeq(c, 1, Len(c) - 1)
    IN  <<[id |-> id, block |-> Block(id)]>> \o rest

\* The files of a list, from old to new, merged into one table: a newer value
\* replaces an older one, and tombstones are dropped.
Merged(list) ==
    LET keys == UNION {DOMAIN files[list[i]].table : i \in {j \in 1..Len(list) : Readable(list[j])}}
        newest(k) == CHOOSE i \in 1..Len(list) :
                        /\ Readable(list[i]) /\ k \in DOMAIN files[list[i]].table
                        /\ \A j \in (i + 1)..Len(list) :
                              Readable(list[j]) => k \notin DOMAIN files[list[j]].table
        value == [k \in keys |-> files[list[newest(k)]].table[k]]
        live  == {k \in keys : value[k] # Empty}
    IN  [k \in live |-> value[k]]

\* LoadSSTableList: the files of the directory sorted by number.
SortedLists ==
    {s \in [1..Cardinality(DOMAIN files) -> DOMAIN files] :
        /\ \A id \in DOMAIN files : \E i \in DOMAIN s : s[i] = id
        /\ \A i, j \in DOMAIN s : i < j => s[i] < s[j]}

\* Mutant of NextFileId: the highest number is used again.
NextFileIdSame == IF files = NoEntries THEN 1 ELSE Max(DOMAIN files)

\* LoadSSTableList: one more than the highest number.
NextFileId == IF files = NoEntries THEN 1 ELSE Max(DOMAIN files) + 1

AddFile(id, f) == [x \in DOMAIN files \cup {id} |-> IF x = id THEN f ELSE files[x]]
RemoveFile(id) == [x \in DOMAIN files \ {id} |-> files[x]]

-----------------------------------------------------------------------------
\* An empty directory, opened for the first time.
Init ==
    /\ wal = <<>>
    /\ files = NoEntries
    /\ pc = "idle"
    /\ mem = NoEntries
    /\ sstFiles = <<>>
    /\ nextId = 1
    /\ cache = <<>>
    /\ op = NoOp
    /\ search = NoSearch
    /\ writes = 0 /\ compactions = 0 /\ crashes = 0

-----------------------------------------------------------------------------
(* Put and Delete.                                                         *)

\* AddRecord and Sync: the record is in current.log.
LogWrite(k, v, next) ==
    /\ pc = "idle"
    /\ writes < MaxWrites
    /\ writes' = writes + 1
    /\ wal' = Append(wal, [key |-> k, value |-> v])
    /\ op' = [key |-> k, value |-> v, done |-> FALSE]
    /\ pc' = next
    /\ UNCHANGED <<files, mem, sstFiles, nextId, cache, search, compactions, crashes>>

\* Put also takes the empty string, which then is a tombstone.
Put(k, v) == LogWrite(k, v, "put")
Delete(k) == LogWrite(k, Empty, "delete")

\* The write reaches the MemTable; only Put looks at its size.
ApplyWrite ==
    LET m == MemPut(mem, op.key, op.value)
        full == pc = "put" /\ MemSize(m) >= WriteBuffer
    IN  /\ pc \in {"put", "delete"}
        /\ mem' = m
        /\ pc' = IF full THEN "flush" ELSE "idle"
        /\ op' = IF full THEN [op EXCEPT !.done = TRUE] ELSE NoOp
        /\ UNCHANGED <<wal, files, sstFiles, nextId, cache, search, boundVars>>

-----------------------------------------------------------------------------
(* Get.                                                                    *)

\* Get answers from the MemTable, which changes nothing, or searches the files.
Get(k) ==
    /\ pc = "idle"
    /\ k \notin DOMAIN mem
    /\ FirstSearched(sstFiles) > 0
    /\ search' = [key |-> k, pos |-> FirstSearched(sstFiles)]
    /\ pc' = "get"
    /\ UNCHANGED <<wal, files, mem, sstFiles, nextId, cache, op, boundVars>>

\* The file that the search looks at has the key.
Found == Has(sstFiles[search.pos], search.key)

\* What Get answers when it returns from here; Empty stands for "not found",
\* which is also the answer for a tombstone.
Answer == IF Found THEN Block(sstFiles[search.pos])[search.key] ELSE Empty

\* One file is searched.  If the key is not there, its block is read, and cached,
\* only if index and Bloom filter let the key through.
SearchFile ==
    LET id == sstFiles[search.pos]
    IN  /\ pc = "get"
        /\ \/ Readable(id) /\ cache' = Touch(cache, id)
           \/ ~ Found /\ UNCHANGED cache
        /\ IF Found \/ search.pos = 1
           THEN pc' = "idle" /\ search' = NoSearch
           ELSE search' = [search EXCEPT !.pos = @ - 1] /\ UNCHANGED pc
        /\ UNCHANGED <<wal, files, mem, sstFiles, nextId, op, boundVars>>

-----------------------------------------------------------------------------
(* FlushMemTable, called by a Put that filled the MemTable.                *)

\* The MemTable is written to a new file.
FlushBuild ==
    /\ pc = "flush"
    /\ files' = AddFile(nextId, Whole(mem))
    /\ nextId' = nextId + 1
    /\ pc' = "built"
    /\ UNCHANGED <<wal, mem, sstFiles, cache, op, search, boundVars>>

\* The file joins the list, the MemTable is emptied and the log starts again;
\* too many files start a compaction.
FlushInstall ==
    LET list == Append(sstFiles, nextId - 1)
        compact == Len(list) >= MaxSSTables
    IN  /\ pc = "built"
        /\ sstFiles' = list
        /\ mem' = NoEntries
        /\ wal' = <<>>
        /\ pc' = IF compact THEN "merge" ELSE "idle"
        /\ op' = IF compact THEN op ELSE NoOp
        /\ UNCHANGED <<files, nextId, cache, search, boundVars>>

-----------------------------------------------------------------------------
(* DoCompaction, called by FlushMemTable or by Compaction.                 *)

Compaction ==
    /\ pc = "idle"
    /\ compactions < MaxCompactions
    /\ Len(sstFiles) > 1
    /\ compactions' = compactions + 1
    /\ pc' = "merge"
    /\ UNCHANGED <<wal, files, mem, sstFiles, nextId, cache, op, search, writes, crashes>>

\* All files are merged into a new one and the cache is cleared.
MergeBuild ==
    /\ pc = "merge"
    /\ files' = AddFile(nextId, Whole(Merged(sstFiles)))
    /\ nextId' = nextId + 1
    /\ cache' = <<>>
    /\ pc' = "sweep"
    /\ UNCHANGED <<wal, mem, sstFiles, op, search, boundVars>>

\* Mutant of SweepFirst: the newest file goes first.
SweepFirstNewest(left) == CHOOSE i \in left : \A j \in left : j <= i

\* The old files are deleted in the order of the list.
SweepFirst(left) == CHOOSE i \in left : \A j \in left : i <= j

\* One old file is deleted; after the last one the list is the new file.
Sweep ==
    LET left  == {i \in 1..Len(sstFiles) : sstFiles[i] \in DOMAIN files}
        first == SweepFirst(left)
    IN  /\ pc = "sweep"
        /\ files' = RemoveFile(sstFiles[first])
        /\ IF left = {first}
           THEN /\ sstFiles' = <<nextId - 1>>
                /\ pc' = "idle"
                /\ op' = NoOp
           ELSE UNCHANGED <<sstFiles, pc, op>>
        /\ UNCHANGED <<wal, mem, nextId, cache, search, boundVars>>

-----------------------------------------------------------------------------
(* Crash, and the constructor.                                             *)

\* The process dies.  A file it was writing stays behind, cut short.
Crash ==
    /\ pc # "down"
    /\ crashes < MaxCrashes
    /\ crashes' = crashes + 1
    /\ \/ UNCHANGED files
       \/ pc \in {"flush", "merge"} /\ files' = AddFile(nextId, Broken)
    /\ pc' = "down"
    /\ mem' = NoEntries
    /\ sstFiles' = <<>>
    /\ nextId' = 1
    /\ cache' = <<>>
    /\ op' = NoOp
    /\ search' = NoSearch
    /\ UNCHANGED <<wal, writes, compactions>>

\* LoadSSTableList and Recover.
Recover ==
    /\ pc = "down"
    /\ sstFiles' \in SortedLists
    /\ nextId' = NextFileId
    /\ mem' = Replay(wal)
    /\ pc' = "recovered"
    /\ UNCHANGED <<wal, files, cache, op, search, boundVars>>

\* The end of the constructor: current.log is truncated for the new process.
TruncateLog ==
    /\ pc = "recovered"
    /\ wal' = <<>>
    /\ pc' = "idle"
    /\ UNCHANGED <<files, mem, sstFiles, nextId, cache, op, search, boundVars>>

-----------------------------------------------------------------------------
Next ==
    \/ \E k \in Keys, v \in Values \cup {Empty} : Put(k, v)
    \/ \E k \in Keys : Delete(k)
    \/ \E k \in Keys : Get(k)
    \/ SearchFile
    \/ ApplyWrite
    \/ FlushBuild
    \/ FlushInstall
    \/ Compaction
    \/ MergeBuild
    \/ Sweep
    \/ Crash
    \/ Recover
    \/ TruncateLog

Spec == Init /\ [][Next]_vars

-----------------------------------------------------------------------------
(* Properties.                                                             *)

\* The files on disk that have an entry for a key.
Having(k) == {id \in DOMAIN files : Readable(id) /\ k \in DOMAIN files[id].table}

\* The newest entry of the files on disk, for a key.
OnDisk(k) == IF Having(k) = {} THEN Empty ELSE files[Max(Having(k))].table[k]

\* What is stored: for a running process its MemTable over the files, for one
\* that is down the log over the files.
Stored ==
    LET m == IF pc = "down" THEN Replay(wal) ELSE mem
    IN  [k \in Keys |-> IF k \in DOMAIN m THEN m[k] ELSE OnDisk(k)]

KV == INSTANCE KVStore WITH kv <- Stored

\* The engine implements a map with atomic, durable writes: no flush,
\* compaction or crash in any of their steps changes what is stored, brings a
\* deleted key back or undoes a write that returned (Put, Delete,
\* FlushMemTable, DoCompaction, LoadSSTableList, Recover).
ImplementsKVStore == KV!Spec

\* A Get answers what is stored: the list of files is the directory in order,
\* the search passes over no file that has the key and no cached block is stale
\* (GetFromSSTables, ReadDataBlock, LRUCache).
GetSeesStore == [][pc = "get" /\ pc' = "idle" => Answer = Stored[search.key]]_vars

\* A new file never takes the number of one that is there, also after a restart
\* in the middle of a flush or a compaction (LoadSSTableList,
\* GenerateSSTableFilename), and the cache never outgrows its capacity.
FileIdsAreFresh ==
    /\ pc # "down" => \A id \in DOMAIN files : id < nextId
    /\ Len(cache) <= CacheCapacity

\* The log protects what is not yet in an SSTable: every entry of the MemTable
\* is the last record of its key in current.log.
WalProtectsMem ==
    pc = "idle" => \A k \in DOMAIN mem :
                        k \in DOMAIN Replay(wal) /\ Replay(wal)[k] = mem[k]
=============================================================================
