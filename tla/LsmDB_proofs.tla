---------------------------- MODULE LsmDB_proofs ----------------------------
(***************************************************************************)
(* Proofs about the storage engine: new files get new numbers, Get answers *)
(* what is stored, and the engine implements KVStore as long as it crashes *)
(* at most once.                                                           *)
(***************************************************************************)
EXTENDS LsmDB, FiniteSetTheorems, SequenceTheorems, WellFoundedInduction, TLAPS

-----------------------------------------------------------------------------
(* Least and greatest elements of sets of numbers.                         *)

\* A set of natural numbers that is not empty has a least element.
LEMMA LeastExists ==
    ASSUME NEW S, S \subseteq Nat, S # {}
    PROVE  \E m \in S : \A x \in S : m <= x
<1>1. PICK m \in S : \A x \in S : ~ (<<x, m>> \in OpToRel(<, Nat))
    BY WFMin, NatLessThanWellFounded
<1>2. ASSUME NEW x \in S, x < m
      PROVE  FALSE
    <2>1. <<x, m>> \in OpToRel(<, Nat)
        BY <1>2 DEF OpToRel
    <2> QED
        BY <2>1, <1>1
<1>3. \A x \in S : m <= x
    BY <1>2
<1> QED
    BY <1>3

\* If it is bounded it also has a greatest one.
LEMMA GreatestExists ==
    ASSUME NEW S, S \subseteq Nat, S # {}, NEW n \in Nat, \A x \in S : x <= n
    PROVE  \E m \in S : \A x \in S : x <= m
<1> DEFINE T == {n - x : x \in S}
<1>1. T \subseteq Nat /\ T # {}
    OBVIOUS
<1>2. PICK t \in T : \A y \in T : t <= y
    BY <1>1, LeastExists
<1>3. PICK m \in S : t = n - m
    OBVIOUS
<1>4. ASSUME NEW x \in S
      PROVE  x <= m
    <2>1. n - m <= n - x
        BY <1>2, <1>3
    <2> QED
        BY <2>1
<1> QED
    BY <1>4

-----------------------------------------------------------------------------
(* The log.                                                                *)

Records == [key : Keys, value : Values \cup {Empty}]

\* The position of the last record of a key.
LastOf(w, k, i) ==
    /\ i \in 1..Len(w)
    /\ w[i].key = k
    /\ \A j \in 1..Len(w) : w[j].key = k => j <= i

\* Replay gives every key of the log the value of its last record.
LEMMA ReplayValue ==
    ASSUME NEW w \in Seq(Records), NEW k, NEW i, LastOf(w, k, i)
    PROVE  k \in DOMAIN Replay(w) /\ Replay(w)[k] = w[i].value
<1> DEFINE last == CHOOSE x \in 1..Len(w) :
                        w[x].key = k /\ \A j \in 1..Len(w) : w[j].key = k => j <= x
<1>1. i \in 1..Len(w) /\ w[i].key = k /\ \A j \in 1..Len(w) : w[j].key = k => j <= i
    BY DEF LastOf
<1>2. last \in 1..Len(w) /\ w[last].key = k /\ \A j \in 1..Len(w) : w[j].key = k => j <= last
    BY <1>1
<1>3. Len(w) \in Nat
    OBVIOUS
<1>4. last = i
    <2> HIDE DEF last
    <2> QED
        BY <1>1, <1>2, <1>3
<1>5. k \in {w[x].key : x \in 1..Len(w)}
    BY <1>1
<1>6. Replay(w)[k] = w[last].value
    BY <1>5 DEF Replay
<1> QED
    BY <1>4, <1>5, <1>6 DEF Replay

\* Every key of the log has a last record.
LEMMA LastExists ==
    ASSUME NEW w \in Seq(Records), NEW k \in DOMAIN Replay(w)
    PROVE  \E i : LastOf(w, k, i)
<1> DEFINE S == {x \in 1..Len(w) : w[x].key = k}
<1>1. Len(w) \in Nat
    OBVIOUS
<1>2. S # {}
    BY DEF Replay
<1>3. S \subseteq Nat /\ \A x \in S : x <= Len(w)
    BY <1>1
<1>4. PICK i \in S : \A x \in S : x <= i
    BY <1>1, <1>2, <1>3, GreatestExists
<1>5. LastOf(w, k, i)
    BY <1>4 DEF LastOf
<1> QED
    BY <1>5

\* Replay gives a function, which is determined by its values.
LEMMA ReplayIsFunction ==
    ASSUME NEW w
    PROVE  Replay(w) = [k \in DOMAIN Replay(w) |-> Replay(w)[k]]
BY DEF Replay

\* A record that is added to the log acts like a write to the MemTable.
LEMMA ReplayAppend ==
    ASSUME NEW w \in Seq(Records), NEW r \in Records
    PROVE  Replay(Append(w, r)) = MemPut(Replay(w), r.key, r.value)
<1> DEFINE a == Append(w, r)
           R == Replay(a)
           M == MemPut(Replay(w), r.key, r.value)
<1>1. a \in Seq(Records) /\ Len(a) = Len(w) + 1 /\ Len(w) \in Nat
    OBVIOUS
<1>2. a[Len(a)] = r /\ \A i \in 1..Len(w) : a[i] = w[i]
    OBVIOUS
<1>3. DOMAIN R = {a[i].key : i \in 1..Len(a)} /\ DOMAIN Replay(w) = {w[i].key : i \in 1..Len(w)}
    BY DEF Replay
<1>4. DOMAIN R = DOMAIN Replay(w) \cup {r.key}
    <2> HIDE DEF a, R
    <2> QED
        BY <1>1, <1>2, <1>3
<1>5. DOMAIN M = DOMAIN Replay(w) \cup {r.key}
    BY DEF MemPut
<1>6. ASSUME NEW k \in DOMAIN R
      PROVE  R[k] = M[k]
    <2>1. CASE k = r.key
        <3>1. LastOf(a, k, Len(a))
            <4> HIDE DEF a
            <4> QED
                BY <1>1, <1>2, <2>1 DEF LastOf
        <3>2. R[k] = a[Len(a)].value
            <4> HIDE DEF a
            <4> QED
                BY <3>1, <1>1, ReplayValue
        <3>3. M[k] = r.value
            BY <2>1 DEF MemPut
        <3> QED
            BY <3>2, <3>3, <1>2
    <2>2. CASE k # r.key
        <3>1. k \in DOMAIN Replay(w)
            BY <1>4, <2>2
        <3>2. PICK i : LastOf(w, k, i)
            BY <3>1, LastExists
        <3>3. Replay(w)[k] = w[i].value
            BY <3>2, ReplayValue
        <3>4. LastOf(a, k, i)
            <4> HIDE DEF a
            <4> QED
                BY <3>2, <1>1, <1>2, <2>2 DEF LastOf
        <3>5. R[k] = a[i].value
            <4> HIDE DEF a
            <4> QED
                BY <3>4, <1>1, ReplayValue
        <3>6. a[i] = w[i]
            BY <3>2, <1>2 DEF LastOf
        <3>7. M[k] = Replay(w)[k]
            BY <3>1, <2>2 DEF MemPut
        <3> QED
            BY <3>3, <3>5, <3>6, <3>7
    <2> QED
        BY <2>1, <2>2
<1>7. R = [k \in DOMAIN R |-> R[k]]
    BY ReplayIsFunction
<1>8. M = [k \in DOMAIN M |-> M[k]]
    BY DEF MemPut
<1> QED
    <2> HIDE DEF R, M
    <2>1. R = M
        BY <1>4, <1>5, <1>6, <1>7, <1>8
    <2> QED
        BY <2>1 DEF R, M

\* An empty log leaves an empty MemTable.
LEMMA ReplayEmpty == Replay(<<>>) = NoEntries
<1>1. DOMAIN Replay(<<>>) = {} /\ DOMAIN NoEntries = {}
    BY DEF Replay, NoEntries
<1>2. Replay(<<>>) = [k \in DOMAIN Replay(<<>>) |-> Replay(<<>>)[k]]
    BY ReplayIsFunction
<1> QED
    BY <1>1, <1>2 DEF NoEntries

-----------------------------------------------------------------------------
(* The newest entry of a key in a directory of files.  The operators take  *)
(* the directory as a parameter, to speak of it before and after a step.   *)

ReadableIn(F, id) == id \in DOMAIN F /\ F[id].whole
HavingIn(F, k)    == {id \in DOMAIN F : ReadableIn(F, id) /\ k \in DOMAIN F[id].table}
NewestIn(F, k)    == IF HavingIn(F, k) = {} THEN Empty ELSE F[Max(HavingIn(F, k))].table[k]

\* A directory: files with positive numbers, and a greatest number.
Directory(F) ==
    /\ F = [id \in DOMAIN F |-> F[id]]
    /\ DOMAIN F \subseteq Nat \ {0}
    /\ \E n \in Nat : \A id \in DOMAIN F : id <= n

\* The entry of the file with the highest number is the newest.
LEMMA NewestIs ==
    ASSUME NEW F, Directory(F), NEW k, NEW m \in HavingIn(F, k), \A x \in HavingIn(F, k) : x <= m
    PROVE  NewestIn(F, k) = F[m].table[k]
<1> DEFINE H == HavingIn(F, k)
           c == CHOOSE x \in H : \A y \in H : x >= y
<1>1. H \subseteq Nat /\ H # {}
    BY DEF HavingIn, Directory
<1>2. Max(H) = c
    BY DEF Max
<1>3. m \in H /\ \A y \in H : m >= y
    <2> HIDE DEF H
    <2> QED
        BY <1>1 DEF H
<1>4. c \in H /\ \A y \in H : c >= y
    <2> HIDE DEF H
    <2> QED
        BY <1>3
<1>5. c = m
    <2> HIDE DEF H, c
    <2> QED
        BY <1>1, <1>3, <1>4
<1> QED
    BY <1>1, <1>2, <1>5 DEF NewestIn

\* If some file has the key, one of them has the highest number.
LEMMA NewestExists ==
    ASSUME NEW F, Directory(F), NEW k, HavingIn(F, k) # {}
    PROVE  \E m \in HavingIn(F, k) : \A x \in HavingIn(F, k) : x <= m
<1>1. PICK n \in Nat : \A id \in DOMAIN F : id <= n
    BY DEF Directory
<1>2. HavingIn(F, k) \subseteq Nat /\ \A x \in HavingIn(F, k) : x <= n
    BY <1>1 DEF HavingIn, Directory
<1> QED
    BY <1>2, GreatestExists

\* Two directories agree on a key if the same files have it, with one table.
LEMMA NewestSame ==
    ASSUME NEW F, NEW G, Directory(F), Directory(G), NEW k,
           HavingIn(G, k) = HavingIn(F, k), \A x \in HavingIn(F, k) : G[x] = F[x]
    PROVE  NewestIn(G, k) = NewestIn(F, k)
<1>1. CASE HavingIn(F, k) = {}
    BY <1>1 DEF NewestIn
<1>2. CASE HavingIn(F, k) # {}
    <2>1. PICK m \in HavingIn(F, k) : \A x \in HavingIn(F, k) : x <= m
        BY <1>2, NewestExists
    <2>2. NewestIn(F, k) = F[m].table[k]
        BY <2>1, NewestIs
    <2>3. NewestIn(G, k) = G[m].table[k]
        BY <2>1, NewestIs
    <2> QED
        BY <2>2, <2>3
<1> QED
    BY <1>1, <1>2

\* A directory with one more file, which gets the highest number.
LEMMA AddDirectory ==
    ASSUME NEW F, Directory(F), NEW id \in Nat \ {0}, \A x \in DOMAIN F : x < id, NEW f,
           NEW G, G = [x \in DOMAIN F \cup {id} |-> IF x = id THEN f ELSE F[x]]
    PROVE  /\ Directory(G)
           /\ DOMAIN G = DOMAIN F \cup {id}
           /\ G[id] = f
           /\ id \notin DOMAIN F
           /\ \A x \in DOMAIN F : G[x] = F[x]
<1>1. DOMAIN G = DOMAIN F \cup {id} /\ G[id] = f
    OBVIOUS
<1>2. id \notin DOMAIN F
    BY DEF Directory
<1>3. \A x \in DOMAIN F : G[x] = F[x]
    BY <1>2
<1>4. DOMAIN G \subseteq Nat \ {0} /\ \A x \in DOMAIN G : x <= id
    BY <1>1 DEF Directory
<1>5. G = [x \in DOMAIN G |-> G[x]]
    OBVIOUS
<1> QED
    BY <1>1, <1>2, <1>3, <1>4, <1>5 DEF Directory

\* Its entries are the newest, and other keys keep theirs.
LEMMA AddNewest ==
    ASSUME NEW F, Directory(F), NEW id \in Nat \ {0}, \A x \in DOMAIN F : x < id,
           NEW G, Directory(G), DOMAIN G = DOMAIN F \cup {id}, \A x \in DOMAIN F : G[x] = F[x],
           NEW t, G[id] = Whole(t), NEW k
    PROVE  NewestIn(G, k) = IF k \in DOMAIN t THEN t[k] ELSE NewestIn(F, k)
<1>1. id \notin DOMAIN F
    BY DEF Directory
<1>2. Whole(t).whole /\ Whole(t).table = t
    BY DEF Whole
<1>3. CASE k \in DOMAIN t
    <2>1. id \in HavingIn(G, k)
        BY <1>1, <1>2, <1>3 DEF HavingIn, ReadableIn
    <2>2. \A x \in HavingIn(G, k) : x <= id
        BY <1>1 DEF HavingIn, Directory
    <2>3. NewestIn(G, k) = G[id].table[k]
        BY <1>1, <2>1, <2>2, NewestIs
    <2> QED
        BY <1>1, <1>2, <1>3, <2>3
<1>4. CASE k \notin DOMAIN t
    <2>1. HavingIn(G, k) = HavingIn(F, k)
        BY <1>1, <1>2, <1>4 DEF HavingIn, ReadableIn
    <2>2. \A x \in HavingIn(F, k) : G[x] = F[x]
        BY <1>1 DEF HavingIn
    <2> QED
        BY <1>1, <1>4, <2>1, <2>2, NewestSame
<1> QED
    BY <1>3, <1>4

\* A file that was not written to its end changes no entry.
LEMMA AddBroken ==
    ASSUME NEW F, Directory(F), NEW id \in Nat \ {0}, \A x \in DOMAIN F : x < id,
           NEW G, Directory(G), DOMAIN G = DOMAIN F \cup {id}, \A x \in DOMAIN F : G[x] = F[x],
           G[id] = Broken, NEW k
    PROVE  NewestIn(G, k) = NewestIn(F, k)
<1>1. id \notin DOMAIN F
    BY DEF Directory
<1>2. ~ Broken.whole
    BY DEF Broken
<1>3. HavingIn(G, k) = HavingIn(F, k)
    BY <1>1, <1>2 DEF HavingIn, ReadableIn
<1>4. \A x \in HavingIn(F, k) : G[x] = F[x]
    BY <1>1 DEF HavingIn
<1> QED
    BY <1>1, <1>3, <1>4, NewestSame

\* Without its oldest file a directory keeps the newest entry of a key, or has
\* none.
LEMMA RemoveOldest ==
    ASSUME NEW F, Directory(F), NEW id \in DOMAIN F, \A x \in DOMAIN F \ {id} : id < x,
           NEW G, G = [x \in DOMAIN F \ {id} |-> F[x]]
    PROVE  /\ Directory(G)
           /\ \A k : NewestIn(G, k) \in {NewestIn(F, k), Empty}
<1>1. DOMAIN G = DOMAIN F \ {id} /\ \A x \in DOMAIN G : G[x] = F[x]
    OBVIOUS
<1>2. Directory(G)
    BY <1>1 DEF Directory
<1>3. ASSUME NEW k, HavingIn(G, k) # {}
      PROVE  NewestIn(G, k) = NewestIn(F, k)
    <2>1. HavingIn(G, k) = HavingIn(F, k) \ {id}
        BY <1>1 DEF HavingIn, ReadableIn
    <2>2. PICK m \in HavingIn(G, k) : \A x \in HavingIn(G, k) : x <= m
        BY <1>2, <1>3, NewestExists
    <2>3. m \in HavingIn(F, k) /\ m \in DOMAIN F \ {id}
        BY <2>1, <2>2, <1>1 DEF HavingIn
    <2>4. \A x \in HavingIn(F, k) : x <= m
        BY <2>1, <2>2, <2>3 DEF Directory
    <2>5. NewestIn(F, k) = F[m].table[k]
        BY <2>3, <2>4, NewestIs
    <2>6. NewestIn(G, k) = G[m].table[k]
        BY <1>2, <2>2, NewestIs
    <2> QED
        BY <2>3, <2>5, <2>6, <1>1
<1>4. ASSUME NEW k, HavingIn(G, k) = {}
      PROVE  NewestIn(G, k) = Empty
    BY <1>4 DEF NewestIn
<1> QED
    BY <1>2, <1>3, <1>4

-----------------------------------------------------------------------------
(* The inductive invariant.                                                *)

Running == {"idle", "get", "put", "delete", "flush", "built", "merge", "sweep", "recovered"}

Listed == {sstFiles[i] : i \in 1..Len(sstFiles)}

Blocks == {[id |-> id, block |-> files[id].table] : id \in {x \in DOMAIN files : Readable(x)}}

\* The values have their types.
TypeInv ==
    /\ wal \in Seq(Records)
    /\ Directory(files)
    /\ pc \in Running \cup {"down"}
    /\ sstFiles \in Seq(Nat \ {0})
    /\ nextId \in Nat \ {0}
    /\ crashes \in Nat

\* A process knows the files of the directory, in order: those of its list and,
\* between a build and what follows it, the new one.
ListInv ==
    /\ \A i, j \in 1..Len(sstFiles) : i < j => sstFiles[i] < sstFiles[j]
    /\ pc \in Running => \A id \in DOMAIN files : id < nextId
    /\ pc \in Running \ {"built", "sweep"} => DOMAIN files = Listed
    /\ pc \in {"built", "sweep"} =>
          /\ nextId - 1 \in DOMAIN files
          /\ \A id \in Listed : id < nextId - 1
    /\ pc = "built" => DOMAIN files = Listed \cup {nextId - 1}
    /\ pc = "sweep" => DOMAIN files \subseteq Listed \cup {nextId - 1} /\ DOMAIN files # {nextId - 1}
    /\ pc = "merge" => sstFiles # <<>>

\* A cached block is the block of its file.
CacheInv ==
    /\ cache \in Seq(Blocks)
    /\ Len(cache) <= CacheCapacity
    /\ pc = "sweep" => cache = <<>>

\* A file just built has what it was built from: the MemTable, or all that the
\* older files say.
BuildInv ==
    /\ pc = "built" => files[nextId - 1] = Whole(mem)
    /\ pc = "sweep" =>
          /\ files[nextId - 1].whole
          /\ \A k \in Keys : k \notin DOMAIN files[nextId - 1].table => NewestIn(files, k) = Empty

\* The files that a search has passed over do not have its key.
SearchInv ==
    pc = "get" =>
        /\ search \in [key : Keys \ DOMAIN mem, pos : 1..Len(sstFiles)]
        /\ \A j \in (search.pos + 1)..Len(sstFiles) : sstFiles[j] \notin HavingIn(files, search.key)

Writes(d) == [key : Keys, value : Values \cup {Empty}, done : {d}]

\* Which steps belong to which part of a write.
OpInv ==
    /\ pc \in {"idle", "get", "down", "recovered"} => op = NoOp
    /\ pc \in {"put", "delete"} => op \in Writes(FALSE)
    /\ pc \in {"flush", "built"} => op \in Writes(TRUE)
    /\ pc \in {"merge", "sweep"} => op \in Writes(TRUE) \cup {NoOp}

\* Until the first crash the log has what the MemTable has and, after it was
\* written, the operation in progress.
LogInv ==
    crashes = 0 =>
        /\ pc \notin {"down", "recovered"}
        /\ pc \in {"put", "delete"} => Replay(wal) = MemPut(mem, op.key, op.value)
        /\ pc \notin {"put", "delete"} => Replay(wal) = mem

IInv == TypeInv /\ ListInv /\ CacheInv /\ BuildInv /\ SearchInv /\ OpInv /\ LogInv

-----------------------------------------------------------------------------
(* The cache.                                                              *)

\* The blocks of a larger directory include those of a smaller one.
LEMMA SeqSubset ==
    ASSUME NEW S, NEW T, S \subseteq T, NEW s \in Seq(S)
    PROVE  s \in Seq(T)
<1>1. Len(s) \in Nat /\ \A i \in 1..Len(s) : s[i] \in T
    OBVIOUS
<1>2. s = [i \in 1..Len(s) |-> s[i]]
    OBVIOUS
<1> QED
    BY <1>1, <1>2

\* What ReadDataBlock gives for a file, from the cache or from the disk.
LEMMA BlockFresh ==
    ASSUME cache \in Seq(Blocks), NEW id, Readable(id)
    PROVE  Block(id) = files[id].table
<1> DEFINE hits == {i \in 1..Len(cache) : cache[i].id = id}
           h == CHOOSE i \in hits : TRUE
<1>1. CASE hits = {}
    BY <1>1 DEF Block
<1>2. CASE hits # {}
    <2>1. h \in 1..Len(cache) /\ cache[h].id = id
        BY <1>2
    <2>2. cache[h] \in Blocks
        BY <2>1
    <2>3. cache[h].block = files[id].table
        BY <2>1, <2>2 DEF Blocks
    <2>4. Block(id) = cache[h].block
        BY <1>2 DEF Block
    <2> QED
        BY <2>3, <2>4
<1> QED
    BY <1>1, <1>2

\* The search for a key in a file, by what the file has.
LEMMA HasFresh ==
    ASSUME cache \in Seq(Blocks), NEW id, NEW k
    PROVE  Has(id, k) <=> id \in HavingIn(files, k)
BY BlockFresh DEF Has, HavingIn, ReadableIn, Readable

\* A read leaves fresh blocks in the cache, and no more of them than it can hold.
LEMMA TouchFresh ==
    ASSUME cache \in Seq(Blocks), Len(cache) <= CacheCapacity, NEW id, Readable(id)
    PROVE  Touch(cache, id) \in Seq(Blocks) /\ Len(Touch(cache, id)) <= CacheCapacity
<1> DEFINE at   == {i \in 1..Len(cache) : cache[i].id = id}
           hit  == CHOOSE i \in at : TRUE
           cut  == SubSeq(cache, 1, hit - 1) \o SubSeq(cache, hit + 1, Len(cache))
           rest == IF at # {} THEN cut
                   ELSE IF Len(cache) < CacheCapacity THEN cache
                   ELSE SubSeq(cache, 1, Len(cache) - 1)
           front == [id |-> id, block |-> Block(id)]
<1>1. CacheCapacity \in Nat \ {0} /\ Len(cache) \in Nat
    BY LsmAssumption
<1>2. front \in Blocks
    BY BlockFresh DEF Blocks, Readable
<1>3. rest \in Seq(Blocks) /\ Len(rest) <= CacheCapacity - 1
    <2>1. CASE at # {}
        <3>1. hit \in 1..Len(cache)
            BY <2>1
        <3> HIDE DEF hit
        <3>2. SubSeq(cache, 1, hit - 1) \in Seq(Blocks) /\ Len(SubSeq(cache, 1, hit - 1)) = hit - 1
            BY <1>1, <3>1
        <3>3. /\ SubSeq(cache, hit + 1, Len(cache)) \in Seq(Blocks)
              /\ Len(SubSeq(cache, hit + 1, Len(cache))) = Len(cache) - hit
            BY <1>1, <3>1
        <3>4. cut \in Seq(Blocks) /\ Len(cut) = (hit - 1) + (Len(cache) - hit)
            BY <3>2, <3>3
        <3>5. Len(cut) <= CacheCapacity - 1
            <4> HIDE DEF cut
            <4>1. Len(cut) = Len(cache) - 1
                BY <3>1, <3>4, <1>1
            <4> QED
                BY <4>1, <1>1
        <3> QED
            BY <2>1, <3>4, <3>5
    <2>2. CASE at = {} /\ Len(cache) < CacheCapacity
        BY <2>2, <1>1
    <2>3. CASE at = {} /\ ~ (Len(cache) < CacheCapacity)
        <3>1. Len(cache) = CacheCapacity
            BY <2>3, <1>1
        <3>2. /\ SubSeq(cache, 1, Len(cache) - 1) \in Seq(Blocks)
              /\ Len(SubSeq(cache, 1, Len(cache) - 1)) = Len(cache) - 1
            BY <1>1, <3>1
        <3> QED
            BY <2>3, <3>1, <3>2
    <2> QED
        BY <2>1, <2>2, <2>3
<1>4. Touch(cache, id) = <<front>> \o rest
    BY DEF Touch
<1>5. <<front>> \in Seq(Blocks) /\ Len(<<front>>) = 1
    BY <1>2
<1>6. <<front>> \o rest \in Seq(Blocks) /\ Len(<<front>> \o rest) = 1 + Len(rest)
    <2> HIDE DEF rest, front
    <2> QED
        BY <1>3, <1>5
<1> QED
    <2> HIDE DEF rest, front
    <2>1. Len(rest) \in Nat
        BY <1>3
    <2> QED
        BY <1>1, <1>3, <1>4, <1>6, <2>1

-----------------------------------------------------------------------------
(* Compaction.                                                             *)

\* The merged table of an ordered list of all files has the newest value of each
\* key that has one.
LEMMA MergedNewest ==
    ASSUME Directory(files), sstFiles \in Seq(Nat \ {0}), DOMAIN files = Listed,
           \A i, j \in 1..Len(sstFiles) : i < j => sstFiles[i] < sstFiles[j], NEW k
    PROVE  /\ k \in DOMAIN Merged(sstFiles) => Merged(sstFiles)[k] = NewestIn(files, k)
           /\ k \notin DOMAIN Merged(sstFiles) => NewestIn(files, k) = Empty
<1> DEFINE list == sstFiles
           has(i, x) == Readable(list[i]) /\ x \in DOMAIN files[list[i]].table
           keys == UNION {DOMAIN files[list[i]].table : i \in {j \in 1..Len(list) : Readable(list[j])}}
           newest(x) == CHOOSE i \in 1..Len(list) :
                          /\ Readable(list[i]) /\ x \in DOMAIN files[list[i]].table
                          /\ \A j \in (i + 1)..Len(list) :
                                Readable(list[j]) => x \notin DOMAIN files[list[j]].table
           value == [x \in keys |-> files[list[newest(x)]].table[x]]
           live == {x \in keys : value[x] # Empty}
<1>1. Merged(sstFiles) = [x \in live |-> value[x]]
    BY DEF Merged
<1>2. Len(list) \in Nat /\ \A i \in 1..Len(list) : list[i] \in Nat /\ list[i] \in DOMAIN files
    BY DEF Listed
<1>3. ASSUME NEW x
      PROVE  x \in HavingIn(files, k) <=> \E i \in 1..Len(list) : list[i] = x /\ has(i, k)
    BY DEF HavingIn, ReadableIn, Readable, Listed
<1>4. k \in keys <=> HavingIn(files, k) # {}
    <2>1. k \in keys <=> \E i \in 1..Len(list) : has(i, k)
        OBVIOUS
    <2> QED
        BY <2>1, <1>3
<1>5. CASE k \notin keys
    <2>1. NewestIn(files, k) = Empty
        BY <1>4, <1>5 DEF NewestIn
    <2>2. k \notin DOMAIN Merged(sstFiles)
        BY <1>1, <1>5
    <2> QED
        BY <2>1, <2>2
<1>6. CASE k \in keys
    <2>1. PICK m \in HavingIn(files, k) : \A x \in HavingIn(files, k) : x <= m
        BY <1>4, <1>6, NewestExists
    <2>2. NewestIn(files, k) = files[m].table[k]
        BY <2>1, NewestIs
    <2>3. PICK p \in 1..Len(list) : list[p] = m /\ has(p, k)
        BY <1>3
    <2>4. ASSUME NEW j \in (p + 1)..Len(list)
          PROVE  Readable(list[j]) => k \notin DOMAIN files[list[j]].table
        <3>1. SUFFICES ASSUME has(j, k) PROVE FALSE
            OBVIOUS
        <3>2. j \in 1..Len(list) /\ p < j
            BY <1>2, <2>3
        <3>3. list[j] <= m
            BY <3>1, <3>2, <1>3, <2>1
        <3>4. list[p] < list[j]
            BY <3>2, <2>3
        <3> QED
            BY <1>2, <2>3, <3>2, <3>3, <3>4
    <2>5. /\ newest(k) \in 1..Len(list)
          /\ has(newest(k), k)
          /\ \A j \in (newest(k) + 1)..Len(list) : ~ has(j, k)
        BY <2>3, <2>4
    <2> DEFINE n == newest(k)
    <2>6. n = p
        <3> HIDE DEF n
        <3>1. n \in 1..Len(list) /\ has(n, k) /\ \A j \in (n + 1)..Len(list) : ~ has(j, k)
            BY <2>5 DEF n
        <3>2. has(p, k) /\ \A j \in (p + 1)..Len(list) : ~ has(j, k)
            BY <2>3, <2>4
        <3> HIDE DEF has
        <3>3. ~ (n < p) /\ ~ (p < n)
            BY <3>1, <3>2, <1>2
        <3> QED
            BY <3>1, <3>3, <1>2
    <2>7. value[k] = NewestIn(files, k)
        <3>1. value[k] = files[list[n]].table[k]
            BY <1>6
        <3> HIDE DEF n, value
        <3> QED
            BY <3>1, <2>2, <2>3, <2>6
    <2> HIDE DEF value
    <2>8. CASE value[k] = Empty
        <3>1. k \notin live
            BY <2>8
        <3> QED
            BY <3>1, <1>1, <2>7, <2>8
    <2>9. CASE value[k] # Empty
        <3>1. k \in live
            BY <1>6, <2>9
        <3> QED
            BY <3>1, <1>1, <2>7
    <2> QED
        BY <2>8, <2>9
<1> QED
    BY <1>5, <1>6

-----------------------------------------------------------------------------
(* Every step preserves the invariant.                                     *)

\* A new database.
LEMMA InitInv == Init => IInv
<1> SUFFICES ASSUME Init
             PROVE  IInv
    OBVIOUS
<1> USE DEF Init
<1>1. files = [id \in DOMAIN files |-> files[id]] /\ DOMAIN files = {}
    BY DEF NoEntries
<1>2. Directory(files)
    BY <1>1 DEF Directory
<1>3. TypeInv
    BY <1>2 DEF TypeInv, Running
<1>4. Len(sstFiles) = 0 /\ Listed = {}
    BY DEF Listed
<1>5. ListInv
    BY <1>1, <1>4 DEF ListInv, Running
<1>6. CacheInv
    BY LsmAssumption DEF CacheInv
<1>7. BuildInv /\ SearchInv /\ OpInv
    BY DEF BuildInv, SearchInv, OpInv
<1>8. LogInv
    BY ReplayEmpty DEF LogInv
<1> QED
    BY <1>3, <1>5, <1>6, <1>7, <1>8 DEF IInv

\* Steps that leave the files alone.
LEMMA KeepFiles ==
    ASSUME IInv, UNCHANGED <<files, sstFiles, nextId>>,
           pc \in Running \ {"built", "sweep"}, pc' \in Running \ {"built", "sweep"},
           pc' = "merge" => sstFiles # <<>>
    PROVE  ListInv' /\ BuildInv' /\ Blocks' = Blocks
<1>1. Listed' = Listed
    BY DEF Listed
<1>2. ListInv'
    BY <1>1 DEF IInv, ListInv
<1>3. BuildInv'
    BY DEF BuildInv
<1>4. Blocks' = Blocks
    BY DEF Blocks, Readable
<1> QED
    BY <1>2, <1>3, <1>4

LEMMA LogWriteInv ==
    ASSUME IInv, NEW k \in Keys, NEW v \in Values \cup {Empty},
           NEW next \in {"put", "delete"}, LogWrite(k, v, next)
    PROVE  IInv'
<1> DEFINE r == [key |-> k, value |-> v]
<1>1. pc = "idle" /\ pc' \in {"put", "delete"}
    BY DEF LogWrite
<1>2. /\ wal' = Append(wal, r)
      /\ op' = [key |-> k, value |-> v, done |-> FALSE]
      /\ UNCHANGED <<files, mem, sstFiles, nextId, cache, search, crashes>>
    BY DEF LogWrite
<1>3. r \in Records /\ r.key = k /\ r.value = v
    BY DEF Records
<1>4. TypeInv'
    BY <1>1, <1>2, <1>3 DEF IInv, TypeInv, Running
<1>5. ListInv' /\ BuildInv' /\ Blocks' = Blocks
    BY <1>1, <1>2, KeepFiles DEF Running
<1>6. CacheInv' /\ SearchInv'
    BY <1>1, <1>2, <1>5 DEF IInv, CacheInv, SearchInv
<1>7. OpInv' /\ op'.key = k /\ op'.value = v
    BY <1>1, <1>2 DEF OpInv, Writes
<1>8. LogInv'
    <2> SUFFICES ASSUME crashes = 0
                 PROVE  Replay(wal') = MemPut(mem', op'.key, op'.value)
        BY <1>1, <1>2 DEF LogInv
    <2>1. Replay(wal) = mem
        BY <1>1 DEF IInv, LogInv
    <2>2. wal \in Seq(Records)
        BY DEF IInv, TypeInv
    <2>3. Replay(wal') = MemPut(Replay(wal), r.key, r.value)
        <3> HIDE DEF r
        <3> QED
            BY <1>2, <1>3, <2>2, ReplayAppend
    <2> QED
        BY <1>2, <1>3, <1>7, <2>1, <2>3
<1> QED
    BY <1>4, <1>5, <1>6, <1>7, <1>8 DEF IInv

LEMMA ApplyWriteInv ==
    ASSUME IInv, ApplyWrite
    PROVE  IInv'
<1>1. pc \in {"put", "delete"} /\ pc' \in {"flush", "idle"}
    BY DEF ApplyWrite
<1>2. /\ mem' = MemPut(mem, op.key, op.value)
      /\ UNCHANGED <<wal, files, sstFiles, nextId, cache, search, crashes>>
    BY DEF ApplyWrite, boundVars
<1>3. op' = IF pc' = "flush" THEN [op EXCEPT !.done = TRUE] ELSE NoOp
    BY DEF ApplyWrite
<1>4. TypeInv'
    BY <1>1, <1>2 DEF IInv, TypeInv, Running
<1>5. ListInv' /\ BuildInv' /\ Blocks' = Blocks
    BY <1>1, <1>2, KeepFiles DEF Running
<1>6. CacheInv' /\ SearchInv'
    BY <1>1, <1>2, <1>5 DEF IInv, CacheInv, SearchInv
<1>7. OpInv'
    <2>1. op \in Writes(FALSE)
        BY <1>1 DEF IInv, OpInv
    <2>2. [op EXCEPT !.done = TRUE] \in Writes(TRUE)
        BY <2>1 DEF Writes
    <2> QED
        BY <1>1, <1>3, <2>2 DEF OpInv
<1>8. LogInv'
    BY <1>1, <1>2 DEF IInv, LogInv
<1> QED
    BY <1>4, <1>5, <1>6, <1>7, <1>8 DEF IInv

LEMMA GetInv ==
    ASSUME IInv, NEW k \in Keys, Get(k)
    PROVE  IInv'
<1>1. pc = "idle" /\ pc' = "get" /\ k \notin DOMAIN mem /\ Len(sstFiles) > 0
    BY DEF Get, FirstSearched
<1>2. /\ search' = [key |-> k, pos |-> Len(sstFiles)]
      /\ UNCHANGED <<wal, files, mem, sstFiles, nextId, cache, op, crashes>>
    BY DEF Get, FirstSearched, boundVars
<1>3. Len(sstFiles) \in Nat
    BY DEF IInv, TypeInv
<1>4. TypeInv'
    BY <1>1, <1>2 DEF IInv, TypeInv, Running
<1>5. ListInv' /\ BuildInv' /\ Blocks' = Blocks
    BY <1>1, <1>2, KeepFiles DEF Running
<1>6. CacheInv' /\ OpInv' /\ LogInv'
    BY <1>1, <1>2, <1>5 DEF IInv, CacheInv, OpInv, LogInv
<1>7. search'.key = k /\ search'.pos = Len(sstFiles)
    BY <1>2
<1>8. SearchInv'
    BY <1>1, <1>2, <1>3, <1>7 DEF SearchInv
<1> QED
    BY <1>4, <1>5, <1>6, <1>8 DEF IInv

LEMMA SearchFileInv ==
    ASSUME IInv, SearchFile
    PROVE  IInv'
<1> DEFINE id == sstFiles[search.pos]
<1>1. pc = "get" /\ pc' \in {"get", "idle"}
    BY DEF SearchFile
<1>2. UNCHANGED <<wal, files, mem, sstFiles, nextId, op, crashes>>
    BY DEF SearchFile, boundVars
<1>3. TypeInv'
    BY <1>1, <1>2 DEF IInv, TypeInv, Running
<1>4. ListInv' /\ BuildInv' /\ Blocks' = Blocks
    BY <1>1, <1>2, KeepFiles DEF Running
<1>5. OpInv' /\ LogInv'
    BY <1>1, <1>2 DEF IInv, OpInv, LogInv
<1>6. CacheInv'
    <2>1. cache \in Seq(Blocks) /\ Len(cache) <= CacheCapacity
        BY DEF IInv, CacheInv
    <2>2. CASE Readable(id) /\ cache' = Touch(cache, id)
        <3>1. Touch(cache, id) \in Seq(Blocks) /\ Len(Touch(cache, id)) <= CacheCapacity
            <4> HIDE DEF id
            <4> QED
                BY <2>1, <2>2, TouchFresh
        <3> QED
            BY <1>1, <1>4, <2>2, <3>1 DEF CacheInv
    <2>3. CASE UNCHANGED cache
        BY <1>1, <1>4, <2>1, <2>3 DEF CacheInv
    <2> QED
        BY <2>2, <2>3 DEF SearchFile
<1>7. SearchInv'
    <2>1. CASE pc' = "idle"
        BY <2>1 DEF SearchInv
    <2>2. CASE pc' = "get"
        <3>1. search' = [search EXCEPT !.pos = @ - 1] /\ ~ Found /\ search.pos # 1
            BY <2>2 DEF SearchFile
        <3>2. /\ search \in [key : Keys \ DOMAIN mem, pos : 1..Len(sstFiles)]
              /\ \A j \in (search.pos + 1)..Len(sstFiles) : sstFiles[j] \notin HavingIn(files, search.key)
            BY <1>1 DEF IInv, SearchInv
        <3>3. sstFiles[search.pos] \notin HavingIn(files, search.key)
            BY <3>1, HasFresh DEF Found, IInv, CacheInv
        <3>4. Len(sstFiles) \in Nat
            BY DEF IInv, TypeInv
        <3>5. search.key \in Keys \ DOMAIN mem /\ search.pos \in 1..Len(sstFiles) \ {1}
            BY <3>1, <3>2
        <3>6. search'.key = search.key /\ search'.pos = search.pos - 1
            BY <3>1, <3>2
        <3>7. search.pos - 1 \in 1..Len(sstFiles)
            BY <3>4, <3>5
        <3>8. search' \in [key : Keys \ DOMAIN mem, pos : 1..Len(sstFiles)]
            BY <3>1, <3>2, <3>7
        <3>9. ASSUME NEW j \in ((search.pos - 1) + 1)..Len(sstFiles)
              PROVE  sstFiles[j] \notin HavingIn(files, search.key)
            <4>1. j = search.pos \/ j \in (search.pos + 1)..Len(sstFiles)
                BY <3>4, <3>5
            <4> QED
                BY <4>1, <3>2, <3>3
        <3> QED
            BY <1>2, <3>6, <3>8, <3>9 DEF SearchInv
    <2> QED
        BY <1>1, <2>1, <2>2
<1> QED
    BY <1>3, <1>4, <1>5, <1>6, <1>7 DEF IInv

\* A file is added under the next number.
LEMMA AddedFile ==
    ASSUME IInv, pc \in {"flush", "merge"}, NEW f, files' = AddFile(nextId, f)
    PROVE  /\ Directory(files')
           /\ DOMAIN files' = DOMAIN files \cup {nextId}
           /\ files'[nextId] = f
           /\ nextId \notin DOMAIN files
           /\ \A x \in DOMAIN files : files'[x] = files[x]
<1>1. \A x \in DOMAIN files : x < nextId
    BY DEF IInv, ListInv, Running
<1>2. Directory(files) /\ nextId \in Nat \ {0}
    BY DEF IInv, TypeInv
<1> QED
    BY <1>1, <1>2, AddDirectory DEF AddFile

\* The list of files when a file was built and did not join it yet.
LEMMA BuiltList ==
    ASSUME IInv, pc \in {"flush", "merge"}, NEW f, files' = AddFile(nextId, f),
           nextId' = nextId + 1, UNCHANGED sstFiles, pc' \in {"built", "sweep"},
           pc' = "sweep" => pc = "merge"
    PROVE  /\ ListInv'
           /\ nextId' - 1 = nextId
           /\ nextId' \in Nat \ {0}
<1>1. /\ DOMAIN files' = DOMAIN files \cup {nextId}
      /\ nextId \notin DOMAIN files
    BY AddedFile
<1>2. nextId \in Nat \ {0} /\ DOMAIN files \subseteq Nat
    BY DEF IInv, TypeInv, Directory
<1>3. nextId' - 1 = nextId /\ nextId' \in Nat \ {0}
    BY <1>2
<1>4. Listed' = Listed /\ DOMAIN files = Listed
    BY DEF IInv, ListInv, Listed, Running
<1>5. \A x \in DOMAIN files : x < nextId
    BY DEF IInv, ListInv, Running
<1>6. \A x \in DOMAIN files' : x < nextId'
    BY <1>1, <1>2, <1>5
<1>7. \A i, j \in 1..Len(sstFiles') : i < j => sstFiles'[i] < sstFiles'[j]
    BY DEF IInv, ListInv
<1>8. pc' = "sweep" => DOMAIN files' # {nextId}
    <2> SUFFICES ASSUME pc' = "sweep"
                 PROVE  DOMAIN files' # {nextId}
        OBVIOUS
    <2>1. sstFiles # <<>> /\ sstFiles \in Seq(Nat \ {0})
        BY DEF IInv, ListInv, TypeInv
    <2>2. 1 \in 1..Len(sstFiles)
        BY <2>1
    <2>3. sstFiles[1] \in Listed
        BY <2>2 DEF Listed
    <2> QED
        BY <2>3, <1>1, <1>4
<1>9. ListInv'
    BY <1>1, <1>3, <1>4, <1>5, <1>6, <1>7, <1>8 DEF ListInv, Running
<1> QED
    BY <1>3, <1>9

\* The blocks stay when a file is added.
LEMMA AddedBlocks ==
    ASSUME IInv, pc \in {"flush", "merge"}, NEW f, files' = AddFile(nextId, f)
    PROVE  Blocks \subseteq Blocks'
<1>1. DOMAIN files' = DOMAIN files \cup {nextId} /\ \A x \in DOMAIN files : files'[x] = files[x]
    BY AddedFile
<1> QED
    BY <1>1 DEF Blocks, Readable

LEMMA FlushBuildInv ==
    ASSUME IInv, FlushBuild
    PROVE  IInv'
<1>1. /\ pc = "flush" /\ pc' = "built"
      /\ files' = AddFile(nextId, Whole(mem))
      /\ nextId' = nextId + 1
      /\ UNCHANGED <<wal, mem, sstFiles, cache, op, search, crashes>>
    BY DEF FlushBuild, boundVars
<1>2. Directory(files') /\ files'[nextId] = Whole(mem)
    BY <1>1, AddedFile
<1>3. ListInv' /\ nextId' - 1 = nextId /\ nextId' \in Nat \ {0}
    BY <1>1, BuiltList
<1>4. TypeInv'
    BY <1>1, <1>2, <1>3 DEF IInv, TypeInv, Running
<1>5. CacheInv'
    <2>1. cache \in Seq(Blocks) /\ Len(cache) <= CacheCapacity
        BY DEF IInv, CacheInv
    <2>2. Blocks \subseteq Blocks'
        BY <1>1, AddedBlocks
    <2>3. cache \in Seq(Blocks')
        BY <2>1, <2>2, SeqSubset
    <2> QED
        BY <1>1, <2>1, <2>3 DEF CacheInv
<1>6. BuildInv'
    BY <1>1, <1>2, <1>3 DEF BuildInv
<1>7. SearchInv' /\ OpInv' /\ LogInv'
    BY <1>1 DEF IInv, SearchInv, OpInv, LogInv
<1> QED
    BY <1>3, <1>4, <1>5, <1>6, <1>7 DEF IInv

LEMMA FlushInstallInv ==
    ASSUME IInv, FlushInstall
    PROVE  IInv'
<1>1. /\ pc = "built" /\ pc' \in {"merge", "idle"}
      /\ sstFiles' = Append(sstFiles, nextId - 1)
      /\ mem' = NoEntries
      /\ wal' = <<>>
      /\ op' = IF pc' = "merge" THEN op ELSE NoOp
      /\ UNCHANGED <<files, nextId, cache, search, crashes>>
    BY DEF FlushInstall, boundVars
<1>2. /\ nextId - 1 \in DOMAIN files
      /\ DOMAIN files = Listed \cup {nextId - 1}
      /\ \A id \in Listed : id < nextId - 1
      /\ \A id \in DOMAIN files : id < nextId
    BY <1>1 DEF IInv, ListInv, Running
<1>3. sstFiles \in Seq(Nat \ {0}) /\ Len(sstFiles) \in Nat /\ DOMAIN files \subseteq Nat \ {0}
    BY DEF IInv, TypeInv, Directory
<1> DEFINE new == nextId - 1
<1>4. new \in Nat \ {0}
    BY <1>2, <1>3
<1> HIDE DEF new
<1>5. /\ sstFiles' \in Seq(Nat \ {0}) /\ Len(sstFiles') = Len(sstFiles) + 1
      /\ \A i \in 1..Len(sstFiles) : sstFiles'[i] = sstFiles[i]
      /\ sstFiles'[Len(sstFiles) + 1] = new
    BY <1>1, <1>3, <1>4 DEF new
<1>6. Listed' = Listed \cup {new}
    <2>1. 1..Len(sstFiles') = (1..Len(sstFiles)) \cup {Len(sstFiles) + 1}
        BY <1>3, <1>5
    <2>2. Listed' = {sstFiles'[i] : i \in 1..Len(sstFiles')}
        BY DEF Listed
    <2>3. Listed' = {sstFiles'[i] : i \in 1..Len(sstFiles)} \cup {new}
        BY <1>5, <2>1, <2>2
    <2>4. {sstFiles'[i] : i \in 1..Len(sstFiles)} = {sstFiles[i] : i \in 1..Len(sstFiles)}
        BY <1>5
    <2> QED
        BY <2>3, <2>4 DEF Listed
<1>7. ASSUME NEW i \in 1..Len(sstFiles'), NEW j \in 1..Len(sstFiles'), i < j
      PROVE  sstFiles'[i] < sstFiles'[j]
    <2>1. i \in 1..Len(sstFiles)
        BY <1>3, <1>5, <1>7
    <2>2. CASE j \in 1..Len(sstFiles)
        <3>1. sstFiles[i] < sstFiles[j]
            BY <1>7, <2>1, <2>2 DEF IInv, ListInv
        <3> QED
            BY <3>1, <1>5, <2>1, <2>2
    <2>3. CASE j = Len(sstFiles) + 1
        <3>1. sstFiles[i] \in Listed
            BY <2>1 DEF Listed
        <3>2. sstFiles[i] < new
            BY <3>1, <1>2 DEF new
        <3> QED
            BY <3>2, <1>5, <2>1, <2>3
    <2> QED
        BY <2>2, <2>3, <1>3, <1>5
<1>8. sstFiles' # <<>>
    BY <1>3, <1>5
<1>9. ListInv'
    BY <1>1, <1>2, <1>6, <1>7, <1>8 DEF ListInv, Running, new
<1>10. TypeInv'
    BY <1>1, <1>5 DEF IInv, TypeInv, Running
<1>11. CacheInv' /\ BuildInv' /\ SearchInv'
    BY <1>1 DEF IInv, CacheInv, BuildInv, SearchInv, Blocks, Readable
<1>12. OpInv'
    BY <1>1 DEF IInv, OpInv
<1>13. LogInv'
    BY <1>1, ReplayEmpty DEF IInv, LogInv
<1> QED
    BY <1>9, <1>10, <1>11, <1>12, <1>13 DEF IInv

LEMMA CompactionInv ==
    ASSUME IInv, Compaction
    PROVE  IInv'
<1>1. /\ pc = "idle" /\ pc' = "merge" /\ Len(sstFiles) > 1
      /\ UNCHANGED <<wal, files, mem, sstFiles, nextId, cache, op, search, crashes>>
    BY DEF Compaction
<1>2. sstFiles # <<>>
    BY <1>1
<1>3. ListInv' /\ BuildInv' /\ Blocks' = Blocks
    BY <1>1, <1>2, KeepFiles DEF Running
<1>4. TypeInv'
    BY <1>1 DEF IInv, TypeInv, Running
<1>5. CacheInv' /\ SearchInv' /\ OpInv' /\ LogInv'
    BY <1>1, <1>3 DEF IInv, CacheInv, SearchInv, OpInv, LogInv
<1> QED
    BY <1>3, <1>4, <1>5 DEF IInv

\* The merged file changes no newest entry; a key that it leaves out has none.
LEMMA MergeKeeps ==
    ASSUME IInv, MergeBuild, NEW k
    PROVE  /\ NewestIn(files', k) = NewestIn(files, k)
           /\ k \notin DOMAIN Merged(sstFiles) => NewestIn(files', k) = Empty
<1> DEFINE M == Merged(sstFiles)
<1>1. pc = "merge" /\ files' = AddFile(nextId, Whole(M))
    BY DEF MergeBuild
<1>2. Directory(files) /\ nextId \in Nat \ {0} /\ sstFiles \in Seq(Nat \ {0})
    BY DEF IInv, TypeInv
<1>3. /\ DOMAIN files = Listed
      /\ \A x \in DOMAIN files : x < nextId
      /\ \A i, j \in 1..Len(sstFiles) : i < j => sstFiles[i] < sstFiles[j]
    BY <1>1 DEF IInv, ListInv, Running
<1>4. /\ k \in DOMAIN M => M[k] = NewestIn(files, k)
      /\ k \notin DOMAIN M => NewestIn(files, k) = Empty
    BY <1>2, <1>3, MergedNewest
<1> HIDE DEF M
<1>5. NewestIn(files', k) = IF k \in DOMAIN M THEN M[k] ELSE NewestIn(files, k)
    <2>1. /\ Directory(files')
          /\ DOMAIN files' = DOMAIN files \cup {nextId}
          /\ files'[nextId] = Whole(M)
          /\ \A x \in DOMAIN files : files'[x] = files[x]
        BY <1>1, AddedFile
    <2> QED
        BY <2>1, <1>2, <1>3, AddNewest
<1>6. /\ NewestIn(files', k) = NewestIn(files, k)
      /\ k \notin DOMAIN M => NewestIn(files', k) = Empty
    BY <1>4, <1>5
<1> QED
    BY <1>6 DEF M

LEMMA MergeBuildInv ==
    ASSUME IInv, MergeBuild
    PROVE  IInv'
<1> DEFINE M == Merged(sstFiles)
<1>1. /\ pc = "merge" /\ pc' = "sweep"
      /\ files' = AddFile(nextId, Whole(M))
      /\ nextId' = nextId + 1
      /\ cache' = <<>>
      /\ UNCHANGED <<wal, mem, sstFiles, op, search, crashes>>
    BY DEF MergeBuild, boundVars
<1>2. \A k \in Keys : k \notin DOMAIN M => NewestIn(files', k) = Empty
    BY MergeKeeps
<1> HIDE DEF M
<1>3. Directory(files') /\ files'[nextId] = Whole(M)
    BY <1>1, AddedFile
<1>4. ListInv' /\ nextId' - 1 = nextId /\ nextId' \in Nat \ {0}
    BY <1>1, BuiltList
<1>5. TypeInv'
    BY <1>1, <1>3, <1>4 DEF IInv, TypeInv, Running
<1>6. CacheInv'
    BY <1>1, LsmAssumption DEF CacheInv
<1>7. Whole(M).whole /\ Whole(M).table = M
    BY DEF Whole
<1>8. BuildInv'
    BY <1>1, <1>2, <1>3, <1>4, <1>7 DEF BuildInv
<1>9. SearchInv' /\ OpInv' /\ LogInv'
    BY <1>1 DEF IInv, SearchInv, OpInv, LogInv
<1> QED
    BY <1>4, <1>5, <1>6, <1>8, <1>9 DEF IInv

LeftToSweep == {i \in 1..Len(sstFiles) : sstFiles[i] \in DOMAIN files}

\* What Sweep deletes: the oldest file that is there, never the new one.
LEMMA SweepOldest ==
    ASSUME IInv, pc = "sweep", NEW first, first = SweepFirst(LeftToSweep)
    PROVE  /\ first \in LeftToSweep
           /\ \A i \in LeftToSweep : first <= i
           /\ sstFiles[first] \in DOMAIN files
           /\ sstFiles[first] # nextId - 1
           /\ \A x \in DOMAIN files \ {sstFiles[first]} : sstFiles[first] < x
<1>1. sstFiles \in Seq(Nat \ {0}) /\ Len(sstFiles) \in Nat /\ DOMAIN files \subseteq Nat
    BY DEF IInv, TypeInv, Directory
<1>2. /\ \A i, j \in 1..Len(sstFiles) : i < j => sstFiles[i] < sstFiles[j]
      /\ nextId - 1 \in DOMAIN files
      /\ \A id \in Listed : id < nextId - 1
      /\ DOMAIN files \subseteq Listed \cup {nextId - 1}
      /\ DOMAIN files # {nextId - 1}
    BY DEF IInv, ListInv
<1>3. ASSUME NEW x \in DOMAIN files, x # nextId - 1
      PROVE  \E i \in LeftToSweep : sstFiles[i] = x
    BY <1>2, <1>3 DEF LeftToSweep, Listed
<1>4. LeftToSweep # {}
    BY <1>2, <1>3
<1>5. LeftToSweep \subseteq Nat
    BY DEF LeftToSweep
<1>6. \E m \in LeftToSweep : \A i \in LeftToSweep : m <= i
    BY <1>4, <1>5, LeastExists
<1>7. first \in LeftToSweep /\ \A i \in LeftToSweep : first <= i
    BY <1>6 DEF SweepFirst
<1>8. first \in 1..Len(sstFiles) /\ sstFiles[first] \in DOMAIN files
    BY <1>7 DEF LeftToSweep
<1>9. sstFiles[first] < nextId - 1 /\ sstFiles[first] \in Nat
    BY <1>1, <1>2, <1>8 DEF Listed
<1>10. ASSUME NEW x \in DOMAIN files \ {sstFiles[first]}
       PROVE  sstFiles[first] < x
    <2>1. CASE x = nextId - 1
        BY <2>1, <1>9
    <2>2. CASE x # nextId - 1
        <3>1. PICK i \in LeftToSweep : sstFiles[i] = x
            BY <2>2, <1>3
        <3>2. i \in 1..Len(sstFiles) /\ first <= i /\ i # first
            BY <3>1, <1>7 DEF LeftToSweep
        <3>3. first < i
            BY <3>2, <1>8
        <3> QED
            BY <3>1, <3>2, <3>3, <1>2, <1>8
    <2> QED
        BY <2>1, <2>2
<1>11. sstFiles[first] # nextId - 1
    BY <1>1, <1>2, <1>9
<1> QED
    BY <1>7, <1>8, <1>10, <1>11

\* Deleting it changes no newest entry.
LEMMA SweepKeeps ==
    ASSUME IInv, Sweep
    PROVE  /\ Directory(files')
           /\ \A k \in Keys : NewestIn(files', k) = NewestIn(files, k)
<1> DEFINE first == SweepFirst(LeftToSweep)
           id    == sstFiles[first]
           new   == nextId - 1
<1>1. pc = "sweep" /\ files' = RemoveFile(id)
    BY DEF Sweep, LeftToSweep
<1>2. /\ id \in DOMAIN files /\ id # new
      /\ \A x \in DOMAIN files \ {id} : id < x
    BY <1>1, SweepOldest
<1>3. /\ Directory(files)
      /\ new \in DOMAIN files
      /\ files[new].whole
      /\ \A x \in DOMAIN files : x <= new
      /\ \A k \in Keys : k \notin DOMAIN files[new].table => NewestIn(files, k) = Empty
    <2>1. Directory(files) /\ nextId \in Nat /\ DOMAIN files \subseteq Nat
        BY DEF IInv, TypeInv, Directory
    <2>2. new \in DOMAIN files /\ \A x \in DOMAIN files : x < nextId
        BY <1>1 DEF IInv, ListInv, Running
    <2>3. \A x \in DOMAIN files : x <= new
        BY <2>1, <2>2
    <2> QED
        BY <1>1, <2>1, <2>2, <2>3 DEF IInv, BuildInv
<1> HIDE DEF id, new
<1>4. files' = [x \in DOMAIN files \ {id} |-> files[x]]
    BY <1>1 DEF RemoveFile
<1>5. Directory(files') /\ \A k : NewestIn(files', k) \in {NewestIn(files, k), Empty}
    BY <1>2, <1>3, <1>4, RemoveOldest
<1>6. DOMAIN files' = DOMAIN files \ {id} /\ \A x \in DOMAIN files' : files'[x] = files[x]
    BY <1>4
<1>7. ASSUME NEW k \in Keys
      PROVE  NewestIn(files', k) = NewestIn(files, k)
    <2>1. CASE k \in DOMAIN files[new].table
        <3>1. new \in HavingIn(files, k) /\ \A x \in HavingIn(files, k) : x <= new
            BY <1>3, <2>1 DEF HavingIn, ReadableIn
        <3>2. new \in HavingIn(files', k) /\ \A x \in HavingIn(files', k) : x <= new
            BY <1>2, <1>3, <1>6, <2>1 DEF HavingIn, ReadableIn
        <3>3. NewestIn(files, k) = files[new].table[k]
            BY <3>1, <1>3, NewestIs
        <3>4. NewestIn(files', k) = files'[new].table[k]
            BY <3>2, <1>5, NewestIs
        <3>5. files'[new] = files[new]
            BY <1>2, <1>3, <1>6
        <3> QED
            BY <3>3, <3>4, <3>5
    <2>2. CASE k \notin DOMAIN files[new].table
        BY <2>2, <1>3, <1>5
    <2> QED
        BY <2>1, <2>2
<1> QED
    BY <1>5, <1>7

LEMMA SweepInv ==
    ASSUME IInv, Sweep
    PROVE  IInv'
<1> DEFINE first == SweepFirst(LeftToSweep)
           id    == sstFiles[first]
           new   == nextId - 1
<1>1. /\ pc = "sweep" /\ files' = RemoveFile(id)
      /\ UNCHANGED <<wal, mem, nextId, cache, search, crashes>>
    BY DEF Sweep, LeftToSweep, boundVars
<1>2. /\ first \in LeftToSweep
      /\ id \in DOMAIN files /\ id # new
      /\ \A x \in DOMAIN files \ {id} : id < x
    BY <1>1, SweepOldest
<1>3. Directory(files') /\ \A k \in Keys : NewestIn(files', k) = NewestIn(files, k)
    BY SweepKeeps
<1>4. /\ sstFiles \in Seq(Nat \ {0}) /\ Len(sstFiles) \in Nat
      /\ nextId \in Nat \ {0} /\ DOMAIN files \subseteq Nat \ {0}
    BY DEF IInv, TypeInv, Directory
<1>5. /\ \A i, j \in 1..Len(sstFiles) : i < j => sstFiles[i] < sstFiles[j]
      /\ new \in DOMAIN files
      /\ \A x \in Listed : x < new
      /\ \A x \in DOMAIN files : x < nextId
      /\ DOMAIN files \subseteq Listed \cup {new}
    BY <1>1 DEF IInv, ListInv, Running
<1>6. DOMAIN files' = DOMAIN files \ {id} /\ \A x \in DOMAIN files' : files'[x] = files[x]
    BY <1>1 DEF RemoveFile
<1>7. cache = <<>> /\ cache' = <<>>
    BY <1>1 DEF IInv, CacheInv
<1>8. CacheInv'
    BY <1>7, LsmAssumption DEF CacheInv
<1>9. SearchInv' /\ LogInv'
    <2>1. pc' \in {"sweep", "idle"}
        BY <1>1 DEF Sweep
    <2> QED
        BY <1>1, <2>1 DEF IInv, SearchInv, LogInv
<1>10. CASE LeftToSweep = {first}
    <2>1. sstFiles' = <<new>> /\ pc' = "idle" /\ op' = NoOp
        BY <1>10 DEF Sweep, LeftToSweep
    <2>2. new \in Nat \ {0}
        BY <1>4, <1>5
    <2>3. ASSUME NEW x \in DOMAIN files, x # new
          PROVE  x = id
        <3>1. PICK i \in 1..Len(sstFiles) : sstFiles[i] = x
            BY <1>5, <2>3 DEF Listed
        <3>2. i \in LeftToSweep
            BY <3>1 DEF LeftToSweep
        <3> QED
            BY <3>1, <3>2, <1>10
    <2> HIDE DEF id, new
    <2>4. DOMAIN files' = {new}
        BY <1>2, <1>5, <1>6, <2>3
    <2>5. sstFiles' \in Seq(Nat \ {0}) /\ Len(sstFiles') = 1 /\ sstFiles'[1] = new
        BY <2>1, <2>2
    <2>6. Listed' = {new}
        BY <2>5 DEF Listed
    <2>7. \A i, j \in 1..Len(sstFiles') : ~ (i < j)
        BY <2>5
    <2>8. ListInv'
        BY <1>1, <1>5, <2>1, <2>4, <2>6, <2>7 DEF ListInv, Running
    <2>9. TypeInv'
        BY <1>1, <1>3, <1>4, <2>1, <2>5 DEF IInv, TypeInv, Running
    <2>10. BuildInv' /\ OpInv'
        BY <2>1 DEF BuildInv, OpInv
    <2> QED
        BY <1>8, <1>9, <2>8, <2>9, <2>10 DEF IInv
<1>11. CASE LeftToSweep # {first}
    <2>1. UNCHANGED <<sstFiles, pc, op>>
        BY <1>11 DEF Sweep, LeftToSweep
    <2>2. PICK i \in LeftToSweep : i # first
        BY <1>2, <1>11
    <2>3. i \in 1..Len(sstFiles) /\ first \in 1..Len(sstFiles) /\ sstFiles[i] \in DOMAIN files
        BY <1>2, <2>2 DEF LeftToSweep
    <2>4. sstFiles[i] < id \/ id < sstFiles[i]
        <3>1. i < first \/ first < i
            BY <1>4, <2>2, <2>3
        <3> QED
            BY <3>1, <2>3, <1>5
    <2>5. sstFiles[i] \in DOMAIN files' /\ sstFiles[i] # new
        <3>1. sstFiles[i] \in Nat /\ id \in Nat
            BY <1>4, <2>3
        <3>2. sstFiles[i] # id
            BY <3>1, <2>4
        <3>3. sstFiles[i] < new
            BY <2>3, <1>5 DEF Listed
        <3>4. sstFiles[i] # new
            BY <3>1, <3>3, <1>4
        <3> QED
            BY <3>2, <3>4, <2>3, <1>6
    <2>6. Listed' = Listed
        BY <2>1 DEF Listed
    <2> HIDE DEF id
    <2>7. ListInv'
        BY <1>1, <1>2, <1>5, <1>6, <2>1, <2>5, <2>6 DEF ListInv, Running
    <2>8. TypeInv'
        BY <1>1, <1>3, <2>1 DEF IInv, TypeInv
    <2>9. BuildInv'
        BY <1>1, <1>2, <1>3, <1>5, <1>6, <2>1 DEF IInv, BuildInv
    <2>10. OpInv'
        BY <2>1 DEF IInv, OpInv
    <2> QED
        BY <1>8, <1>9, <2>7, <2>8, <2>9, <2>10 DEF IInv
<1> QED
    BY <1>10, <1>11

LEMMA CrashInv ==
    ASSUME IInv, Crash
    PROVE  IInv'
<1>1. /\ pc' = "down" /\ sstFiles' = <<>> /\ nextId' = 1 /\ cache' = <<>> /\ op' = NoOp
      /\ crashes' = crashes + 1 /\ wal' = wal
    BY DEF Crash
<1>2. Directory(files')
    <2>1. CASE UNCHANGED files
        BY <2>1 DEF IInv, TypeInv
    <2>2. CASE pc \in {"flush", "merge"} /\ files' = AddFile(nextId, Broken)
        BY <2>2, AddedFile
    <2> QED
        BY <2>1, <2>2 DEF Crash
<1>3. TypeInv'
    BY <1>1, <1>2 DEF IInv, TypeInv
<1>4. ListInv' /\ CacheInv' /\ BuildInv' /\ SearchInv' /\ OpInv'
    BY <1>1, LsmAssumption DEF ListInv, CacheInv, BuildInv, SearchInv, OpInv, Running
<1>5. LogInv'
    BY <1>1 DEF IInv, TypeInv, LogInv
<1> QED
    BY <1>3, <1>4, <1>5 DEF IInv

\* After a restart the next number is above all that are there.
LEMMA NextFileIdFresh ==
    ASSUME Directory(files)
    PROVE  NextFileId \in Nat \ {0} /\ \A id \in DOMAIN files : id < NextFileId
<1>1. CASE files = NoEntries
    <2>1. DOMAIN files = {}
        BY <1>1 DEF NoEntries
    <2> QED
        BY <1>1, <2>1 DEF NextFileId
<1>2. CASE files # NoEntries
    <2> DEFINE D == DOMAIN files
               c == CHOOSE x \in D : \A y \in D : x >= y
    <2>1. D # {}
        BY <1>2 DEF Directory, NoEntries
    <2>2. D \subseteq Nat
        BY DEF Directory
    <2>3. PICK n \in Nat : \A x \in D : x <= n
        BY DEF Directory
    <2>4. PICK m \in D : \A x \in D : x <= m
        <3> HIDE DEF D
        <3> QED
            BY <2>1, <2>2, <2>3, GreatestExists
    <2>5. \A x \in D : m >= x
        BY <2>2, <2>4
    <2>6. c \in D /\ \A y \in D : c >= y
        BY <2>5
    <2>7. NextFileId = c + 1
        BY <1>2 DEF NextFileId, Max
    <2> HIDE DEF c
    <2> QED
        BY <2>2, <2>6, <2>7
<1> QED
    BY <1>1, <1>2

LEMMA RecoverInv ==
    ASSUME IInv, Recover
    PROVE  IInv'
<1>1. /\ pc = "down" /\ pc' = "recovered"
      /\ sstFiles' \in SortedLists
      /\ nextId' = NextFileId
      /\ UNCHANGED <<wal, files, cache, op, search, crashes>>
    BY DEF Recover, boundVars
<1> DEFINE n == Cardinality(DOMAIN files)
<1>2. Directory(files)
    BY DEF IInv, TypeInv
<1>3. n \in Nat
    <2>1. PICK b \in Nat : \A id \in DOMAIN files : id <= b
        BY <1>2 DEF Directory
    <2>2. DOMAIN files \subseteq 1..b
        BY <1>2, <2>1 DEF Directory
    <2>3. IsFiniteSet(1..b)
        BY <2>1, FS_Interval
    <2>4. IsFiniteSet(DOMAIN files)
        BY <2>2, <2>3, FS_Subset
    <2> QED
        BY <2>4, FS_CardinalityType
<1> HIDE DEF n
<1>4. /\ sstFiles' \in [1..n -> DOMAIN files]
      /\ \A id \in DOMAIN files : \E i \in DOMAIN sstFiles' : sstFiles'[i] = id
      /\ \A i, j \in DOMAIN sstFiles' : i < j => sstFiles'[i] < sstFiles'[j]
    BY <1>1 DEF SortedLists, n
<1>5. sstFiles' \in Seq(DOMAIN files) /\ Len(sstFiles') = n /\ DOMAIN sstFiles' = 1..n
    BY <1>3, <1>4
<1>6. sstFiles' \in Seq(Nat \ {0})
    BY <1>2, <1>5, SeqSubset DEF Directory
<1>7. Listed' = DOMAIN files
    <2>1. Listed' = {sstFiles'[i] : i \in 1..n}
        BY <1>5 DEF Listed
    <2> QED
        BY <2>1, <1>4, <1>5
<1>8. nextId' \in Nat \ {0} /\ \A id \in DOMAIN files : id < nextId'
    BY <1>1, <1>2, NextFileIdFresh
<1>9. TypeInv'
    BY <1>1, <1>6, <1>8 DEF IInv, TypeInv, Running
<1>10. \A i, j \in 1..Len(sstFiles') : i < j => sstFiles'[i] < sstFiles'[j]
    BY <1>4, <1>5
<1>11. ListInv'
    BY <1>1, <1>7, <1>8, <1>10 DEF ListInv, Running
<1>12. CacheInv' /\ BuildInv' /\ SearchInv' /\ OpInv' /\ LogInv'
    BY <1>1 DEF IInv, CacheInv, BuildInv, SearchInv, OpInv, LogInv, Blocks, Readable
<1> QED
    BY <1>9, <1>11, <1>12 DEF IInv

LEMMA TruncateLogInv ==
    ASSUME IInv, TruncateLog
    PROVE  IInv'
<1>1. /\ pc = "recovered" /\ pc' = "idle" /\ wal' = <<>>
      /\ UNCHANGED <<files, mem, sstFiles, nextId, cache, op, search, crashes>>
    BY DEF TruncateLog, boundVars
<1>2. ListInv' /\ BuildInv' /\ Blocks' = Blocks
    BY <1>1, KeepFiles DEF Running
<1>3. TypeInv'
    BY <1>1 DEF IInv, TypeInv, Running
<1>4. CacheInv' /\ SearchInv' /\ OpInv' /\ LogInv'
    BY <1>1, <1>2 DEF IInv, CacheInv, SearchInv, OpInv, LogInv
<1> QED
    BY <1>2, <1>3, <1>4 DEF IInv

\* The invariant is inductive.
LEMMA StepInv == IInv /\ [Next]_vars => IInv'
<1> SUFFICES ASSUME IInv, [Next]_vars
             PROVE  IInv'
    OBVIOUS
<1>1. ASSUME NEW k \in Keys, NEW v \in Values \cup {Empty}, Put(k, v)
      PROVE  IInv'
    BY <1>1, LogWriteInv DEF Put
<1>2. ASSUME NEW k \in Keys, Delete(k)
      PROVE  IInv'
    BY <1>2, LogWriteInv DEF Delete
<1>3. ASSUME NEW k \in Keys, Get(k)
      PROVE  IInv'
    BY <1>3, GetInv
<1>4. CASE UNCHANGED vars
    <2>1. UNCHANGED <<wal, files, pc, mem, sstFiles, nextId, cache, op, search, crashes>>
        BY <1>4 DEF vars
    <2>2. Listed' = Listed /\ Blocks' = Blocks
        BY <2>1 DEF Listed, Blocks, Readable
    <2>3. TypeInv' /\ ListInv'
        BY <2>1, <2>2 DEF IInv, TypeInv, ListInv
    <2>4. CacheInv' /\ BuildInv' /\ SearchInv'
        BY <2>1, <2>2 DEF IInv, CacheInv, BuildInv, SearchInv
    <2>5. OpInv' /\ LogInv'
        BY <2>1 DEF IInv, OpInv, LogInv
    <2> QED
        BY <2>3, <2>4, <2>5 DEF IInv
<1> QED
    BY <1>1, <1>2, <1>3, <1>4, SearchFileInv, ApplyWriteInv, FlushBuildInv, FlushInstallInv,
       CompactionInv, MergeBuildInv, SweepInv, CrashInv, RecoverInv, TruncateLogInv DEF Next

\* The inductive invariant holds in every reachable state.
LEMMA Invariant == Spec => []IInv
BY InitInv, StepInv, PTL DEF Spec

\* New files get new numbers and the cache keeps to its capacity, for every
\* number of writes, compactions and crashes (LoadSSTableList,
\* GenerateSSTableFilename, LRUCache::Insert).
THEOREM FilesFresh == Spec => []FileIdsAreFresh
<1>1. IInv => FileIdsAreFresh
    BY DEF IInv, TypeInv, ListInv, CacheInv, FileIdsAreFresh, Running
<1> QED
    BY <1>1, Invariant, PTL

-----------------------------------------------------------------------------
(* What is stored.                                                         *)

\* The entries above the files: the MemTable or, without a process, the log.
Above == IF pc = "down" THEN Replay(wal) ELSE mem

\* What is stored under one key, before and after a step.
LEMMA StoredIs ==
    ASSUME NEW k \in Keys
    PROVE  /\ Stored[k] = IF k \in DOMAIN Above THEN Above[k] ELSE NewestIn(files, k)
           /\ Stored'[k] = IF k \in DOMAIN Above' THEN Above'[k] ELSE NewestIn(files', k)
<1>1. OnDisk(k) = NewestIn(files, k)
    BY DEF OnDisk, NewestIn, Having, HavingIn, Readable, ReadableIn
<1>2. OnDisk(k)' = NewestIn(files', k)
    BY DEF OnDisk, NewestIn, Having, HavingIn, Readable, ReadableIn
<1>3. Stored[k] = IF k \in DOMAIN Above THEN Above[k] ELSE OnDisk(k)
    BY DEF Stored, Above
<1>4. Stored'[k] = IF k \in DOMAIN Above' THEN Above'[k] ELSE OnDisk(k)'
    BY DEF Stored, Above
<1> QED
    BY <1>1, <1>2, <1>3, <1>4

\* It is a function on the keys.
LEMMA StoredFunction ==
    /\ Stored = [k \in Keys |-> Stored[k]]
    /\ Stored' = [k \in Keys |-> Stored'[k]]
BY DEF Stored

\* A step that changes neither the entries above nor the newest ones in the files
\* changes nothing that is stored.
LEMMA StoredSame ==
    ASSUME Above' = Above, \A k \in Keys : NewestIn(files', k) = NewestIn(files, k)
    PROVE  Stored' = Stored
<1>1. ASSUME NEW k \in Keys
      PROVE  Stored'[k] = Stored[k]
    BY StoredIs
<1> QED
    BY <1>1, StoredFunction

\* A search that returns answers what is stored.
LEMMA AnswerStored ==
    ASSUME IInv, pc = "get", Found \/ search.pos = 1
    PROVE  Answer = Stored[search.key]
<1> DEFINE k  == search.key
           id == sstFiles[search.pos]
<1>1. /\ search \in [key : Keys \ DOMAIN mem, pos : 1..Len(sstFiles)]
      /\ \A j \in (search.pos + 1)..Len(sstFiles) : sstFiles[j] \notin HavingIn(files, k)
    BY DEF IInv, SearchInv
<1>2. k \in Keys /\ k \notin DOMAIN mem /\ search.pos \in 1..Len(sstFiles)
    BY <1>1
<1>3. Stored[k] = NewestIn(files, k)
    BY <1>2, StoredIs DEF Above
<1>4. /\ Directory(files) /\ Len(sstFiles) \in Nat
      /\ \A i \in 1..Len(sstFiles) : sstFiles[i] \in Nat
    BY DEF IInv, TypeInv
<1>5. /\ DOMAIN files = Listed
      /\ \A i, j \in 1..Len(sstFiles) : i < j => sstFiles[i] < sstFiles[j]
    BY DEF IInv, ListInv, Running
<1>6. cache \in Seq(Blocks)
    BY DEF IInv, CacheInv
<1>7. Found <=> id \in HavingIn(files, k)
    BY <1>6, HasFresh DEF Found
<1>8. ASSUME NEW x \in HavingIn(files, k)
      PROVE  \E j \in 1..search.pos : sstFiles[j] = x
    <2>1. PICK j \in 1..Len(sstFiles) : sstFiles[j] = x
        BY <1>5 DEF HavingIn, Listed
    <2>2. j \notin (search.pos + 1)..Len(sstFiles)
        BY <1>1, <2>1
    <2>3. j \in 1..search.pos
        BY <1>2, <1>4, <2>1, <2>2
    <2> QED
        BY <2>1, <2>3
<1>9. CASE Found
    <2>1. ASSUME NEW x \in HavingIn(files, k)
          PROVE  x <= id
        <3>1. PICK j \in 1..search.pos : sstFiles[j] = x
            BY <1>8
        <3>2. j \in 1..Len(sstFiles) /\ (j = search.pos \/ j < search.pos)
            BY <1>2, <1>4
        <3>3. x = id \/ x < id
            BY <1>2, <1>5, <3>1, <3>2
        <3>4. x \in Nat /\ id \in Nat
            BY <1>2, <1>4, <3>1, <3>2
        <3> QED
            BY <3>3, <3>4
    <2>2. NewestIn(files, k) = files[id].table[k]
        <3> HIDE DEF id, k
        <3> QED
            BY <1>4, <1>7, <1>9, <2>1, NewestIs
    <2>3. Block(id) = files[id].table
        BY <1>6, <1>9, BlockFresh DEF Found, Has
    <2>4. Answer = Block(id)[k]
        BY <1>9 DEF Answer
    <2> QED
        BY <1>3, <2>2, <2>3, <2>4
<1>10. CASE ~ Found
    <2>1. search.pos = 1
        BY <1>10
    <2>2. HavingIn(files, k) = {}
        <3>1. ASSUME NEW x \in HavingIn(files, k)
              PROVE  FALSE
            <4>1. x = id
                BY <1>8, <2>1
            <4> QED
                BY <4>1, <1>7, <1>10
        <3> QED
            BY <3>1
    <2>3. Answer = Empty
        BY <1>10 DEF Answer
    <2> QED
        BY <1>3, <2>2, <2>3 DEF NewestIn
<1> QED
    BY <1>9, <1>10

\* Get answers what is stored, through the list of files, the Bloom filters and
\* the cache, after every sequence of writes, flushes, compactions and crashes
\* (DB::Get, GetFromSSTables, ReadDataBlock).
THEOREM GetAnswers == Spec => GetSeesStore
<1>1. ASSUME IInv, [Next]_vars, pc = "get", pc' = "idle"
      PROVE  Answer = Stored[search.key]
    <2>1. SearchFile
        BY <1>1 DEF Next, vars, Put, Delete, LogWrite, Get, ApplyWrite, FlushBuild, FlushInstall,
                    Compaction, MergeBuild, Sweep, Crash, Recover, TruncateLog
    <2>2. Found \/ search.pos = 1
        BY <1>1, <2>1 DEF SearchFile
    <2> QED
        BY <1>1, <2>2, AnswerStored
<1>2. IInv /\ [Next]_vars => [pc = "get" /\ pc' = "idle" => Answer = Stored[search.key]]_vars
    BY <1>1
<1> QED
    BY <1>2, Invariant, PTL DEF Spec, GetSeesStore

-----------------------------------------------------------------------------
(* The engine implements KVStore.                                          *)

\* An empty directory stores nothing.
LEMMA InitImplements == Init => KV!Init
<1> SUFFICES ASSUME Init
             PROVE  KV!Init
    OBVIOUS
<1>1. Above = NoEntries /\ files = NoEntries /\ DOMAIN NoEntries = {}
    BY DEF Init, Above, NoEntries
<1>2. ASSUME NEW k \in Keys
      PROVE  Stored[k] = Empty
    <2>1. HavingIn(files, k) = {}
        BY <1>1 DEF HavingIn
    <2> QED
        BY <1>1, <2>1, StoredIs DEF NewestIn
<1>3. Stored = [k \in Keys |-> Empty]
    BY <1>2, StoredFunction
<1>4. op = KV!NoOp
    BY DEF Init, NoOp, KV!NoOp
<1> QED
    BY <1>3, <1>4 DEF KV!Init

\* The write takes effect when it reaches the MemTable.
LEMMA ApplyWriteImplements ==
    ASSUME IInv, ApplyWrite
    PROVE  KV!Effect
<1>1. pc \in {"put", "delete"} /\ pc' \in {"flush", "idle"} /\ files' = files
    BY DEF ApplyWrite
<1>2. op \in Writes(FALSE)
    BY <1>1 DEF IInv, OpInv
<1>3. op.key \in Keys /\ ~ op.done
    BY <1>2 DEF Writes
<1>4. op # NoOp
    BY <1>3 DEF NoOp
<1>5. Above = mem /\ Above' = MemPut(mem, op.key, op.value)
    BY <1>1 DEF Above, ApplyWrite
<1>6. ASSUME NEW k \in Keys
      PROVE  Stored'[k] = IF k = op.key THEN op.value ELSE Stored[k]
    <2>1. DOMAIN Above' = DOMAIN Above \cup {op.key}
        BY <1>5 DEF MemPut
    <2>2. \A x \in DOMAIN Above' : Above'[x] = IF x = op.key THEN op.value ELSE Above[x]
        BY <1>5 DEF MemPut
    <2> QED
        BY <1>1, <2>1, <2>2, StoredIs
<1>7. Stored' = [Stored EXCEPT ![op.key] = op.value]
    BY <1>6, StoredFunction
<1>8. op' \in {NoOp, [op EXCEPT !.done = TRUE]}
    BY DEF ApplyWrite
<1> QED
    BY <1>3, <1>4, <1>7, <1>8 DEF KV!Effect, KV!Written, KV!NoOp, NoOp

\* Writing the MemTable to a file changes nothing that is stored, and neither
\* does emptying it afterwards.
LEMMA FlushBuildImplements ==
    ASSUME IInv, FlushBuild
    PROVE  Stored' = Stored
<1>1. /\ pc = "flush" /\ pc' = "built"
      /\ files' = AddFile(nextId, Whole(mem))
      /\ UNCHANGED <<mem, wal>>
    BY DEF FlushBuild
<1>2. Above = mem /\ Above' = mem
    BY <1>1 DEF Above
<1>3. /\ Directory(files')
      /\ DOMAIN files' = DOMAIN files \cup {nextId}
      /\ files'[nextId] = Whole(mem)
      /\ \A x \in DOMAIN files : files'[x] = files[x]
    BY <1>1, AddedFile
<1>4. /\ Directory(files) /\ nextId \in Nat \ {0}
      /\ \A x \in DOMAIN files : x < nextId
    BY <1>1 DEF IInv, TypeInv, ListInv, Running
<1>5. ASSUME NEW k \in Keys
      PROVE  Stored'[k] = Stored[k]
    <2>1. NewestIn(files', k) = IF k \in DOMAIN mem THEN mem[k] ELSE NewestIn(files, k)
        BY <1>3, <1>4, AddNewest
    <2> QED
        BY <1>2, <2>1, StoredIs
<1> QED
    BY <1>5, StoredFunction

LEMMA FlushInstallImplements ==
    ASSUME IInv, FlushInstall
    PROVE  Stored' = Stored
<1> DEFINE new == nextId - 1
<1>1. pc = "built" /\ pc' \in {"merge", "idle"} /\ mem' = NoEntries /\ UNCHANGED files
    BY DEF FlushInstall
<1>2. Above = mem /\ DOMAIN Above' = {}
    BY <1>1 DEF Above, NoEntries
<1>3. /\ Directory(files) /\ nextId \in Nat
      /\ new \in DOMAIN files /\ \A x \in DOMAIN files : x < nextId
      /\ files[new] = Whole(mem)
    BY <1>1 DEF IInv, TypeInv, ListInv, BuildInv, Running
<1>4. \A x \in DOMAIN files : x <= new
    BY <1>3 DEF Directory
<1>5. Whole(mem).whole /\ Whole(mem).table = mem
    BY DEF Whole
<1> HIDE DEF new
<1>6. ASSUME NEW k \in Keys
      PROVE  Stored'[k] = Stored[k]
    <2>1. Stored'[k] = NewestIn(files, k)
        BY <1>1, <1>2, StoredIs
    <2>2. CASE k \in DOMAIN mem
        <3>1. new \in HavingIn(files, k) /\ \A x \in HavingIn(files, k) : x <= new
            BY <1>3, <1>4, <1>5, <2>2 DEF HavingIn, ReadableIn
        <3>2. NewestIn(files, k) = files[new].table[k]
            BY <1>3, <3>1, NewestIs
        <3>3. Stored[k] = mem[k]
            BY <1>2, <2>2, StoredIs
        <3> QED
            BY <1>3, <1>5, <2>1, <3>2, <3>3
    <2>3. CASE k \notin DOMAIN mem
        BY <1>2, <2>1, <2>3, StoredIs
    <2> QED
        BY <2>2, <2>3
<1> QED
    BY <1>6, StoredFunction

\* A first crash ends a write that was only logged with its effect, and changes
\* nothing otherwise.
LEMMA CrashImplements ==
    ASSUME IInv, Crash, crashes' <= 1
    PROVE  KV!Crash
<1>1. /\ pc' = "down" /\ op' = NoOp /\ wal' = wal /\ crashes' = crashes + 1
    BY DEF Crash
<1>2. crashes = 0
    BY <1>1 DEF IInv, TypeInv
<1>3. pc \notin {"down", "recovered"} /\ pc \in Running
    BY <1>2 DEF IInv, LogInv, TypeInv
<1>4. Above = mem /\ Above' = Replay(wal)
    BY <1>1, <1>3 DEF Above
<1>5. ASSUME NEW k \in Keys
      PROVE  NewestIn(files', k) = NewestIn(files, k)
    <2>1. CASE UNCHANGED files
        BY <2>1
    <2>2. CASE pc \in {"flush", "merge"} /\ files' = AddFile(nextId, Broken)
        <3>1. /\ Directory(files')
              /\ DOMAIN files' = DOMAIN files \cup {nextId}
              /\ files'[nextId] = Broken
              /\ \A x \in DOMAIN files : files'[x] = files[x]
            BY <2>2, AddedFile
        <3>2. /\ Directory(files) /\ nextId \in Nat \ {0}
              /\ \A x \in DOMAIN files : x < nextId
            BY <1>3 DEF IInv, TypeInv, ListInv
        <3> QED
            BY <3>1, <3>2, AddBroken
    <2> QED
        BY <2>1, <2>2 DEF Crash
<1>6. CASE pc \in {"put", "delete"}
    <2>1. Above' = MemPut(mem, op.key, op.value)
        BY <1>2, <1>4, <1>6 DEF IInv, LogInv
    <2>2. op \in Writes(FALSE)
        BY <1>6 DEF IInv, OpInv
    <2>3. op.key \in Keys /\ ~ op.done
        BY <2>2 DEF Writes
    <2>4. ASSUME NEW k \in Keys
          PROVE  Stored'[k] = IF k = op.key THEN op.value ELSE Stored[k]
        <3>1. DOMAIN Above' = DOMAIN Above \cup {op.key}
            BY <1>4, <2>1 DEF MemPut
        <3>2. \A x \in DOMAIN Above' : Above'[x] = IF x = op.key THEN op.value ELSE Above[x]
            BY <1>4, <2>1 DEF MemPut
        <3> QED
            BY <1>5, <3>1, <3>2, StoredIs
    <2>5. Stored' = [Stored EXCEPT ![op.key] = op.value]
        BY <2>4, StoredFunction
    <2> QED
        BY <1>1, <2>3, <2>5 DEF KV!Crash, KV!Written, KV!NoOp, NoOp
<1>7. CASE pc \notin {"put", "delete"}
    <2>1. Above' = Above
        BY <1>2, <1>4, <1>7 DEF IInv, LogInv
    <2>2. Stored' = Stored
        BY <1>5, <2>1, StoredSame
    <2> QED
        BY <1>1, <2>2 DEF KV!Crash, KV!NoOp, NoOp
<1> QED
    BY <1>6, <1>7

\* The steps that only give up the lock or move between parts of an operation.
LEMMA QuietImplements ==
    ASSUME UNCHANGED <<mem, files>>, pc # "down", pc' # "down"
    PROVE  Stored' = Stored
<1>1. Above' = Above
    BY DEF Above
<1> QED
    BY <1>1, StoredSame

\* The end of an operation is its return, or no step if there was none.
LEMMA Returns ==
    ASSUME op \in Writes(TRUE) \cup {NoOp}, op' \in {op, NoOp}, Stored' = Stored
    PROVE  KV!Return \/ UNCHANGED <<Stored, op>>
<1>1. CASE op' = op
    BY <1>1
<1>2. CASE op = NoOp /\ op' = NoOp
    BY <1>2
<1>3. CASE op \in Writes(TRUE) /\ op' = NoOp
    <2>1. op.key \in Keys /\ op.done
        BY <1>3 DEF Writes
    <2>2. op # NoOp
        BY <2>1, LsmAssumption DEF NoOp
    <2> QED
        BY <1>3, <2>1, <2>2 DEF KV!Return, KV!NoOp, NoOp
<1> QED
    BY <1>1, <1>2, <1>3

\* Every step is a step of KVStore or none.
LEMMA StepImplements ==
    ASSUME IInv, [Next]_vars, crashes' <= 1
    PROVE  [KV!Next]_<<Stored, op>>
<1>1. ASSUME NEW k \in Keys, NEW v \in Values \cup {Empty}, Put(k, v) \/ Delete(k)
      PROVE  [KV!Next]_<<Stored, op>>
    <2>1. PICK w \in Values \cup {Empty}, next \in {"put", "delete"} : LogWrite(k, w, next)
        BY <1>1 DEF Put, Delete
    <2>2. /\ pc = "idle" /\ pc' \in {"put", "delete"} /\ UNCHANGED <<mem, files>>
          /\ op' = [key |-> k, value |-> w, done |-> FALSE]
        BY <2>1 DEF LogWrite
    <2>3. Stored' = Stored
        BY <2>2, QuietImplements
    <2>4. op = NoOp
        BY <2>2 DEF IInv, OpInv
    <2>5. KV!Begin(k, w)
        BY <2>2, <2>3, <2>4 DEF KV!Begin, KV!NoOp, NoOp
    <2> QED
        BY <2>5 DEF KV!Next
<1>2. CASE \E k \in Keys : Get(k)
    <2>1. pc = "idle" /\ pc' = "get" /\ UNCHANGED <<mem, files, op>>
        BY <1>2 DEF Get
    <2> QED
        BY <2>1, QuietImplements
<1>3. CASE SearchFile
    <2>1. pc = "get" /\ pc' \in {"get", "idle"} /\ UNCHANGED <<mem, files, op>>
        BY <1>3 DEF SearchFile
    <2> QED
        BY <2>1, QuietImplements
<1>4. CASE ApplyWrite
    BY <1>4, ApplyWriteImplements DEF KV!Next
<1>5. CASE FlushBuild
    BY <1>5, FlushBuildImplements DEF FlushBuild
<1>6. CASE FlushInstall
    <2>1. pc = "built" /\ op' \in {op, NoOp}
        BY <1>6 DEF FlushInstall
    <2>2. op \in Writes(TRUE) \cup {NoOp}
        BY <2>1 DEF IInv, OpInv
    <2> QED
        BY <1>6, <2>1, <2>2, FlushInstallImplements, Returns DEF KV!Next
<1>7. CASE Compaction
    <2>1. pc = "idle" /\ pc' = "merge" /\ UNCHANGED <<mem, files, op>>
        BY <1>7 DEF Compaction
    <2> QED
        BY <2>1, QuietImplements
<1>8. CASE MergeBuild
    <2>1. pc = "merge" /\ pc' = "sweep" /\ UNCHANGED <<mem, op>>
        BY <1>8 DEF MergeBuild
    <2>2. Above' = Above
        BY <2>1 DEF Above
    <2>3. \A k \in Keys : NewestIn(files', k) = NewestIn(files, k)
        BY <1>8, MergeKeeps
    <2> QED
        BY <2>1, <2>2, <2>3, StoredSame
<1>9. CASE Sweep
    <2>1. pc = "sweep" /\ pc' \in {"sweep", "idle"} /\ op' \in {op, NoOp} /\ UNCHANGED mem
        BY <1>9 DEF Sweep
    <2>2. Above' = Above
        BY <2>1 DEF Above
    <2>3. \A k \in Keys : NewestIn(files', k) = NewestIn(files, k)
        BY <1>9, SweepKeeps
    <2>4. Stored' = Stored
        BY <2>2, <2>3, StoredSame
    <2>5. op \in Writes(TRUE) \cup {NoOp}
        BY <2>1 DEF IInv, OpInv
    <2> QED
        BY <2>1, <2>4, <2>5, Returns DEF KV!Next
<1>10. CASE Crash
    BY <1>10, CrashImplements DEF KV!Next
<1>11. CASE Recover
    <2>1. pc = "down" /\ pc' = "recovered" /\ mem' = Replay(wal) /\ UNCHANGED <<files, op>>
        BY <1>11 DEF Recover
    <2>2. Above' = Above
        BY <2>1 DEF Above
    <2> QED
        BY <2>1, <2>2, StoredSame
<1>12. CASE TruncateLog
    <2>1. pc = "recovered" /\ pc' = "idle" /\ UNCHANGED <<mem, files, op>>
        BY <1>12 DEF TruncateLog
    <2> QED
        BY <2>1, QuietImplements
<1>13. CASE UNCHANGED vars
    <2>1. UNCHANGED <<pc, wal, mem, files, op>>
        BY <1>13 DEF vars
    <2>2. Above' = Above
        BY <2>1 DEF Above
    <2> QED
        BY <2>1, <2>2, StoredSame
<1>14. Empty \in Values \cup {Empty}
    OBVIOUS
<1> QED
    BY <1>1, <1>2, <1>3, <1>4, <1>5, <1>6, <1>7, <1>8, <1>9, <1>10, <1>11, <1>12, <1>13, <1>14
       DEF Next

\* The engine implements a map with atomic and durable writes in every behaviour
\* with at most one crash, at whichever step it comes.  A second one may find the
\* log truncated and its entries in no file (db.cc:49, lsm_wal_loss).
THEOREM Implements == Spec /\ [](crashes <= 1) => ImplementsKVStore
<1>1. IInv /\ [Next]_vars /\ (crashes <= 1)' => [KV!Next]_<<Stored, op>>
    BY StepImplements
<1> QED
    BY <1>1, InitImplements, Invariant, PTL DEF Spec, ImplementsKVStore, KV!Spec
=============================================================================
