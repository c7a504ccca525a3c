-------------------------- MODULE HANameNode_proofs --------------------------
(***************************************************************************)
(* Proofs about the replicated NameNode, for every cluster, every set of   *)
(* write requests and paths and every bound: it takes only steps of Raft,  *)
(* a server lists the files that its finished callbacks make, and its      *)
(* block table fits its files.  Nothing is assumed about what Raft commits *)
(* or who leads.                                                           *)
(***************************************************************************)
EXTENDS HANameNode, RaftLog_proofs

-----------------------------------------------------------------------------
(* The inductive invariant, on the metadata of one server: files f, block  *)
(* table b, entries given to the state machine a, entries whose callback   *)
(* is not over q, calls left c, touched ids t, reused ids r.               *)

\* A table of files: the paths it has, each with a list of ids.
IsTable(f) ==
    /\ DOMAIN f \subseteq Paths
    /\ f = [p \in DOMAIN f |-> f[p]]
    /\ \A p \in DOMAIN f : f[p] \in Seq(Nat)

\* Two files share a block only if its id was given out again.
SharedKnown(f, r) ==
    \A p, q \in DOMAIN f : p # q => IdsIn(f, p) \cap IdsIn(f, q) \subseteq r

\* FilesAfter of the first k entries of a.
FilesAt(a, k) ==
    {p \in Paths : \E i \in 1..k :
        /\ OpOf[a[i].cmd] = "create" /\ PathOf[a[i].cmd] = p
        /\ \A j \in (i + 1)..k : ~ (OpOf[a[j].cmd] = "delete" /\ PathOf[a[j].cmd] = p)}

\* The entries of q are the last ones of a.
IsEndOf(q, a) ==
    /\ q \in Seq(Entry) /\ a \in Seq(Entry)
    /\ Len(q) <= Len(a)
    /\ \A i \in 1..Len(q) : q[i] = a[Len(a) - Len(q) + i]

\* Listed blocks have an entry, except those of x; entries are of listed blocks,
\* except those of y.
Present(f, b, x, r)   == Listed(f) \subseteq b \cup x \cup r
Accounted(f, b, y, t) == b \subseteq Listed(f) \cup y \cup t
Steady(f, b, t, r)    == Present(f, b, {}, r) /\ Accounted(f, b, {}, t)

\* ApplyDeleteFile: blocks of the file are left, then the file.
DeleteCall(p) == [name : {"DeleteBlock", "DeleteFile"}, path : {p}, id : Nat]

DeleteCalls(f, p, c) ==
    /\ c \in Seq(DeleteCall(p))
    /\ c # <<>> /\ c[Len(c)] = Call("DeleteFile", p, 0)
    /\ \A i \in 1..(Len(c) - 1) : \E id \in IdsIn(f, p) : c[i] = Call("DeleteBlock", p, id)

\* What is left of the entries of its blocks is still to be deleted, or came back.
Deleting(f, b, p, c, t, r) ==
    /\ p \in DOMAIN f
    /\ DeleteCalls(f, p, c)
    /\ Present(f, b, IdsIn(f, p), r)
    /\ Accounted(f, b, {}, t)
    /\ \A id \in IdsIn(f, p) \cap b :
          id \in t \/ \E i \in 1..(Len(c) - 1) : c[i].id = id

\* ApplyAllocateBlock: before AddBlock, and between it and UpdateFile.
Allocating(f, b, p, c, t, r) ==
    /\ p \in DOMAIN f
    /\ \E id \in Nat :
          /\ id \in Listed(f) => id \in r
          /\ \/ /\ c = <<Call("AddBlock", p, id), Call("UpdateFile", p, id)>>
                /\ Steady(f, b, t, r)
             \/ /\ c = <<Call("UpdateFile", p, id)>>
                /\ id \in b
                /\ Present(f, b, {}, r)
                /\ Accounted(f, b, {id}, t)

UnderWay(f, b, v, c, t, r) ==
    \/ OpOf[v] = "create" /\ c = ApplyCreateFile(PathOf[v]) /\ Steady(f, b, t, r)
    \/ OpOf[v] = "delete" /\ Deleting(f, b, PathOf[v], c, t, r)
    \/ OpOf[v] = "allocate" /\ Allocating(f, b, PathOf[v], c, t, r)

Holds(f, b, a, q, c, t, r) ==
    /\ IsTable(f) /\ SharedKnown(f, r)
    /\ IsEndOf(q, a)
    /\ DOMAIN f = FilesAt(a, Len(a) - Len(q))
    /\ \/ c = <<>> /\ Steady(f, b, t, r)
       \/ q # <<>> /\ UnderWay(f, b, Head(q).cmd, c, t, r)

\* Metadata in a snapshot with the entries d.
Stored(s, d) ==
    /\ IsTable(s.files) /\ SharedKnown(s.files, s.reused)
    /\ d \in Seq(Entry)
    /\ DOMAIN s.files = FilesAt(d, Len(d))
    /\ Present(s.files, s.blocks, {}, s.reused)
    /\ s.blocks \subseteq Listed(s.files)

ServerInv(n) ==
    /\ Holds(files[n], blocks[n], applied[n], todo[n], script[n], touched[n], reused[n])
    /\ nextId[n] \in Nat
    /\ Stored(saved[n], snapFile[n].data)
    /\ taking[n].pc = "captured" => Stored(captured[n], taking[n].snap.data)

\* Every variable of the metadata has a value for every server.
HAShape ==
    /\ DOMAIN files = Nodes /\ DOMAIN blocks = Nodes /\ DOMAIN nextId = Nodes
    /\ DOMAIN todo = Nodes /\ DOMAIN script = Nodes
    /\ DOMAIN captured = Nodes /\ DOMAIN saved = Nodes
    /\ DOMAIN touched = Nodes /\ DOMAIN reused = Nodes

HAInv == HAShape /\ \A n \in Nodes : ServerInv(n)

-----------------------------------------------------------------------------
(* Files and entries.                                                      *)

\* The files after the first k entries are those of the log cut there.
LEMMA FilesOfPrefix ==
    ASSUME NEW a \in Seq(Entry), NEW k \in 0..Len(a)
    PROVE  FilesAfter(SubSeq(a, 1, k)) = FilesAt(a, k)
<1>1. Len(a) \in Nat /\ k \in Nat /\ \A i \in 1..k : a[i] \in Entry
  BY LenProperties, ElementOfSeq
<1> HIDE DEF Entry
<1>2. /\ Len(SubSeq(a, 1, k)) = k
      /\ \A i \in 1..k : SubSeq(a, 1, k)[i] = a[i]
  <2>1. /\ Len(SubSeq(a, 1, k)) = IF 1 <= k THEN k - 1 + 1 ELSE 0
        /\ \A i \in 1..(k - 1 + 1) : SubSeq(a, 1, k)[i] = a[1 + i - 1]
    BY <1>1, SubSeqProperties
  <2> QED BY <1>1, <2>1
<1>3. \A i \in 1..k : \A j \in (i + 1)..k : j \in 1..k
  BY <1>1
<1> QED BY <1>2, <1>3 DEF FilesAfter, FilesAt

\* Only the first k entries count.
LEMMA FilesKept ==
    ASSUME NEW a, NEW d, NEW k \in Nat, \A i \in 1..k : a[i] = d[i]
    PROVE  FilesAt(a, k) = FilesAt(d, k)
<1>1. \A i \in 1..k : \A j \in (i + 1)..k : j \in 1..k
  OBVIOUS
<1> QED BY <1>1 DEF FilesAt

\* What one more entry does (OnApplyCommitted).
LEMMA FilesStep ==
    ASSUME NEW a, NEW k \in Nat
    PROVE  /\ OpOf[a[k + 1].cmd] = "create" /\ PathOf[a[k + 1].cmd] \in Paths
                => FilesAt(a, k + 1) = FilesAt(a, k) \cup {PathOf[a[k + 1].cmd]}
           /\ OpOf[a[k + 1].cmd] = "delete"
                => FilesAt(a, k + 1) = FilesAt(a, k) \ {PathOf[a[k + 1].cmd]}
           /\ OpOf[a[k + 1].cmd] = "allocate" => FilesAt(a, k + 1) = FilesAt(a, k)
<1> DEFINE creates(i, p) == OpOf[a[i].cmd] = "create" /\ PathOf[a[i].cmd] = p
           deletes(i, p) == OpOf[a[i].cmd] = "delete" /\ PathOf[a[i].cmd] = p
<1>1. \A p, l : p \in FilesAt(a, l) <=>
         /\ p \in Paths
         /\ \E i \in 1..l : creates(i, p) /\ \A j \in (i + 1)..l : ~ deletes(j, p)
  BY DEF FilesAt
<1> HIDE DEF creates, deletes
<1>2. \A p : p \in FilesAt(a, k + 1) <=>
         \/ p \in Paths /\ creates(k + 1, p)
         \/ p \in FilesAt(a, k) /\ ~ deletes(k + 1, p)
  <2>1. ASSUME NEW p \in FilesAt(a, k + 1), ~ creates(k + 1, p)
        PROVE  p \in FilesAt(a, k) /\ ~ deletes(k + 1, p)
    <3>1. PICK i \in 1..(k + 1) :
              creates(i, p) /\ \A j \in (i + 1)..(k + 1) : ~ deletes(j, p)
      BY <1>1
    <3>2. i \in 1..k /\ k + 1 \in (i + 1)..(k + 1) /\ p \in Paths
      BY <1>1, <2>1, <3>1
    <3>3. \A j \in (i + 1)..k : j \in (i + 1)..(k + 1)
      BY <3>2
    <3> QED BY <1>1, <3>1, <3>2, <3>3
  <2>2. ASSUME NEW p \in Paths, creates(k + 1, p)
        PROVE  p \in FilesAt(a, k + 1)
    <3>1. k + 1 \in 1..(k + 1) /\ \A j \in (k + 1 + 1)..(k + 1) : FALSE
      OBVIOUS
    <3> QED BY <1>1, <2>2, <3>1
  <2>3. ASSUME NEW p \in FilesAt(a, k), ~ deletes(k + 1, p)
        PROVE  p \in FilesAt(a, k + 1)
    <3>1. PICK i \in 1..k : creates(i, p) /\ \A j \in (i + 1)..k : ~ deletes(j, p)
      BY <1>1
    <3>2. i \in 1..(k + 1) /\ \A j \in (i + 1)..(k + 1) : j \in (i + 1)..k \/ j = k + 1
      OBVIOUS
    <3>3. p \in Paths
      BY <1>1
    <3> QED BY <1>1, <2>3, <3>1, <3>2, <3>3
  <2>4. FilesAt(a, k + 1) \subseteq Paths
    BY <1>1
  <2> QED BY <2>1, <2>2, <2>3, <2>4
<1> QED BY <1>2 DEF creates, deletes
-----------------------------------------------------------------------------
(* The steps of one server, on values.                                     *)

\* Nothing is left of the entries: no call is, and the files are those of all.
LEMMA HoldsAtRest ==
    ASSUME NEW f, NEW b, NEW a, NEW q, NEW c, NEW t, NEW r,
           Holds(f, b, a, q, c, t, r), q = <<>>
    PROVE  /\ c = <<>> /\ Steady(f, b, t, r)
           /\ a \in Seq(Entry) /\ DOMAIN f = FilesAt(a, Len(a))
<1>1. a \in Seq(Entry) /\ Len(q) = 0 /\ Len(a) \in Nat
  BY LenProperties DEF Holds, IsEndOf
<1> QED BY <1>1 DEF Holds

\* ApplyCommitted gives more entries, when no callback is under way.
LEMMA HoldsMore ==
    ASSUME NEW f, NEW b, NEW a, NEW c, NEW t, NEW r, NEW x \in Seq(Entry),
           Holds(f, b, a, <<>>, c, t, r)
    PROVE  Holds(f, b, a \o x, <<>> \o SubSeq(a \o x, Len(a) + 1, Len(a \o x)), c, t, r)
<1> DEFINE d == a \o x
           q == SubSeq(d, Len(a) + 1, Len(d))
<1>1. a \in Seq(Entry) /\ c = <<>> /\ Steady(f, b, t, r) /\ DOMAIN f = FilesAt(a, Len(a))
  BY HoldsAtRest
<1>2. IsTable(f) /\ SharedKnown(f, r)
  BY DEF Holds
<1>3. /\ Len(a) \in Nat /\ Len(x) \in Nat
      /\ d \in Seq(Entry) /\ Len(d) = Len(a) + Len(x)
      /\ \A i \in 1..Len(a) : d[i] = a[i]
  <2>1. Len(a) \in Nat /\ Len(x) \in Nat
    BY <1>1, LenProperties
  <2>2. /\ d \in Seq(Entry) /\ Len(d) = Len(a) + Len(x)
        /\ \A i \in 1..(Len(a) + Len(x)) : d[i] = IF i <= Len(a) THEN a[i] ELSE x[i - Len(a)]
    BY <1>1, ConcatProperties
  <2> QED BY <2>1, <2>2
<1> HIDE DEF d
<1>4. /\ q \in Seq(Entry) /\ Len(q) = Len(x)
      /\ \A i \in 1..Len(x) : q[i] = d[Len(a) + i]
  <2>1. \A i \in (Len(a) + 1)..Len(d) : d[i] \in Entry
    BY <1>3, ElementOfSeq
  <2> HIDE DEF Entry
  <2>2. /\ q \in Seq(Entry)
        /\ Len(q) = IF Len(a) + 1 <= Len(d) THEN Len(d) - (Len(a) + 1) + 1 ELSE 0
        /\ \A i \in 1..(Len(d) - (Len(a) + 1) + 1) : q[i] = d[Len(a) + 1 + i - 1]
    BY <1>3, <2>1, SubSeqProperties
  <2> QED BY <1>3, <2>2
<1> HIDE DEF q
<1>5. IsEndOf(q, d)
  BY <1>3, <1>4 DEF IsEndOf
<1>6. Len(d) - Len(q) = Len(a) /\ FilesAt(d, Len(a)) = FilesAt(a, Len(a))
  <2>1. Len(d) - Len(q) = Len(a)
    BY <1>3, <1>4
  <2>2. \A k \in Nat : (\A i \in 1..k : d[i] = a[i]) => FilesAt(d, k) = FilesAt(a, k)
    BY FilesKept
  <2> QED BY <1>3, <2>1, <2>2
<1>7. <<>> \o q = q
  <2>1. \A S : \A s \in Seq(S) : <<>> \o s = s
    BY ConcatEmptySeq
  <2> QED BY <1>4, <2>1
<1>8. Holds(f, b, d, q, c, t, r)
  BY <1>1, <1>2, <1>5, <1>6 DEF Holds
<1> QED BY <1>7, <1>8 DEF d, q

\* A report or a repair enters a block (UpdateBlockLocation).
LEMMA HoldsReport ==
    ASSUME NEW f, NEW b, NEW a, NEW q, NEW c, NEW t, NEW r, NEW id,
           Holds(f, b, a, q, c, t, r)
    PROVE  Holds(f, b \cup {id}, a, q, c, t \cup {id}, r)
<1>1. /\ \A y : Accounted(f, b, y, t) => Accounted(f, b \cup {id}, y, t \cup {id})
      /\ \A x : Present(f, b, x, r) => Present(f, b \cup {id}, x, r)
  BY DEF Accounted, Present
<1>2. Steady(f, b, t, r) => Steady(f, b \cup {id}, t \cup {id}, r)
  BY <1>1 DEF Steady
<1>3. \A p : Deleting(f, b, p, c, t, r) => Deleting(f, b \cup {id}, p, c, t \cup {id}, r)
  BY <1>1 DEF Deleting
<1>4. \A p : Allocating(f, b, p, c, t, r) => Allocating(f, b \cup {id}, p, c, t \cup {id}, r)
  BY <1>1, <1>2 DEF Allocating
<1>5. \A v : UnderWay(f, b, v, c, t, r) => UnderWay(f, b \cup {id}, v, c, t \cup {id}, r)
  BY <1>2, <1>3, <1>4 DEF UnderWay
<1> QED BY <1>2, <1>5 DEF Holds

\* The callback of the first entry is over: the files are those of one entry more.
LEMMA TailIsEnd ==
    ASSUME NEW q, NEW a, IsEndOf(q, a), q # <<>>
    PROVE  /\ IsEndOf(Tail(q), a)
           /\ Len(a) - Len(q) \in Nat
           /\ Len(a) - Len(Tail(q)) = Len(a) - Len(q) + 1
           /\ a[Len(a) - Len(q) + 1] = Head(q)
           /\ Head(q) \in Entry
<1>1. q \in Seq(Entry) /\ a \in Seq(Entry) /\ Len(q) \in Nat /\ Len(a) \in Nat
      /\ Len(q) <= Len(a)
  BY LenProperties DEF IsEndOf
<1>2. Len(q) > 0
  BY <1>1, EmptySeq
<1>3. /\ Head(q) \in Entry /\ Tail(q) \in Seq(Entry) /\ Len(Tail(q)) = Len(q) - 1
      /\ \A i \in 1..Len(Tail(q)) : Tail(q)[i] = q[i + 1]
  BY <1>1, HeadTailProperties
<1>4. Head(q) = q[1]
  BY <1>1, <1>2
<1>5. \A i \in 1..Len(Tail(q)) : Tail(q)[i] = a[Len(a) - Len(Tail(q)) + i]
  BY <1>1, <1>2, <1>3 DEF IsEndOf
<1>6. a[Len(a) - Len(q) + 1] = Head(q)
  BY <1>1, <1>2, <1>4 DEF IsEndOf
<1> QED BY <1>1, <1>2, <1>3, <1>5, <1>6 DEF IsEndOf

\* The write requests of the entries.
LEMMA HeadRequest ==
    ASSUME NEW e \in Entry
    PROVE  /\ OpOf[e.cmd] \in {"create", "delete", "allocate"}
           /\ PathOf[e.cmd] \in Paths
  BY HAAssumption DEF Entry

\* A callback that leaves nothing to do is over.
LEMMA HoldsOver ==
    ASSUME NEW f, NEW b, NEW a, NEW q, NEW t, NEW r,
           IsTable(f), SharedKnown(f, r), IsEndOf(q, a), q # <<>>,
           DOMAIN f = FilesAt(a, Len(a) - Len(q) + 1), Steady(f, b, t, r)
    PROVE  Holds(f, b, a, Tail(q), <<>>, t, r)
  BY TailIsEnd DEF Holds

\* The calls that delete a file: one for each block it lists, then the file.
LEMMA DeleteShape ==
    ASSUME NEW f, NEW p \in DOMAIN f, IsTable(f)
    PROVE  /\ DeleteCalls(f, p, ApplyDeleteFile(f, p))
           /\ \A id \in IdsIn(f, p) : \E i \in 1..(Len(ApplyDeleteFile(f, p)) - 1) :
                  ApplyDeleteFile(f, p)[i].id = id
<1> DEFINE l == f[p]
           s == [i \in 1..Len(l) |-> Call("DeleteBlock", p, l[i])]
           w == <<Call("DeleteFile", p, 0)>>
           S == DeleteCall(p)
<1>1. l \in Seq(Nat) /\ Len(l) \in Nat /\ \A i \in 1..Len(l) : l[i] \in Nat
  BY LenProperties, ElementOfSeq DEF IsTable
<1>2. s \in [1..Len(l) -> S]
  BY <1>1 DEF Call, DeleteCall
<1>3. s \in Seq(S) /\ Len(s) = Len(l) /\ \A i \in 1..Len(l) : s[i] = Call("DeleteBlock", p, l[i])
  <2>1. s \in Seq(S)
    BY <1>1, <1>2, SeqDef
  <2>2. DOMAIN s = 1..Len(s) /\ Len(s) \in Nat
    BY <2>1, LenProperties
  <2>3. DOMAIN s = 1..Len(l)
    OBVIOUS
  <2> HIDE DEF s
  <2>4. Len(s) = Len(l)
    BY <1>1, <2>2, <2>3
  <2> QED BY <2>1, <2>4 DEF s
<1>4. w \in Seq(S) /\ Len(w) = 1 /\ w[1] = Call("DeleteFile", p, 0)
  <2>1. Call("DeleteFile", p, 0) \in S
    BY DEF Call, DeleteCall
  <2> HIDE DEF S
  <2> QED BY <2>1
<1>5. ApplyDeleteFile(f, p) = s \o w
  BY DEF ApplyDeleteFile
<1>6. IdsIn(f, p) = {l[i] : i \in 1..Len(l)}
  BY DEF IdsIn
<1> HIDE DEF s, w, S, l
<1>7. /\ Len(s \o w) = Len(s) + Len(w) /\ s \o w \in Seq(S)
      /\ \A i \in 1..(Len(s) + Len(w)) :
            (s \o w)[i] = IF i <= Len(s) THEN s[i] ELSE w[i - Len(s)]
  BY <1>3, <1>4, ConcatProperties
<1>0. PICK c : c = s \o w
  OBVIOUS
<1>8. /\ Len(c) = Len(l) + 1
      /\ \A i \in 1..Len(l) : c[i] = Call("DeleteBlock", p, l[i])
      /\ c[Len(l) + 1] = Call("DeleteFile", p, 0)
  <2>1. /\ Len(c) = Len(l) + 1
        /\ \A i \in 1..(Len(l) + 1) : c[i] = IF i <= Len(l) THEN s[i] ELSE w[i - Len(l)]
    BY <1>0, <1>3, <1>4, <1>7
  <2>2. \A i \in 1..Len(l) : c[i] = s[i]
    BY <1>1, <2>1
  <2>3. c[Len(l) + 1] = w[Len(l) + 1 - Len(l)] /\ Len(l) + 1 - Len(l) = 1
    BY <1>1, <2>1
  <2> QED BY <1>3, <1>4, <2>1, <2>2, <2>3
<1>9. c # <<>>
  <2>1. c \in Seq(S) /\ Len(c) # 0
    BY <1>0, <1>1, <1>7, <1>8
  <2> QED BY <2>1, EmptySeq
<1>10. \A i \in 1..Len(l) : l[i] \in IdsIn(f, p) /\ Call("DeleteBlock", p, l[i]).id = l[i]
  BY <1>6 DEF Call
<1>11. Len(c) - 1 = Len(l)
  BY <1>1, <1>8
<1>12. ASSUME NEW id \in IdsIn(f, p) PROVE \E i \in 1..(Len(c) - 1) : c[i].id = id
  <2>1. PICK i \in 1..Len(l) : id = l[i]
    BY <1>6
  <2>2. c[i].id = Call("DeleteBlock", p, l[i]).id
    BY <1>8
  <2>3. c[i].id = id
    BY <1>10, <2>1, <2>2
  <2> QED BY <1>11, <2>3
<1>13. DeleteCalls(f, p, c)
  BY <1>0, <1>7, <1>8, <1>9, <1>10, <1>11 DEF DeleteCalls, S
<1> QED BY <1>0, <1>5, <1>12, <1>13

\* A callback begins (OnApplyCommitted).
LEMMA HoldsBegin ==
    ASSUME NEW f, NEW b, NEW a, NEW q, NEW t, NEW r, NEW k \in Nat, NEW room,
           NEW calls, NEW taken,
           Holds(f, b, a, q, <<>>, t, r), q # <<>>,
           calls = CallsFor(f, k, Head(q).cmd, room),
           taken = IF OpOf[Head(q).cmd] = "allocate" /\ calls # <<>> THEN {k} ELSE {}
    PROVE  Holds(f, b, a, IF calls = <<>> THEN Tail(q) ELSE q, calls, t,
                 r \cup (taken \cap Listed(f)))
<1> DEFINE v == Head(q).cmd
           p == PathOf[v]
<1>0. PICK z : z = r \cup (taken \cap Listed(f))
  OBVIOUS
<1> SUFFICES Holds(f, b, a, IF calls = <<>> THEN Tail(q) ELSE q, calls, t, z)
  BY <1>0
<1>1. IsTable(f) /\ SharedKnown(f, r) /\ IsEndOf(q, a) /\ DOMAIN f = FilesAt(a, Len(a) - Len(q))
  BY DEF Holds
<1>2. Steady(f, b, t, r)
  BY DEF Holds, UnderWay, Deleting, DeleteCalls, Allocating, ApplyCreateFile
<1>3. SharedKnown(f, z) /\ Steady(f, b, t, z)
  BY <1>0, <1>1, <1>2 DEF SharedKnown, Steady, Present
<1>4. /\ OpOf[v] \in {"create", "delete", "allocate"} /\ p \in Paths
      /\ Len(a) - Len(q) \in Nat /\ a[Len(a) - Len(q) + 1] = Head(q)
  BY <1>1, TailIsEnd, HeadRequest
<1>5. ASSUME calls # <<>>, UnderWay(f, b, v, calls, t, z)
      PROVE  Holds(f, b, a, IF calls = <<>> THEN Tail(q) ELSE q, calls, t, z)
  BY <1>1, <1>3, <1>5 DEF Holds
<1>6. ASSUME calls = <<>>, FilesAt(a, Len(a) - Len(q) + 1) = FilesAt(a, Len(a) - Len(q))
      PROVE  Holds(f, b, a, IF calls = <<>> THEN Tail(q) ELSE q, calls, t, z)
  BY <1>1, <1>3, <1>6, HoldsOver
<1>7. CASE OpOf[v] = "create"
  <2>1. calls = ApplyCreateFile(p) /\ calls # <<>>
    BY <1>7 DEF CallsFor, ApplyCreateFile
  <2>2. UnderWay(f, b, v, calls, t, z)
    BY <1>3, <1>7, <2>1 DEF UnderWay
  <2> QED BY <1>5, <2>1, <2>2
<1>8. CASE OpOf[v] = "delete"
  <2>1. calls = ApplyDeleteFile(f, p)
    BY <1>8 DEF CallsFor
  <2>2. CASE p \in DOMAIN f
    <3>1. /\ DeleteCalls(f, p, calls)
          /\ \A id \in IdsIn(f, p) : \E i \in 1..(Len(calls) - 1) : calls[i].id = id
      BY <1>1, <2>1, <2>2, DeleteShape
    <3>2. Present(f, b, IdsIn(f, p), z) /\ Accounted(f, b, {}, t)
      BY <1>3 DEF Steady, Present
    <3>3. Deleting(f, b, p, calls, t, z)
      BY <2>2, <3>1, <3>2 DEF Deleting
    <3>4. calls # <<>> /\ UnderWay(f, b, v, calls, t, z)
      BY <1>8, <3>1, <3>3 DEF UnderWay, DeleteCalls
    <3> QED BY <1>5, <3>4
  <2>3. CASE p \notin DOMAIN f
    <3>1. calls = <<>>
      BY <2>1, <2>3 DEF ApplyDeleteFile
    <3>2. FilesAt(a, Len(a) - Len(q) + 1) = FilesAt(a, Len(a) - Len(q)) \ {p}
      BY <1>4, <1>8, FilesStep
    <3> QED BY <1>1, <1>6, <2>3, <3>1, <3>2
  <2> QED BY <2>2, <2>3
<1>9. CASE OpOf[v] = "allocate"
  <2>1. calls = ApplyAllocateBlock(f, p, k, room)
    BY <1>9 DEF CallsFor
  <2>2. CASE p \in DOMAIN f /\ room
    <3>0. calls = <<Call("AddBlock", p, k), Call("UpdateFile", p, k)>>
      BY <2>1, <2>2 DEF ApplyAllocateBlock
    <3>1. calls = <<Call("AddBlock", p, k), Call("UpdateFile", p, k)>> /\ calls # <<>>
      BY <3>0
    <3>2. k \in Listed(f) => k \in z
      BY <1>0, <1>9, <3>1
    <3>3. Allocating(f, b, p, calls, t, z)
      BY <1>3, <2>2, <3>1, <3>2 DEF Allocating
    <3>4. UnderWay(f, b, v, calls, t, z)
      BY <1>9, <3>3 DEF UnderWay
    <3> QED BY <1>5, <3>1, <3>4
  <2>3. CASE ~ (p \in DOMAIN f /\ room)
    <3>1. calls = <<>>
      BY <2>1, <2>3 DEF ApplyAllocateBlock
    <3>2. FilesAt(a, Len(a) - Len(q) + 1) = FilesAt(a, Len(a) - Len(q))
      BY <1>4, <1>9, FilesStep
    <3> QED BY <1>6, <3>1, <3>2
  <2> QED BY <2>2, <2>3
<1> QED BY <1>4, <1>7, <1>8, <1>9

\* What a call does, by its name.
LEMMA CallEffects ==
    ASSUME NEW f, NEW p, NEW id
    PROVE  /\ p \notin DOMAIN f => FilesBy(f, Call("CreateFile", p, id)) = WithFile(f, p, <<>>)
           /\ p \in DOMAIN f => FilesBy(f, Call("CreateFile", p, id)) = f
           /\ p \in DOMAIN f => FilesBy(f, Call("UpdateFile", p, id))
                                    = WithFile(f, p, Append(f[p], id))
           /\ FilesBy(f, Call("DeleteFile", p, id)) = WithoutFile(f, p)
           /\ FilesBy(f, Call("AddBlock", p, id)) = f
           /\ FilesBy(f, Call("DeleteBlock", p, id)) = f
<1>1. \A name : /\ Call(name, p, id).name = name
                /\ Call(name, p, id).path = p
                /\ Call(name, p, id).id = id
  BY DEF Call
<1>2. ASSUME NEW c, c.name = "CreateFile", c.path \notin DOMAIN f
      PROVE  FilesBy(f, c) = WithFile(f, c.path, <<>>)
  BY <1>2 DEF FilesBy
<1>3. ASSUME NEW c, c.name = "CreateFile", c.path \in DOMAIN f
      PROVE  FilesBy(f, c) = f
  BY <1>3 DEF FilesBy
<1>4. ASSUME NEW c, c.name = "UpdateFile", c.path \in DOMAIN f
      PROVE  FilesBy(f, c) = WithFile(f, c.path, Append(f[c.path], c.id))
  BY <1>4 DEF FilesBy
<1>5. ASSUME NEW c, c.name = "DeleteFile"
      PROVE  FilesBy(f, c) = WithoutFile(f, c.path)
  BY <1>5 DEF FilesBy
<1>6. ASSUME NEW c, c.name = "AddBlock" \/ c.name = "DeleteBlock"
      PROVE  FilesBy(f, c) = f
  BY <1>6 DEF FilesBy
<1> QED BY <1>1, <1>2, <1>3, <1>4, <1>5, <1>6

\* The ids of a list.
IdsOf(l) == {l[i] : i \in 1..Len(l)}

\* A file gets a list of blocks (CreateFile, UpdateFile).
LEMMA WithFileTable ==
    ASSUME NEW f, NEW p \in Paths, NEW l \in Seq(Nat), IsTable(f)
    PROVE  /\ IsTable(WithFile(f, p, l)) /\ DOMAIN WithFile(f, p, l) = DOMAIN f \cup {p}
           /\ IdsIn(WithFile(f, p, l), p) = IdsOf(l)
           /\ \A s \in DOMAIN f : s # p => IdsIn(WithFile(f, p, l), s) = IdsIn(f, s)
<1>0. PICK g : g = WithFile(f, p, l)
  OBVIOUS
<1>1. /\ DOMAIN g = DOMAIN f \cup {p} /\ g = [s \in DOMAIN g |-> g[s]]
      /\ g[p] = l /\ \A s \in DOMAIN f : s # p => g[s] = f[s]
  BY <1>0 DEF WithFile
<1>2. IsTable(g)
  BY <1>1 DEF IsTable
<1>3. IdsIn(g, p) = IdsOf(l) /\ \A s \in DOMAIN f : s # p => IdsIn(g, s) = IdsIn(f, s)
  BY <1>1 DEF IdsIn, IdsOf
<1> QED BY <1>0, <1>1, <1>2, <1>3

\* A file goes (DeleteFile).
LEMMA WithoutFileTable ==
    ASSUME NEW f, NEW p, IsTable(f)
    PROVE  /\ IsTable(WithoutFile(f, p)) /\ DOMAIN WithoutFile(f, p) = DOMAIN f \ {p}
           /\ \A s \in DOMAIN WithoutFile(f, p) : IdsIn(WithoutFile(f, p), s) = IdsIn(f, s)
<1>0. PICK g : g = WithoutFile(f, p)
  OBVIOUS
<1>1. /\ DOMAIN g = DOMAIN f \ {p} /\ g = [s \in DOMAIN g |-> g[s]]
      /\ \A s \in DOMAIN g : g[s] = f[s]
  BY <1>0 DEF WithoutFile
<1>2. IsTable(g)
  BY <1>1 DEF IsTable
<1>3. \A s \in DOMAIN g : IdsIn(g, s) = IdsIn(f, s)
  BY <1>1 DEF IdsIn
<1> QED BY <1>0, <1>1, <1>2, <1>3

\* The ids of a list with one more.
LEMMA AppendIds ==
    ASSUME NEW l \in Seq(Nat), NEW id \in Nat
    PROVE  /\ Append(l, id) \in Seq(Nat)
           /\ IdsOf(Append(l, id)) = IdsOf(l) \cup {id}
<1>1. PICK m : m = Append(l, id)
  OBVIOUS
<1>2. /\ m \in Seq(Nat) /\ Len(l) \in Nat /\ Len(m) = Len(l) + 1
      /\ \A i \in 1..Len(l) : m[i] = l[i]
      /\ m[Len(l) + 1] = id
  BY <1>1, AppendProperties, LenProperties
<1>3. \A i \in 1..Len(m) : i \in 1..Len(l) \/ i = Len(l) + 1
  BY <1>2
<1>4. {m[i] : i \in 1..Len(m)} = {l[i] : i \in 1..Len(l)} \cup {id}
  <2>1. \A y \in {m[i] : i \in 1..Len(m)} : y \in {l[i] : i \in 1..Len(l)} \cup {id}
    BY <1>2, <1>3
  <2>2. \A y \in {l[i] : i \in 1..Len(l)} : y \in {m[i] : i \in 1..Len(m)}
    BY <1>2
  <2>3. id \in {m[i] : i \in 1..Len(m)}
    BY <1>2
  <2> QED BY <2>1, <2>2, <2>3
<1> QED BY <1>1, <1>2, <1>4 DEF IdsOf

\* The call of ApplyCreateFile.
LEMMA HoldsCreate ==
    ASSUME NEW f, NEW b, NEW p \in Paths, NEW t, NEW r,
           IsTable(f), SharedKnown(f, r), Steady(f, b, t, r)
    PROVE  /\ IsTable(FilesBy(f, Call("CreateFile", p, 0)))
           /\ SharedKnown(FilesBy(f, Call("CreateFile", p, 0)), r)
           /\ Steady(FilesBy(f, Call("CreateFile", p, 0)), b, t, r)
           /\ DOMAIN FilesBy(f, Call("CreateFile", p, 0)) = DOMAIN f \cup {p}
<1>0. PICK g : g = FilesBy(f, Call("CreateFile", p, 0))
  OBVIOUS
<1> SUFFICES /\ IsTable(g) /\ SharedKnown(g, r) /\ Steady(g, b, t, r)
             /\ DOMAIN g = DOMAIN f \cup {p}
  BY <1>0
<1>1. CASE p \in DOMAIN f
  <2>1. g = f
    BY <1>0, <1>1, CallEffects
  <2> QED BY <1>1, <2>1
<1>2. CASE p \notin DOMAIN f
  <2>0. g = WithFile(f, p, <<>>)
    BY <1>0, <1>2, CallEffects
  <2>1. PICK l : l = <<>>
    OBVIOUS
  <2>2. l \in Seq(Nat) /\ IdsOf(l) = {} /\ g = WithFile(f, p, l)
    BY <2>0, <2>1 DEF IdsOf
  <2>3. /\ IsTable(g) /\ DOMAIN g = DOMAIN f \cup {p}
        /\ IdsIn(g, p) = {} /\ \A s \in DOMAIN f : IdsIn(g, s) = IdsIn(f, s)
    <3>1. ASSUME NEW h, h = WithFile(f, p, l)
          PROVE  /\ IsTable(h) /\ DOMAIN h = DOMAIN f \cup {p}
                 /\ IdsIn(h, p) = IdsOf(l)
                 /\ \A s \in DOMAIN f : s # p => IdsIn(h, s) = IdsIn(f, s)
      <4>1. l \in Seq(Nat)
        BY <2>2
      <4> QED BY <3>1, <4>1, WithFileTable
    <3> QED BY <1>2, <2>2, <3>1
  <2>4. Listed(g) = Listed(f) /\ SharedKnown(g, r)
    BY <2>3 DEF Listed, SharedKnown
  <2> QED BY <2>3, <2>4 DEF Steady, Present, Accounted
<1> QED BY <1>1, <1>2

\* The second call of ApplyAllocateBlock.
LEMMA HoldsList ==
    ASSUME NEW f, NEW b, NEW p \in DOMAIN f, NEW id \in Nat, NEW t, NEW r, NEW g,
           IsTable(f), SharedKnown(f, r), id \in Listed(f) => id \in r,
           id \in b, Present(f, b, {}, r), Accounted(f, b, {id}, t),
           g = FilesBy(f, Call("UpdateFile", p, id))
    PROVE  /\ IsTable(g) /\ SharedKnown(g, r) /\ Steady(g, b, t, r)
           /\ DOMAIN g = DOMAIN f
<1>0. g = WithFile(f, p, Append(f[p], id))
  BY CallEffects
<1>1. PICK l : l = Append(f[p], id)
  OBVIOUS
<1>2. p \in Paths /\ f[p] \in Seq(Nat)
  BY DEF IsTable
<1>3. l \in Seq(Nat) /\ IdsOf(l) = IdsIn(f, p) \cup {id} /\ g = WithFile(f, p, l)
  <2>1. IdsIn(f, p) = IdsOf(f[p])
    BY DEF IdsIn, IdsOf
  <2>2. l \in Seq(Nat) /\ IdsOf(l) = IdsOf(f[p]) \cup {id}
    BY <1>1, <1>2, AppendIds
  <2>3. g = WithFile(f, p, l)
    BY <1>0, <1>1
  <2> QED BY <2>1, <2>2, <2>3
<1>4. /\ IsTable(g) /\ DOMAIN g = DOMAIN f
      /\ IdsIn(g, p) = IdsIn(f, p) \cup {id}
      /\ \A s \in DOMAIN f : s # p => IdsIn(g, s) = IdsIn(f, s)
  <2>1. ASSUME NEW h, h = WithFile(f, p, l)
        PROVE  /\ IsTable(h) /\ DOMAIN h = DOMAIN f \cup {p}
               /\ IdsIn(h, p) = IdsOf(l)
               /\ \A s \in DOMAIN f : s # p => IdsIn(h, s) = IdsIn(f, s)
    <3>1. l \in Seq(Nat) /\ p \in Paths
      BY <1>2, <1>3
    <3> QED BY <2>1, <3>1, WithFileTable
  <2> QED BY <1>3, <2>1
<1>5. Listed(g) = Listed(f) \cup {id}
  BY <1>4 DEF Listed
<1>6. SharedKnown(g, r)
  <2>1. ASSUME NEW s \in DOMAIN f, s # p
        PROVE  IdsIn(g, p) \cap IdsIn(g, s) \subseteq r
    <3>1. IdsIn(f, s) \subseteq Listed(f) /\ IdsIn(g, s) = IdsIn(f, s)
      BY <1>4, <2>1 DEF Listed
    <3>2. IdsIn(f, p) \cap IdsIn(f, s) \subseteq r
      BY <2>1 DEF SharedKnown
    <3> QED BY <1>4, <3>1, <3>2
  <2>2. ASSUME NEW s \in DOMAIN f, NEW u \in DOMAIN f, s # p, u # p, s # u
        PROVE  IdsIn(g, s) \cap IdsIn(g, u) \subseteq r
    BY <1>4, <2>2 DEF SharedKnown
  <2> QED BY <1>4, <2>1, <2>2 DEF SharedKnown
<1>7. Steady(g, b, t, r)
  BY <1>5 DEF Steady, Present, Accounted
<1> QED BY <1>4, <1>6, <1>7

\* The next DeleteBlock of ApplyDeleteFile.
LEMMA HoldsDeleteBlock ==
    ASSUME NEW f, NEW b, NEW p, NEW c, NEW t, NEW r, NEW d,
           SharedKnown(f, r), Deleting(f, b, p, c, t, r), d = Tail(c), d # <<>>
    PROVE  /\ Head(c).name = "DeleteBlock"
           /\ Deleting(f, b \ {Head(c).id}, p, d, t, r)
<1>0. c \in Seq(DeleteCall(p)) /\ c # <<>>
  BY DEF Deleting, DeleteCalls
<1>1. /\ Len(c) \in Nat /\ c # <<>> /\ Len(d) = Len(c) - 1 /\ d \in Seq(DeleteCall(p))
      /\ \A i \in 1..Len(d) : d[i] = c[i + 1]
  BY <1>0, HeadTailProperties, LenProperties
<1>2. Len(d) \in Nat \ {0}
  BY <1>1, EmptySeq
<1>3. Head(c) = c[1] /\ 1 \in 1..(Len(c) - 1)
  BY <1>1, <1>2
<1>4. PICK id \in IdsIn(f, p) : Head(c) = Call("DeleteBlock", p, id)
  BY <1>3 DEF Deleting, DeleteCalls
<1>5. Head(c).name = "DeleteBlock" /\ Head(c).id = id
  BY <1>4 DEF Call
<1>6. DeleteCalls(f, p, d)
  <2>0. d \in Seq(DeleteCall(p)) /\ d # <<>>
    BY <1>1
  <2>1. d[Len(d)] = Call("DeleteFile", p, 0)
    <3>1. d[Len(d)] = c[Len(c)]
      BY <1>1, <1>2
    <3> QED BY <3>1 DEF Deleting, DeleteCalls
  <2>2. ASSUME NEW i \in 1..(Len(d) - 1)
        PROVE  \E x \in IdsIn(f, p) : d[i] = Call("DeleteBlock", p, x)
    <3>1. d[i] = c[i + 1] /\ i + 1 \in 1..(Len(c) - 1)
      BY <1>1, <1>2
    <3> QED BY <3>1 DEF Deleting, DeleteCalls
  <2> QED BY <2>0, <2>1, <2>2 DEF DeleteCalls
<1>7. Present(f, b \ {id}, IdsIn(f, p), r) /\ Accounted(f, b \ {id}, {}, t)
  BY DEF Deleting, Present, Accounted
<1>8. ASSUME NEW x \in IdsIn(f, p) \cap (b \ {id}), x \notin t
      PROVE  \E i \in 1..(Len(d) - 1) : d[i].id = x
  <2>1. PICK i \in 1..(Len(c) - 1) : c[i].id = x
    BY <1>8 DEF Deleting
  <2>2. i # 1
    BY <1>3, <1>5, <1>8, <2>1
  <2>3. i - 1 \in 1..(Len(d) - 1) /\ d[i - 1] = c[i]
    BY <1>1, <1>2, <2>2
  <2> QED BY <2>1, <2>3
<1>9. p \in DOMAIN f
  BY DEF Deleting
<1> QED BY <1>5, <1>6, <1>7, <1>8, <1>9 DEF Deleting

\* The last call of ApplyDeleteFile.
LEMMA HoldsDeleteFile ==
    ASSUME NEW f, NEW b, NEW p, NEW c, NEW t, NEW r, IsTable(f),
           SharedKnown(f, r), Deleting(f, b, p, c, t, r),
           Tail(c) = <<>>
    PROVE  /\ Head(c).name = "DeleteFile"
           /\ IsTable(FilesBy(f, Head(c))) /\ SharedKnown(FilesBy(f, Head(c)), r)
           /\ Steady(FilesBy(f, Head(c)), b, t, r) /\ DOMAIN FilesBy(f, Head(c)) = DOMAIN f \ {p}
<1>0. PICK g : g = FilesBy(f, Head(c))
  OBVIOUS
<1>1. Len(c) = 1 /\ Head(c) = c[1]
  <2>1. c \in Seq(DeleteCall(p)) /\ c # <<>>
    BY DEF Deleting, DeleteCalls
  <2>2. Len(c) \in Nat /\ Len(<<>>) = Len(c) - 1
    <3>1. \A m \in Seq(DeleteCall(p)) : m # <<>>
              => Len(m) \in Nat /\ Len(Tail(m)) = Len(m) - 1
      BY HeadTailProperties, LenProperties
    <3> QED BY <2>1, <3>1, Zenon
  <2>3. Len(<<>>) = 0
    BY EmptySeq
  <2>4. Len(c) = 1
    BY <2>2, <2>3
  <2>5. Head(c) = c[1]
    <3>1. \A m \in Seq(DeleteCall(p)) : m # <<>> => Head(m) = m[1]
      OBVIOUS
    <3> QED BY <2>1, <3>1, Zenon
  <2> QED BY <2>4, <2>5
<1>2. Head(c) = Call("DeleteFile", p, 0)
  BY <1>1 DEF Deleting, DeleteCalls
<1>3. g = WithoutFile(f, p)
  BY <1>0, <1>2, CallEffects
<1>4. IsTable(g) /\ DOMAIN g = DOMAIN f \ {p} /\ \A s \in DOMAIN g : IdsIn(g, s) = IdsIn(f, s)
  <2>1. ASSUME NEW h, h = WithoutFile(f, p)
        PROVE  /\ IsTable(h) /\ DOMAIN h = DOMAIN f \ {p}
               /\ \A s \in DOMAIN h : IdsIn(h, s) = IdsIn(f, s)
    BY <2>1, WithoutFileTable
  <2>2. PICK h : h = g
    OBVIOUS
  <2>3. h = WithoutFile(f, p)
    BY <1>3, <2>2
  <2>4. IsTable(h) /\ DOMAIN h = DOMAIN f \ {p} /\ \A s \in DOMAIN h : IdsIn(h, s) = IdsIn(f, s)
    BY <2>1, <2>3
  <2> QED BY <2>2, <2>4
<1>5. SharedKnown(g, r)
  BY <1>4 DEF SharedKnown
<1>6. Accounted(g, b, {}, t)
  <2>1. ASSUME NEW x \in b, x \notin t
        PROVE  x \in Listed(g)
    <3>1. x \in Listed(f)
      BY <2>1 DEF Deleting, Accounted
    <3>2. x \notin IdsIn(f, p)
      <4>1. \A i \in 1..(Len(c) - 1) : FALSE
        BY <1>1
      <4> QED BY <2>1, <4>1 DEF Deleting
    <3>3. PICK s \in DOMAIN f : x \in IdsIn(f, s)
      BY <3>1 DEF Listed
    <3> QED BY <1>4, <3>2, <3>3 DEF Listed
  <2> QED BY <2>1 DEF Accounted
<1>7. Present(g, b, {}, r)
  <2>1. ASSUME NEW s \in DOMAIN g, NEW x \in IdsIn(g, s)
        PROVE  x \in b \cup r
    <3>1. s \in DOMAIN f /\ s # p /\ x \in IdsIn(f, s)
      BY <1>4, <2>1
    <3>2. x \in b \cup IdsIn(f, p) \cup r
      BY <3>1 DEF Deleting, Present, Listed
    <3>3. x \in IdsIn(f, p) => x \in r
      BY <3>1 DEF Deleting, SharedKnown
    <3> QED BY <3>2, <3>3
  <2> QED BY <2>1 DEF Present, Listed
<1>8. Head(c).name = "DeleteFile"
  BY <1>2 DEF Call
<1>9. Steady(g, b, t, r)
  BY <1>6, <1>7 DEF Steady
<1> QED BY <1>0, <1>4, <1>5, <1>8, <1>9

\* The next call of a callback (StoreCall).
LEMMA HoldsCall ==
    ASSUME NEW f, NEW b, NEW a, NEW q, NEW c, NEW t, NEW r, NEW g, NEW e, NEW d,
           Holds(f, b, a, q, c, t, r), c # <<>>,
           g = FilesBy(f, Head(c)), e = BlocksBy(b, Head(c)), d = Tail(c)
    PROVE  Holds(g, e, a, IF d = <<>> THEN Tail(q) ELSE q, d, t, r)
<1> DEFINE v == Head(q).cmd
           p == PathOf[v]
           k == Len(a) - Len(q)
<1>1. /\ IsTable(f) /\ SharedKnown(f, r) /\ IsEndOf(q, a) /\ DOMAIN f = FilesAt(a, k)
      /\ q # <<>> /\ UnderWay(f, b, v, c, t, r)
  BY DEF Holds
<1>2. /\ OpOf[v] \in {"create", "delete", "allocate"} /\ p \in Paths
      /\ k \in Nat /\ a[k + 1] = Head(q)
  BY <1>1, TailIsEnd, HeadRequest
<1>3. ASSUME d = <<>>, IsTable(g), SharedKnown(g, r), Steady(g, e, t, r),
             DOMAIN g = FilesAt(a, k + 1)
      PROVE  Holds(g, e, a, IF d = <<>> THEN Tail(q) ELSE q, d, t, r)
  <2>1. Holds(g, e, a, Tail(q), <<>>, t, r)
    BY <1>1, <1>3, HoldsOver
  <2> QED BY <1>3, <2>1
<1>4. ASSUME d # <<>>, g = f, UnderWay(f, e, v, d, t, r)
      PROVE  Holds(g, e, a, IF d = <<>> THEN Tail(q) ELSE q, d, t, r)
  <2>1. Holds(f, e, a, q, d, t, r)
    BY <1>1, <1>4 DEF Holds
  <2> QED BY <1>4, <2>1
<1>5. CASE OpOf[v] = "create"
  <2>1. c = <<Call("CreateFile", p, 0)>> /\ Steady(f, b, t, r)
    BY <1>1, <1>5 DEF UnderWay, ApplyCreateFile
  <2>2. Head(c) = Call("CreateFile", p, 0) /\ d = <<>>
    BY <2>1
  <2>3. e = b
    BY <2>2 DEF BlocksBy, Call
  <2>4. g = FilesBy(f, Call("CreateFile", p, 0))
    BY <2>2
  <2>5. /\ IsTable(g) /\ SharedKnown(g, r) /\ Steady(g, b, t, r)
        /\ DOMAIN g = DOMAIN f \cup {p}
    <3>1. IsTable(f) /\ SharedKnown(f, r) /\ Steady(f, b, t, r) /\ p \in Paths
      BY <1>1, <1>2, <2>1
    <3>2. /\ IsTable(FilesBy(f, Call("CreateFile", p, 0)))
          /\ SharedKnown(FilesBy(f, Call("CreateFile", p, 0)), r)
          /\ Steady(FilesBy(f, Call("CreateFile", p, 0)), b, t, r)
          /\ DOMAIN FilesBy(f, Call("CreateFile", p, 0)) = DOMAIN f \cup {p}
      BY <3>1, HoldsCreate
    <3> QED BY <2>4, <3>2
  <2>6. FilesAt(a, k + 1) = FilesAt(a, k) \cup {p}
    BY <1>2, <1>5, FilesStep
  <2> QED BY <1>1, <1>3, <2>2, <2>3, <2>5, <2>6
<1>6. CASE OpOf[v] = "delete"
  <2>1. Deleting(f, b, p, c, t, r)
    BY <1>1, <1>6 DEF UnderWay
  <2>2. CASE d # <<>>
    <3>1. Head(c).name = "DeleteBlock" /\ Deleting(f, b \ {Head(c).id}, p, d, t, r)
      BY <1>1, <2>1, <2>2, HoldsDeleteBlock
    <3>2. g = f /\ e = b \ {Head(c).id}
      BY <3>1 DEF FilesBy, BlocksBy
    <3>3. UnderWay(f, e, v, d, t, r)
      BY <1>6, <3>1, <3>2 DEF UnderWay
    <3> QED BY <1>4, <2>2, <3>2, <3>3
  <2>3. CASE d = <<>>
    <3>1. /\ Head(c).name = "DeleteFile"
          /\ IsTable(g) /\ SharedKnown(g, r) /\ Steady(g, b, t, r)
          /\ DOMAIN g = DOMAIN f \ {p}
      <4>1. IsTable(f) /\ SharedKnown(f, r) /\ Tail(c) = <<>>
        BY <1>1, <2>3
      <4>2. /\ Head(c).name = "DeleteFile"
            /\ IsTable(FilesBy(f, Head(c))) /\ SharedKnown(FilesBy(f, Head(c)), r)
            /\ Steady(FilesBy(f, Head(c)), b, t, r) /\ DOMAIN FilesBy(f, Head(c)) = DOMAIN f \ {p}
        <5> HIDE DEF p
        <5>1. Head(c).name = "DeleteFile" /\ IsTable(FilesBy(f, Head(c)))
          BY <2>1, <4>1, HoldsDeleteFile
        <5>2. SharedKnown(FilesBy(f, Head(c)), r) /\ Steady(FilesBy(f, Head(c)), b, t, r)
          BY <2>1, <4>1, HoldsDeleteFile
        <5>3. DOMAIN FilesBy(f, Head(c)) = DOMAIN f \ {p}
          BY <2>1, <4>1, HoldsDeleteFile
        <5> QED BY <5>1, <5>2, <5>3
      <4> QED BY <4>2
    <3>2. e = b
      BY <3>1 DEF BlocksBy
    <3>3. FilesAt(a, k + 1) = FilesAt(a, k) \ {p}
      BY <1>2, <1>6, FilesStep
    <3> QED BY <1>1, <1>3, <2>3, <3>1, <3>2, <3>3
  <2> QED BY <2>2, <2>3
<1>7. CASE OpOf[v] = "allocate"
  <2>1. p \in DOMAIN f
    BY <1>1, <1>7 DEF UnderWay, Allocating
  <2>2. PICK id \in Nat :
          /\ id \in Listed(f) => id \in r
          /\ \/ /\ c = <<Call("AddBlock", p, id), Call("UpdateFile", p, id)>>
                /\ Steady(f, b, t, r)
             \/ /\ c = <<Call("UpdateFile", p, id)>>
                /\ id \in b /\ Present(f, b, {}, r) /\ Accounted(f, b, {id}, t)
    BY <1>1, <1>7 DEF UnderWay, Allocating
  <2>3. CASE c = <<Call("AddBlock", p, id), Call("UpdateFile", p, id)>> /\ Steady(f, b, t, r)
    <3>1. Head(c) = Call("AddBlock", p, id) /\ d = <<Call("UpdateFile", p, id)>>
      BY <2>3
    <3>2. d # <<>>
      BY <3>1
    <3>3. g = f /\ e = b \cup {id}
      BY <3>1 DEF FilesBy, BlocksBy, Call
    <3>4. Present(f, e, {}, r) /\ Accounted(f, e, {id}, t)
      BY <2>3, <3>3 DEF Steady, Present, Accounted
    <3>5. Allocating(f, e, p, d, t, r)
      BY <2>1, <2>2, <3>1, <3>3, <3>4 DEF Allocating
    <3>6. UnderWay(f, e, v, d, t, r)
      BY <1>7, <3>5 DEF UnderWay
    <3> QED BY <1>4, <3>2, <3>3, <3>6
  <2>4. CASE /\ c = <<Call("UpdateFile", p, id)>>
             /\ id \in b /\ Present(f, b, {}, r) /\ Accounted(f, b, {id}, t)
    <3>1. Head(c) = Call("UpdateFile", p, id) /\ d = <<>>
      BY <2>4
    <3>2. e = b
      BY <3>1 DEF BlocksBy, Call
    <3>3. g = FilesBy(f, Call("UpdateFile", p, id))
      BY <3>1
    <3>4. IsTable(g) /\ SharedKnown(g, r) /\ Steady(g, b, t, r) /\ DOMAIN g = DOMAIN f
      BY <1>1, <2>1, <2>2, <2>4, <3>3, HoldsList
    <3>5. FilesAt(a, k + 1) = FilesAt(a, k)
      BY <1>2, <1>7, FilesStep
    <3> QED BY <1>1, <1>3, <3>1, <3>2, <3>4, <3>5
  <2> QED BY <2>2, <2>3, <2>4
<1> QED BY <1>2, <1>5, <1>6, <1>7

-----------------------------------------------------------------------------
(* The steps of HANext.                                                    *)

\* A server whose metadata, entries and snapshot stay keeps its invariant.
LEMMA ServerKept ==
    ASSUME NEW n \in Nodes, ServerInv(n),
           /\ files'[n] = files[n] /\ blocks'[n] = blocks[n] /\ applied'[n] = applied[n]
           /\ todo'[n] = todo[n] /\ script'[n] = script[n] /\ touched'[n] = touched[n]
           /\ reused'[n] = reused[n] /\ nextId'[n] = nextId[n],
           saved'[n] = saved[n] /\ snapFile'[n] = snapFile[n],
           taking'[n].pc = "captured" => /\ taking[n].pc = "captured"
                                         /\ taking'[n].snap = taking[n].snap
                                         /\ captured'[n] = captured[n]
    PROVE  ServerInv(n)'
  BY DEF ServerInv

\* ApplyCommitted only adds to what the state machine was given.
LEMMA GivesMore ==
    ASSUME TypeOK, TypeOK', NEW n \in Nodes, UNCHANGED commitVars \/ Gives(n)
    PROVE  /\ \A p \in Nodes : p # n => applied'[p] = applied[p]
           /\ \E x \in Seq(Entry) : applied'[n] = applied[n] \o x
<1>1. applied[n] \in Seq(Entry) /\ lastApplied[n] \in Nat /\ log'[n] \in Seq(Entry)
  BY DEF TypeOK
<1>2. CASE UNCHANGED commitVars
  <2>1. applied' = applied
    BY <1>2 DEF commitVars
  <2>2. <<>> \in Seq(Entry) /\ applied[n] \o <<>> = applied[n]
    BY <1>1, EmptySeq, ConcatEmptySeq
  <2> QED BY <2>1, <2>2
<1>3. CASE Gives(n)
  <2>1. PICK i \in Nat : CommitTo(n, i, log'[n])
    BY <1>3 DEF Gives
  <2>2. /\ \A p \in Nodes : p # n => applied'[p] = applied[p]
        /\ \/ UNCHANGED commitVars
           \/ applied'[n] = applied[n] \o Above(UpTo(log'[n], i), lastApplied[n])
    BY <2>1, CommitEffect
  <2>3. Above(UpTo(log'[n], i), lastApplied[n]) \in Seq(Entry)
    BY <1>1, LogCuts
  <2> QED BY <1>2, <2>2, <2>3
<1> QED BY <1>2, <1>3

\* What a step of Raft other than SnapshotCapture, SnapshotPublish and Restart
\* leaves of the state the metadata are tied to.
LEMMA RaftGives ==
    ASSUME TypeOK, TypeOK', NEW n \in Nodes,
           HandlerStep(n) \/ SnapshotDecide(n) \/ SnapshotTrim(n)
    PROVE  /\ snapFile' = snapFile
           /\ \A p \in Nodes : taking'[p].pc = "captured" => taking'[p] = taking[p]
           /\ \A p \in Nodes : p # n => applied'[p] = applied[p]
           /\ \E x \in Seq(Entry) : applied'[n] = applied[n] \o x
<1>1. CASE HandlerStep(n)
  <2>1. UNCHANGED snapVars /\ (UNCHANGED commitVars \/ Gives(n))
    BY <1>1, HandlerGives
  <2> QED BY <2>1, GivesMore DEF snapVars
<1>2. CASE SnapshotDecide(n) \/ SnapshotTrim(n)
  <2>1. UNCHANGED commitVars /\ snapFile' = snapFile
    BY <1>2 DEF SnapshotDecide, SnapshotTrim
  <2>2. taking \in [Nodes -> [pc : {"idle", "decided", "captured", "published"},
                             snap : Snapshot]]
    BY DEF TypeOK
  <2>3. taking'[n].pc # "captured" /\ \A p \in Nodes : p # n => taking'[p] = taking[p]
    <3>1. CASE SnapshotDecide(n)
      <4>1. taking' = [taking EXCEPT ![n].pc = "decided"]
        BY <3>1 DEF SnapshotDecide
      <4> QED BY <2>2, <4>1
    <3>2. CASE SnapshotTrim(n)
      <4>1. taking' = [taking EXCEPT ![n] = IdleTaking]
        BY <3>2 DEF SnapshotTrim
      <4> QED BY <2>2, <4>1 DEF IdleTaking
    <3> QED BY <1>2, <3>1, <3>2
  <2> QED BY <2>1, <2>3, GivesMore
<1> QED BY <1>1, <1>2

\* RaftLocked(n): new entries wait for their callbacks.
LEMMA LockedStepInv ==
    ASSUME TypeOK, TypeOK', HAInv, NEW n \in Nodes, RaftLocked(n)
    PROVE  HAInv'
<1>1. HandlerStep(n) \/ SnapshotDecide(n) \/ SnapshotTrim(n)
  BY DEF RaftLocked, LockedStep, ProposeWrite, HandlerStep
<1>2. /\ snapFile' = snapFile
      /\ \A p \in Nodes : taking'[p].pc = "captured" => taking'[p] = taking[p]
      /\ \A p \in Nodes : p # n => applied'[p] = applied[p]
      /\ \E x \in Seq(Entry) : applied'[n] = applied[n] \o x
  BY <1>1, RaftGives
<1>3. PICK x \in Seq(Entry) : applied'[n] = applied[n] \o x
  BY <1>2
<1>4. /\ UNCHANGED <<files, blocks, nextId, script, captured, saved, touched, reused>>
      /\ todo[n] = <<>> /\ DOMAIN todo' = DOMAIN todo
      /\ \A p \in Nodes : p # n => todo'[p] = todo[p]
      /\ todo'[n] = todo[n] \o SubSeq(applied'[n], Len(applied[n]) + 1, Len(applied'[n]))
  BY DEF RaftLocked, CallbacksOver, storeVars, savingVars, detectVars, HAInv, HAShape
<1>5. HAShape'
  BY <1>4 DEF HAInv, HAShape
<1>6. ASSUME NEW p \in Nodes, p # n PROVE ServerInv(p)'
  BY <1>2, <1>4, <1>6, ServerKept DEF HAInv
<1>7. ServerInv(n)'
  <2>1. ServerInv(n)
    BY DEF HAInv
  <2>2. Holds(files[n], blocks[n], applied[n], <<>>, script[n], touched[n], reused[n])
    BY <1>4, <2>1 DEF ServerInv
  <2>3. Holds(files[n], blocks[n], applied[n] \o x,
              <<>> \o SubSeq(applied[n] \o x, Len(applied[n]) + 1, Len(applied[n] \o x)),
              script[n], touched[n], reused[n])
    BY <2>2, HoldsMore
  <2>4. Holds(files[n], blocks[n], applied'[n], todo'[n], script[n], touched[n], reused[n])
    BY <1>3, <1>4, <2>3
  <2> QED BY <1>2, <1>4, <2>1, <2>4 DEF ServerInv
<1> QED BY <1>5, <1>6, <1>7 DEF HAInv

\* RaftUnlocked(n): neither the entries nor the metadata change.
LEMMA UnlockedStepInv ==
    ASSUME TypeOK, TypeOK', HAInv, NEW n \in Nodes, RaftUnlocked(n)
    PROVE  HAInv'
<1>1. UNCHANGED <<commitVars, snapVars>>
  BY DEF RaftUnlocked, RequestVoteTimeout, ResumeElection, ProposeTimeout
<1>2. UNCHANGED <<files, blocks, nextId, todo, script, captured, saved, touched, reused,
                  applied, snapFile, taking>>
  BY <1>1 DEF RaftUnlocked, storeVars, callVars, savingVars, detectVars, commitVars, snapVars
<1> QED BY <1>2, ServerKept DEF HAInv, HAShape

\* OnApplyCommitted(n): a callback begins.
LEMMA BeginStepInv ==
    ASSUME HAInv, NEW n \in Nodes, OnApplyCommitted(n)
    PROVE  HAInv'
<1>1. /\ UNCHANGED <<files, blocks, captured, saved, touched, applied, snapFile, taking>>
      /\ todo[n] # <<>> /\ script[n] = <<>>
  BY DEF OnApplyCommitted, vars, commitVars, snapVars, storeVars, savingVars, detectVars
<1>2. PICK room \in BOOLEAN :
        LET v     == Head(todo[n]).cmd
            calls == CallsFor(files[n], nextId[n], v, room)
            taken == IF OpOf[v] = "allocate" /\ calls # <<>> THEN {nextId[n]} ELSE {}
        IN  /\ Remaining(n, calls)
            /\ nextId' = [nextId EXCEPT ![n] = IF taken = {} THEN @ ELSE @ + 1]
            /\ reused' = [reused EXCEPT ![n] = @ \cup (taken \cap Listed(files[n]))]
  BY DEF OnApplyCommitted
<1>3. PICK calls : calls = CallsFor(files[n], nextId[n], Head(todo[n]).cmd, room)
  OBVIOUS
<1>4. PICK taken : taken = IF OpOf[Head(todo[n]).cmd] = "allocate" /\ calls # <<>>
                           THEN {nextId[n]} ELSE {}
  OBVIOUS
<1>5. /\ Remaining(n, calls)
      /\ nextId' = [nextId EXCEPT ![n] = IF taken = {} THEN @ ELSE @ + 1]
      /\ reused' = [reused EXCEPT ![n] = @ \cup (taken \cap Listed(files[n]))]
  BY <1>2, <1>3, <1>4
<1>6. /\ DOMAIN nextId = Nodes /\ DOMAIN reused = Nodes /\ DOMAIN todo = Nodes
      /\ DOMAIN script = Nodes /\ ServerInv(n)
  BY DEF HAInv, HAShape
<1>7. /\ script'[n] = calls /\ todo'[n] = IF calls = <<>> THEN Tail(todo[n]) ELSE todo[n]
      /\ \A p \in Nodes : p # n => script'[p] = script[p] /\ todo'[p] = todo[p]
      /\ DOMAIN script' = Nodes /\ DOMAIN todo' = Nodes
  BY <1>5, <1>6 DEF Remaining
<1>8. /\ reused'[n] = reused[n] \cup (taken \cap Listed(files[n]))
      /\ \A p \in Nodes : p # n => reused'[p] = reused[p] /\ nextId'[p] = nextId[p]
      /\ DOMAIN reused' = Nodes /\ DOMAIN nextId' = Nodes
  BY <1>5, <1>6
<1>9. nextId[n] \in Nat /\ nextId'[n] \in Nat
  <2>1. nextId[n] \in Nat /\ nextId'[n] \in {nextId[n], nextId[n] + 1}
    BY <1>5, <1>6 DEF ServerInv
  <2> QED BY <2>1
<1>10. HAShape'
  BY <1>1, <1>7, <1>8 DEF HAInv, HAShape
<1>11. ASSUME NEW p \in Nodes, p # n PROVE ServerInv(p)'
  BY <1>1, <1>7, <1>8, <1>11, ServerKept DEF HAInv
<1>12. ServerInv(n)'
  <2>1. Holds(files[n], blocks[n], applied[n], todo[n], <<>>, touched[n], reused[n])
    BY <1>1, <1>6 DEF ServerInv
  <2>2. Holds(files[n], blocks[n], applied[n],
              IF calls = <<>> THEN Tail(todo[n]) ELSE todo[n], calls, touched[n],
              reused[n] \cup (taken \cap Listed(files[n])))
    BY <1>1, <1>3, <1>4, <1>9, <2>1, HoldsBegin
  <2>3. Holds(files[n], blocks[n], applied[n], todo'[n], script'[n], touched[n], reused'[n])
    BY <1>7, <1>8, <2>2
  <2> QED BY <1>1, <1>6, <1>9, <2>3 DEF ServerInv
<1> QED BY <1>10, <1>11, <1>12 DEF HAInv

\* StoreCall(n): its next call.
LEMMA CallStepInv ==
    ASSUME HAInv, NEW n \in Nodes, StoreCall(n)
    PROVE  HAInv'
<1>1. /\ UNCHANGED <<nextId, captured, saved, touched, reused, applied, snapFile, taking>>
      /\ script[n] # <<>>
  BY DEF StoreCall, vars, commitVars, snapVars, savingVars, detectVars
<1>2. /\ DOMAIN files = Nodes /\ DOMAIN blocks = Nodes /\ DOMAIN todo = Nodes
      /\ DOMAIN script = Nodes /\ ServerInv(n)
  BY DEF HAInv, HAShape
<1>3. /\ files'[n] = FilesBy(files[n], Head(script[n]))
      /\ blocks'[n] = BlocksBy(blocks[n], Head(script[n]))
      /\ \A p \in Nodes : p # n => files'[p] = files[p] /\ blocks'[p] = blocks[p]
      /\ DOMAIN files' = Nodes /\ DOMAIN blocks' = Nodes
  BY <1>2 DEF StoreCall
<1>4. PICK d : d = Tail(script[n])
  OBVIOUS
<1>5. Remaining(n, d)
  BY <1>4 DEF StoreCall
<1>6. /\ script'[n] = d /\ todo'[n] = IF d = <<>> THEN Tail(todo[n]) ELSE todo[n]
      /\ \A p \in Nodes : p # n => script'[p] = script[p] /\ todo'[p] = todo[p]
      /\ DOMAIN script' = Nodes /\ DOMAIN todo' = Nodes
  BY <1>2, <1>5 DEF Remaining
<1>7. HAShape'
  BY <1>1, <1>3, <1>6 DEF HAInv, HAShape
<1>8. ASSUME NEW p \in Nodes, p # n PROVE ServerInv(p)'
  BY <1>1, <1>3, <1>6, <1>8, ServerKept DEF HAInv
<1>9. ServerInv(n)'
  <2>1. Holds(files[n], blocks[n], applied[n], todo[n], script[n], touched[n], reused[n])
    BY <1>2 DEF ServerInv
  <2>2. Holds(FilesBy(files[n], Head(script[n])), BlocksBy(blocks[n], Head(script[n])),
              applied[n], IF d = <<>> THEN Tail(todo[n]) ELSE todo[n], d, touched[n], reused[n])
    BY <1>1, <1>4, <2>1, HoldsCall
  <2>3. Holds(files'[n], blocks'[n], applied[n], todo'[n], script'[n], touched[n], reused[n])
    BY <1>3, <1>6, <2>2
  <2> QED BY <1>1, <1>2, <2>3 DEF ServerInv
<1> QED BY <1>7, <1>8, <1>9 DEF HAInv

\* UpdateBlockLocation, and the rounds that do nothing else (HandleBlockReport,
\* ScanUnderReplicated, ScanBlock, Replicate).
LEMMA ReportStepInv ==
    ASSUME HAInv, NEW n \in Nodes,
           UNCHANGED <<files, nextId, todo, script, captured, saved, reused, applied, snapFile,
                       taking>>,
           (\E id : UpdateBlockLocation(n, id)) \/ UNCHANGED <<blocks, touched>>
    PROVE  HAInv'
<1>1. DOMAIN blocks = Nodes /\ DOMAIN touched = Nodes /\ ServerInv(n)
  BY DEF HAInv, HAShape
<1>2. CASE UNCHANGED <<blocks, touched>>
  BY <1>2, ServerKept DEF HAInv, HAShape
<1>3. ASSUME NEW id, UpdateBlockLocation(n, id)
      PROVE  HAInv'
  <2>1. /\ blocks'[n] = blocks[n] \cup {id} /\ touched'[n] = touched[n] \cup {id}
        /\ \A p \in Nodes : p # n => blocks'[p] = blocks[p] /\ touched'[p] = touched[p]
        /\ DOMAIN blocks' = Nodes /\ DOMAIN touched' = Nodes
    BY <1>1, <1>3 DEF UpdateBlockLocation
  <2>2. HAShape'
    BY <2>1 DEF HAInv, HAShape
  <2>3. ASSUME NEW p \in Nodes, p # n PROVE ServerInv(p)'
    BY <2>1, <2>3, ServerKept DEF HAInv
  <2>4. ServerInv(n)'
    <3>1. Holds(files[n], blocks[n] \cup {id}, applied[n], todo[n], script[n],
                touched[n] \cup {id}, reused[n])
      BY <1>1, HoldsReport DEF ServerInv
    <3>2. Holds(files[n], blocks'[n], applied[n], todo[n], script[n], touched'[n], reused[n])
      BY <2>1, <3>1
    <3> QED BY <1>1, <3>2 DEF ServerInv
  <2> QED BY <2>2, <2>3, <2>4 DEF HAInv
<1> QED BY <1>2, <1>3

\* What TakeMetadataSnapshot returns when no callback is under way.
LEMMA CapturedIsStored ==
    ASSUME NEW n \in Nodes, ServerInv(n), todo[n] = <<>>
    PROVE  Stored(TakeMetadataSnapshot(n), applied[n])
<1>1. Holds(files[n], blocks[n], applied[n], todo[n], script[n], touched[n], reused[n])
  BY DEF ServerInv
<1>2. /\ Steady(files[n], blocks[n], touched[n], reused[n])
      /\ applied[n] \in Seq(Entry) /\ DOMAIN files[n] = FilesAt(applied[n], Len(applied[n]))
  BY <1>1, HoldsAtRest
<1>3. IsTable(files[n]) /\ SharedKnown(files[n], reused[n])
  BY <1>1 DEF Holds
<1>4. PICK s : s = TakeMetadataSnapshot(n)
  OBVIOUS
<1>5. /\ s.files = files[n] /\ s.blocks = blocks[n] \cap Listed(files[n])
      /\ s.reused = reused[n]
  BY <1>4 DEF TakeMetadataSnapshot
<1>6. Present(files[n], blocks[n] \cap Listed(files[n]), {}, reused[n])
  BY <1>2 DEF Steady, Present
<1> QED BY <1>2, <1>3, <1>4, <1>5, <1>6 DEF Stored

\* CaptureMetadata(n): the metadata go with the entries they come from.
LEMMA CaptureStepInv ==
    ASSUME TypeOK, HAInv, NEW n \in Nodes, CaptureMetadata(n)
    PROVE  HAInv'
<1>1. /\ UNCHANGED <<files, blocks, nextId, todo, script, saved, touched, reused,
                     applied, snapFile>>
      /\ todo[n] = <<>>
  BY DEF CaptureMetadata, CallbacksOver, SnapshotCapture, commitVars, storeVars, callVars,
         detectVars
<1>2. DOMAIN taking = Nodes /\ DOMAIN captured = Nodes /\ ServerInv(n)
  BY DEF TypeOK, HAInv, HAShape
<1>3. /\ \A p \in Nodes : p # n => taking'[p] = taking[p]
      /\ taking'[n].pc = "captured" => taking'[n].snap.data = applied[n]
  <2>1. CASE Len(log[n]) > SnapshotThreshold /\ lastApplied[n] > snapMeta[n].index
    <3>1. PICK i, t : taking' = [taking EXCEPT
              ![n] = [pc |-> "captured", snap |-> [index |-> i, term |-> t,
                                                   data |-> applied[n]]]]
      BY <2>1 DEF CaptureMetadata, SnapshotCapture
    <3> QED BY <1>2, <3>1
  <2>2. CASE ~ (Len(log[n]) > SnapshotThreshold /\ lastApplied[n] > snapMeta[n].index)
    <3>1. taking' = [taking EXCEPT ![n] = IdleTaking]
      BY <2>2 DEF CaptureMetadata, SnapshotCapture
    <3> QED BY <1>2, <3>1 DEF IdleTaking
  <2> QED BY <2>1, <2>2
<1>4. /\ DOMAIN captured' = Nodes
      /\ \A p \in Nodes : p # n => captured'[p] = captured[p]
      /\ taking'[n].pc = "captured" => captured'[n] = TakeMetadataSnapshot(n)
  BY <1>2 DEF CaptureMetadata
<1>5. HAShape'
  BY <1>1, <1>4 DEF HAInv, HAShape
<1>6. ASSUME NEW p \in Nodes, p # n PROVE ServerInv(p)'
  BY <1>1, <1>3, <1>4, <1>6, ServerKept DEF HAInv
<1>7. ServerInv(n)'
  <2>1. Stored(TakeMetadataSnapshot(n), applied[n])
    BY <1>1, <1>2, CapturedIsStored
  <2> QED BY <1>1, <1>2, <1>3, <1>4, <2>1 DEF ServerInv
<1> QED BY <1>5, <1>6, <1>7 DEF HAInv

\* PublishMetadata(n): raft_snapshot.dat has both.
LEMMA PublishStepInv ==
    ASSUME TypeOK, HAInv, NEW n \in Nodes, PublishMetadata(n)
    PROVE  HAInv'
<1>1. UNCHANGED <<files, blocks, nextId, todo, script, touched, reused, applied>>
  BY DEF PublishMetadata, SnapshotPublish, commitVars, storeVars, callVars, detectVars
<1>2. /\ DOMAIN taking = Nodes /\ DOMAIN snapFile = Nodes
      /\ DOMAIN captured = Nodes /\ DOMAIN saved = Nodes /\ ServerInv(n)
      /\ taking \in [Nodes -> [pc : {"idle", "decided", "captured", "published"},
                              snap : Snapshot]]
  BY DEF TypeOK, HAInv, HAShape
<1>3. /\ taking[n].pc = "captured"
      /\ taking' = [taking EXCEPT ![n].pc = "published"]
      /\ snapFile' = [snapFile EXCEPT ![n] = taking[n].snap]
      /\ saved' = [saved EXCEPT ![n] = captured[n]]
      /\ captured' = [captured EXCEPT ![n] = NoMetadata]
  BY DEF PublishMetadata, SnapshotPublish
<1>4. /\ \A p \in Nodes : p # n => /\ taking'[p] = taking[p] /\ snapFile'[p] = snapFile[p]
                                   /\ saved'[p] = saved[p] /\ captured'[p] = captured[p]
      /\ taking'[n].pc # "captured"
      /\ snapFile'[n] = taking[n].snap /\ saved'[n] = captured[n]
      /\ DOMAIN saved' = Nodes /\ DOMAIN captured' = Nodes
  BY <1>2, <1>3
<1>5. HAShape'
  BY <1>1, <1>4 DEF HAInv, HAShape
<1>6. ASSUME NEW p \in Nodes, p # n PROVE ServerInv(p)'
  BY <1>1, <1>4, <1>6, ServerKept DEF HAInv
<1>7. ServerInv(n)'
  BY <1>1, <1>2, <1>3, <1>4 DEF ServerInv
<1> QED BY <1>5, <1>6, <1>7 DEF HAInv

\* The metadata of a snapshot are those of a server that has nothing to do.
LEMMA StoredHolds ==
    ASSUME NEW s, NEW d, Stored(s, d)
    PROVE  Holds(s.files, s.blocks, d, <<>>, <<>>, {}, s.reused)
<1>1. d \in Seq(Entry) /\ Len(d) \in Nat
  BY LenProperties DEF Stored
<1>2. IsEndOf(<<>>, d)
  <2>1. <<>> \in Seq(Entry) /\ Len(<<>>) = 0
    BY EmptySeq
  <2> QED BY <1>1, <2>1 DEF IsEndOf
<1>3. Len(d) - Len(<<>>) = Len(d)
  BY <1>1
<1>4. Steady(s.files, s.blocks, {}, s.reused)
  BY DEF Stored, Steady, Accounted
<1> QED BY <1>1, <1>2, <1>3, <1>4 DEF Stored, Holds

\* RestartServer(n): it starts from raft_snapshot.dat.
LEMMA RestartStepInv ==
    ASSUME TypeOK, HAInv, NEW n \in Nodes, RestartServer(n)
    PROVE  HAInv'
<1>1. /\ snapFile' = snapFile /\ saved' = saved
      /\ applied' = [applied EXCEPT ![n] = snapFile[n].data]
      /\ taking' = [taking EXCEPT ![n] = IdleTaking]
  BY DEF RestartServer, Restart, StartFrom
<1>2. /\ DOMAIN applied = Nodes /\ DOMAIN taking = Nodes /\ HAShape /\ ServerInv(n)
  BY DEF TypeOK, HAInv
<1>3. /\ files' = [files EXCEPT ![n] = saved[n].files]
      /\ blocks' = [blocks EXCEPT ![n] = saved[n].blocks]
      /\ nextId' = [nextId EXCEPT ![n] = 1]
      /\ todo' = [todo EXCEPT ![n] = <<>>]
      /\ script' = [script EXCEPT ![n] = <<>>]
      /\ captured' = [captured EXCEPT ![n] = NoMetadata]
      /\ touched' = [touched EXCEPT ![n] = {}]
      /\ reused' = [reused EXCEPT ![n] = saved[n].reused]
  BY DEF RestartServer, RestoreMetadataSnapshot
<1>4. HAShape'
  BY <1>1, <1>2, <1>3 DEF HAShape
<1>5. ASSUME NEW p \in Nodes, p # n PROVE ServerInv(p)'
  <2>1. /\ files'[p] = files[p] /\ blocks'[p] = blocks[p] /\ applied'[p] = applied[p]
        /\ todo'[p] = todo[p] /\ script'[p] = script[p] /\ touched'[p] = touched[p]
        /\ reused'[p] = reused[p] /\ nextId'[p] = nextId[p]
        /\ taking'[p] = taking[p] /\ captured'[p] = captured[p]
    BY <1>1, <1>2, <1>3, <1>5 DEF HAShape
  <2> QED BY <1>1, <2>1, ServerKept DEF HAInv
<1>6. ServerInv(n)'
  <2>1. /\ files'[n] = saved[n].files /\ blocks'[n] = saved[n].blocks
        /\ applied'[n] = snapFile[n].data /\ todo'[n] = <<>> /\ script'[n] = <<>>
        /\ touched'[n] = {} /\ reused'[n] = saved[n].reused /\ nextId'[n] = 1
        /\ taking'[n].pc # "captured"
    BY <1>1, <1>2, <1>3 DEF HAShape, IdleTaking
  <2>2. Stored(saved[n], snapFile[n].data)
    BY <1>2 DEF ServerInv
  <2>3. Holds(saved[n].files, saved[n].blocks, snapFile[n].data, <<>>, <<>>, {},
              saved[n].reused)
    BY <2>2, StoredHolds
  <2>4. Holds(files'[n], blocks'[n], applied'[n], todo'[n], script'[n], touched'[n],
              reused'[n])
    BY <2>1, <2>3
  <2> QED BY <1>1, <2>1, <2>2, <2>4 DEF ServerInv
<1> QED BY <1>4, <1>5, <1>6 DEF HAInv

\* Before anything was applied the metadata are empty.
LEMMA HAInitInv == HAInit => HAInv
<1> SUFFICES ASSUME HAInit PROVE HAInv
  OBVIOUS
<1>1. HAShape
  BY DEF HAInit, HAShape
<1>2. ASSUME NEW n \in Nodes PROVE ServerInv(n)
  <2>1. Stored(NoMetadata, <<>>)
    <3>1. IsTable(NoFiles) /\ SharedKnown(NoFiles, {}) /\ Listed(NoFiles) = {}
          /\ DOMAIN NoFiles = {}
      BY DEF NoFiles, IsTable, SharedKnown, Listed
    <3>2. <<>> \in Seq(Entry) /\ Len(<<>>) = 0
      BY EmptySeq
    <3>3. FilesAt(<<>>, 0) = {}
      BY DEF FilesAt
    <3> QED BY <3>1, <3>2, <3>3 DEF Stored, NoMetadata, Present
  <2>2. Holds(NoFiles, {}, <<>>, <<>>, <<>>, {}, {})
    BY <2>1, StoredHolds DEF NoMetadata
  <2>3. /\ applied[n] = <<>> /\ snapFile[n].data = <<>> /\ taking[n].pc # "captured"
    BY DEF HAInit, Init, NoSnapshot, IdleTaking
  <2> QED BY <2>1, <2>2, <2>3 DEF ServerInv, HAInit
<1> QED BY <1>1, <1>2 DEF HAInv

\* Every step of the server is a step of its RaftNode or leaves that alone.
LEMMA RaftStep == [HANext]_haVars => [Next]_vars
<1>1. CASE UNCHANGED haVars
  BY <1>1 DEF haVars
<1>2. ASSUME NEW n \in Nodes, RaftLocked(n) PROVE Next
  BY <1>2 DEF RaftLocked, LockedStep, ProposeWrite, Next
<1>3. ASSUME NEW n \in Nodes, RaftUnlocked(n) PROVE Next
  BY <1>3 DEF RaftUnlocked, Next
<1>4. ASSUME NEW n \in Nodes,
             CaptureMetadata(n) \/ PublishMetadata(n) \/ RestartServer(n)
      PROVE  Next
  BY <1>4 DEF CaptureMetadata, PublishMetadata, RestartServer, Next
<1>5. ASSUME NEW n \in Nodes,
             \/ OnApplyCommitted(n) \/ StoreCall(n) \/ ScanUnderReplicated(n)
             \/ \E id \in AllocatedIds : HandleBlockReport(n, id)
             \/ ScanBlock(n) \/ Replicate(n)
      PROVE  UNCHANGED vars
  BY <1>5 DEF OnApplyCommitted, StoreCall, ScanUnderReplicated, HandleBlockReport, ScanBlock,
              Replicate
<1> QED BY <1>1, <1>2, <1>3, <1>4, <1>5 DEF HANext

\* HAInv is inductive.
LEMMA HAStepInv == TypeOK /\ TypeOK' /\ HAInv /\ [HANext]_haVars => HAInv'
<1> SUFFICES ASSUME TypeOK, TypeOK', HAInv, [HANext]_haVars PROVE HAInv'
  OBVIOUS
<1>1. CASE UNCHANGED haVars
  <2>1. UNCHANGED <<files, blocks, nextId, todo, script, captured, saved, touched, reused,
                    applied, snapFile, taking>>
    BY <1>1 DEF haVars, vars, commitVars, snapVars, storeVars, callVars, savingVars, detectVars
  <2> QED BY <2>1, ServerKept DEF HAInv, HAShape
<1>2. ASSUME NEW n \in Nodes,
             \/ \E id \in AllocatedIds : HandleBlockReport(n, id)
             \/ ScanUnderReplicated(n) \/ ScanBlock(n) \/ Replicate(n)
      PROVE  HAInv'
  <2>1. UNCHANGED <<files, nextId, todo, script, captured, saved, reused, applied, snapFile,
                    taking>>
    BY <1>2 DEF HandleBlockReport, ScanUnderReplicated, ScanBlock, Replicate, vars,
                commitVars, snapVars, storeVars, callVars, savingVars
  <2>2. (\E id : UpdateBlockLocation(n, id)) \/ UNCHANGED <<blocks, touched>>
    BY <1>2 DEF HandleBlockReport, ScanUnderReplicated, ScanBlock, Replicate, storeVars
  <2> QED BY <2>1, <2>2, ReportStepInv
<1> QED BY <1>1, <1>2, LockedStepInv, UnlockedStepInv, BeginStepInv, CallStepInv,
           CaptureStepInv, PublishStepInv, RestartStepInv DEF HANext

-----------------------------------------------------------------------------
(* The theorems.                                                           *)

\* Whatever the callbacks, reports and repairs do in between, the RaftNode of a
\* server behaves as RaftNode says (namenode_ha_server.cc calls it only through
\* Propose and the three callbacks): every theorem about Spec holds of HASpec.
THEOREM RunsRaft == HASpec => Spec
<1>1. HAInit => Init
  BY DEF HAInit
<1> QED BY <1>1, RaftStep, PTL DEF HASpec, Spec

\* The metadata follow the entries given to the state machine.
LEMMA HAInvariant == HASpec => [](TypeOK /\ HAInv)
<1>1. TypeInv => TypeOK
  BY DEF TypeInv
<1>2. TypeInv /\ [HANext]_haVars => TypeInv'
  BY RaftStep, TypeStep
<1>3. HAInit => TypeInv
  BY TypeInit DEF HAInit
<1> QED BY <1>1, <1>2, <1>3, HAInitInv, HAStepInv, PTL DEF HASpec

\* The files of a server are those of the callbacks that have returned.
LEMMA FilesOfHolds ==
    ASSUME NEW n \in Nodes, ServerInv(n)
    PROVE  DOMAIN files[n] = FilesAfter(Finished(n))
<1>1. /\ IsEndOf(todo[n], applied[n])
      /\ DOMAIN files[n] = FilesAt(applied[n], Len(applied[n]) - Len(todo[n]))
  BY DEF ServerInv, Holds
<1>2. /\ applied[n] \in Seq(Entry) /\ todo[n] \in Seq(Entry)
      /\ Len(todo[n]) <= Len(applied[n])
  BY <1>1 DEF IsEndOf
<1>3. Len(applied[n]) - Len(todo[n]) \in 0..Len(applied[n])
  <2>1. Len(applied[n]) \in Nat /\ Len(todo[n]) \in Nat
    BY <1>2, LenProperties
  <2>2. \A k, m \in Nat : m <= k => k - m \in 0..k
    OBVIOUS
  <2> QED BY <1>2, <2>1, <2>2, Zenon
<1>4. FilesAfter(SubSeq(applied[n], 1, Len(applied[n]) - Len(todo[n])))
          = FilesAt(applied[n], Len(applied[n]) - Len(todo[n]))
  BY <1>2, <1>3, FilesOfPrefix
<1> QED BY <1>1, <1>4 DEF Finished

\* For every cluster, every set of write requests and every order of elections,
\* crashes and snapshots: between any two calls of MetadataStore a server lists
\* exactly the files of the entries whose callbacks have returned
\* (OnApplyCommitted, TakeMetadataSnapshot, RestoreMetadataSnapshot).
THEOREM FilesFollow == HASpec => []FilesReflectApplied
<1>1. HAInv => FilesReflectApplied
  BY FilesOfHolds DEF HAInv, FilesReflectApplied, HandleListFiles
<1> QED BY <1>1, HAInvariant, PTL

\* What the calls of a callback list and take away.
LEMMA CallsOfUnderWay ==
    ASSUME NEW f, NEW b, NEW v, NEW c, NEW t, NEW r, UnderWay(f, b, v, c, t, r)
    PROVE  /\ Present(f, b, BeingDeleted(f, c), r)
           /\ Accounted(f, b, BeingListed(c), t)
<1>1. CASE OpOf[v] = "create" /\ c = ApplyCreateFile(PathOf[v]) /\ Steady(f, b, t, r)
  BY <1>1 DEF Steady, Present, Accounted
<1>2. CASE OpOf[v] = "delete" /\ Deleting(f, b, PathOf[v], c, t, r)
  <2>1. /\ c \in Seq(DeleteCall(PathOf[v])) /\ c # <<>>
        /\ c[Len(c)] = Call("DeleteFile", PathOf[v], 0)
        /\ Present(f, b, IdsIn(f, PathOf[v]), r) /\ Accounted(f, b, {}, t)
    BY <1>2 DEF Deleting, DeleteCalls
  <2>2. Len(c) \in 1..Len(c)
    BY <2>1, EmptySeq, LenProperties
  <2>3. IdsIn(f, PathOf[v]) \subseteq BeingDeleted(f, c)
    <3>1. c[Len(c)].name = "DeleteFile" /\ c[Len(c)].path = PathOf[v]
      BY <2>1 DEF Call
    <3> QED BY <2>2, <3>1 DEF BeingDeleted
  <2> QED BY <2>1, <2>3 DEF Present, Accounted
<1>3. CASE OpOf[v] = "allocate" /\ Allocating(f, b, PathOf[v], c, t, r)
  <2>1. PICK id \in Nat :
          \/ /\ c = <<Call("AddBlock", PathOf[v], id), Call("UpdateFile", PathOf[v], id)>>
             /\ Steady(f, b, t, r)
          \/ /\ c = <<Call("UpdateFile", PathOf[v], id)>>
             /\ Present(f, b, {}, r) /\ Accounted(f, b, {id}, t)
    BY <1>3 DEF Allocating
  <2>2. CASE Steady(f, b, t, r)
    BY <2>2 DEF Steady, Present, Accounted
  <2>3. CASE /\ c = <<Call("UpdateFile", PathOf[v], id)>>
             /\ Present(f, b, {}, r) /\ Accounted(f, b, {id}, t)
    <3>1. Len(c) = 1 /\ c[1].name = "UpdateFile" /\ c[1].id = id
      BY <2>3 DEF Call
    <3>2. id \in BeingListed(c)
      BY <3>1 DEF BeingListed
    <3> QED BY <2>3, <3>2 DEF Present, Accounted
  <2> QED BY <2>1, <2>2, <2>3
<1> QED BY <1>1, <1>2, <1>3 DEF UnderWay

\* For every cluster, every set of write requests, every report and repair: the
\* block table of a server has an entry for each block a file lists and no other,
\* but for the deletion, the allocation, the reports and repairs and the ids given
\* out again that BlockTableExact names (ApplyDeleteFile, ApplyAllocateBlock).
THEOREM BlocksFollow == HASpec => []BlockTableExact
<1>1. ASSUME HAInv, NEW n \in Nodes
      PROVE  /\ Present(files[n], blocks[n], BeingDeleted(files[n], script[n]), reused[n])
             /\ Accounted(files[n], blocks[n], BeingListed(script[n]), touched[n])
  <2>1. Holds(files[n], blocks[n], applied[n], todo[n], script[n], touched[n], reused[n])
    BY <1>1 DEF HAInv, ServerInv
  <2>2. CASE Steady(files[n], blocks[n], touched[n], reused[n])
    BY <2>2 DEF Steady, Present, Accounted
  <2>3. CASE UnderWay(files[n], blocks[n], Head(todo[n]).cmd, script[n], touched[n], reused[n])
    BY <2>3, CallsOfUnderWay
  <2> QED BY <2>1, <2>2, <2>3 DEF Holds
<1>2. HAInv => BlockTableExact
  <2> SUFFICES ASSUME HAInv, NEW n \in Nodes
               PROVE  /\ \A p \in HandleListFiles(n) : \A b \in HandleGetFileBlocks(n, p) :
                            \/ b.known
                            \/ b.id \in BeingDeleted(files[n], script[n]) \cup reused[n]
                      /\ blocks[n] \subseteq Listed(files[n]) \cup BeingListed(script[n])
                                                 \cup touched[n]
    BY DEF BlockTableExact
  <2>1. blocks[n] \subseteq Listed(files[n]) \cup BeingListed(script[n]) \cup touched[n]
    BY <1>1 DEF Accounted
  <2>2. ASSUME NEW p \in HandleListFiles(n), NEW b \in HandleGetFileBlocks(n, p)
        PROVE  \/ b.known
               \/ b.id \in BeingDeleted(files[n], script[n]) \cup reused[n]
    <3>1. b.id \in IdsIn(files[n], p) /\ b.known = (b.id \in blocks[n])
      BY <2>2 DEF HandleGetFileBlocks
    <3>2. b.id \in Listed(files[n])
      BY <3>1 DEF Listed, HandleListFiles
    <3> QED BY <1>1, <3>1, <3>2 DEF Present
  <2> QED BY <2>1, <2>2
<1> QED BY <1>2, HAInvariant, PTL

-----------------------------------------------------------------------------
(***************************************************************************)
(* The answers.  Until the first snapshot logs have no hole, so a node     *)
(* that commits has given its callbacks every index up to commit_index_,   *)
(* but for those RestoreState counted.                                     *)
(***************************************************************************)

Through(n) ==
    /\ lastApplied[n] = commitIndex[n]
    /\ \A i \in 1..commitIndex[n] :
          i <= counted[n] \/ \E e \in Members(applied[n]) : e.index = i

AnswerInv ==
    /\ counted \in [Nodes -> Nat]
    /\ snapshots = 0 => \A n \in Nodes : Through(n)

LEMMA AnswerInit == HAInit => AnswerInv
<1> SUFFICES ASSUME HAInit PROVE AnswerInv
  OBVIOUS
<1>1. counted \in [Nodes -> Nat]
  BY DEF HAInit
<1>2. \A n \in Nodes : Through(n)
  BY DEF HAInit, Init, Through
<1> QED BY <1>1, <1>2 DEF AnswerInv

\* What ApplyCommitted gives from a log without a hole has every index in between.
LEMMA GivesAll ==
    ASSUME NEW l \in Seq(Entry), \A k \in 1..Len(l) : l[k].index = k,
           NEW a \in Nat, NEW i \in Nat, i <= LastIndex(l), NEW j \in (a + 1)..i
    PROVE  \E e \in Members(Above(UpTo(l, i), a)) : e.index = j
<1>1. Len(l) \in Nat /\ Increasing(l)
  BY LenProperties DEF Increasing
<1>2. i <= Len(l)
  <2>1. CASE l = <<>>
    BY <1>1, <2>1 DEF LastIndex
  <2>2. CASE l # <<>>
    <3>1. Len(l) \in 1..Len(l)
      BY <1>1, <2>2, EmptySeq
    <3> QED BY <2>2, <3>1 DEF LastIndex
  <2> QED BY <2>1, <2>2
<1>3. j \in 1..Len(l) /\ j <= i /\ ~ (j <= a)
  BY <1>1, <1>2
<1>4. l[j] \in Members(l) /\ l[j].index = j
  BY <1>3 DEF Members
<1>5. UpTo(l, i) \in Seq(Entry) /\ Increasing(UpTo(l, i)) /\ l[j] \in Members(UpTo(l, i))
  <2>1. i \in Int /\ UpTo(l, i) \in Seq(Entry)
    BY LogCuts
  <2>2. /\ Increasing(UpTo(l, i))
        /\ \A e : e \in Members(UpTo(l, i)) <=> e \in Members(l) /\ e.index <= i
    BY <1>1, <2>1, CutOrdered
  <2>3. l[j].index <= i
    BY <1>3, <1>4
  <2> QED BY <1>4, <2>1, <2>2, <2>3
<1>6. l[j] \in Members(Above(UpTo(l, i), a))
  BY <1>3, <1>4, <1>5, CutOrdered
<1> QED BY <1>4, <1>6

\* A handler goes through all it commits.
LEMMA ThroughCommit ==
    ASSUME TypeOK, TypeOK', NEW n \in Nodes, Through(n), counted' = counted,
           \A k \in 1..Len(log'[n]) : log'[n][k].index = k,
           UNCHANGED commitVars \/ Gives(n)
    PROVE  Through(n)'
<1>1. CASE UNCHANGED commitVars
  BY <1>1 DEF Through, commitVars
<1>2. CASE Gives(n)
  <2>0. PICK l : l = log'[n]
    OBVIOUS
  <2>1. PICK i \in Nat : i <= LastIndex(l) /\ CommitTo(n, i, l)
    BY <1>2, <2>0 DEF Gives
  <2>2. /\ l \in Seq(Entry) /\ applied[n] \in Seq(Entry)
        /\ lastApplied[n] \in Nat /\ commitIndex[n] \in Nat
    BY <2>0 DEF TypeOK
  <2>3. CASE /\ i > commitIndex[n] /\ commitIndex'[n] = i
             /\ lastApplied'[n] = Larger(lastApplied[n], i)
             /\ applied'[n] = applied[n] \o Above(UpTo(l, i), lastApplied[n])
    <3>1. PICK x : x = Above(UpTo(l, i), lastApplied[n])
      OBVIOUS
    <3>2. x \in Seq(Entry)
      <4>1. l \in Seq(Entry) /\ i \in Int /\ lastApplied[n] \in Int
        BY <2>2
      <4>2. UpTo(l, i) \in Seq(Entry)
        BY <4>1, LogCuts
      <4>3. Above(UpTo(l, i), lastApplied[n]) \in Seq(Entry)
        BY <4>1, <4>2, LogCuts
      <4> QED BY <3>1, <4>3
    <3>3. Members(applied'[n]) = Members(applied[n]) \cup Members(x)
      BY <2>2, <2>3, <3>1, <3>2, JoinMembers
    <3>4. ASSUME NEW j \in (lastApplied[n] + 1)..i
          PROVE  \E e \in Members(x) : e.index = j
      <4>1. \A k \in 1..Len(l) : l[k].index = k
        BY <2>0
      <4> QED BY <2>1, <2>2, <3>1, <3>4, <4>1, GivesAll
    <3>5. lastApplied'[n] = i /\ lastApplied[n] = commitIndex[n]
      BY <2>2, <2>3 DEF Through, Larger
    <3>6. ASSUME NEW j \in 1..i
          PROVE  j <= counted[n] \/ \E e \in Members(applied'[n]) : e.index = j
      <4>1. CASE j <= commitIndex[n]
        BY <3>3, <4>1 DEF Through
      <4>2. CASE ~ (j <= commitIndex[n])
        <5>1. j \in (lastApplied[n] + 1)..i
          BY <2>2, <3>5, <4>2
        <5> QED BY <3>3, <3>4, <5>1
      <4> QED BY <4>1, <4>2
    <3> QED BY <2>3, <3>5, <3>6 DEF Through
  <2> QED BY <1>1, <2>1, <2>3, CommitEffect
<1> QED BY <1>1, <1>2

LEMMA AnswerStep ==
    ASSUME TypeOK, TypeOK', IInv', AnswerInv, [HANext]_haVars
    PROVE  AnswerInv'
<1>1. CASE counted' = counted /\ UNCHANGED <<commitVars, snapshots>>
  BY <1>1 DEF AnswerInv, Through, commitVars
<1>2. ASSUME NEW n \in Nodes, RaftLocked(n) PROVE AnswerInv'
  <2>1. counted' = counted
    BY <1>2 DEF RaftLocked, savingVars
  <2>2. HandlerStep(n) \/ SnapshotDecide(n) \/ SnapshotTrim(n)
    BY <1>2 DEF RaftLocked, LockedStep, ProposeWrite, HandlerStep
  <2>3. CASE SnapshotDecide(n) \/ SnapshotTrim(n)
    BY <1>1, <2>1, <2>3 DEF SnapshotDecide, SnapshotTrim
  <2>4. CASE HandlerStep(n)
    <3>1. UNCHANGED snapVars /\ (UNCHANGED commitVars \/ Gives(n))
      BY <2>4, HandlerGives
    <3>2. ASSUME snapshots' = 0, NEW p \in Nodes PROVE Through(p)'
      <4>1. snapshots = 0 /\ Through(p)
        BY <3>1, <3>2 DEF snapVars, AnswerInv
      <4>2. \A k \in 1..Len(log'[p]) : log'[p][k].index = k
        BY <3>2 DEF IInv, LogInv, LogContiguous
      <4>3. CASE p = n
        BY <2>1, <3>1, <4>1, <4>2, <4>3, ThroughCommit
      <4>4. CASE p # n
        <5>1. /\ commitIndex'[p] = commitIndex[p] /\ lastApplied'[p] = lastApplied[p]
              /\ applied'[p] = applied[p]
          BY <3>1, <4>4, CommitEffect DEF Gives, commitVars
        <5> QED BY <2>1, <4>1, <5>1 DEF Through
      <4> QED BY <4>3, <4>4
    <3> QED BY <2>1, <3>2 DEF AnswerInv
  <2> QED BY <2>2, <2>3, <2>4
<1>3. ASSUME NEW n \in Nodes, RaftUnlocked(n) \/ PublishMetadata(n)
      PROVE  counted' = counted /\ UNCHANGED <<commitVars, snapshots>>
  BY <1>3 DEF RaftUnlocked, PublishMetadata, RequestVoteTimeout, ResumeElection, ProposeTimeout,
              SnapshotPublish, savingVars, snapVars
<1>4. ASSUME NEW n \in Nodes, CaptureMetadata(n) PROVE AnswerInv'
  <2>1. counted' = counted /\ UNCHANGED commitVars
    BY <1>4 DEF CaptureMetadata, SnapshotCapture
  <2>2. snapshots' = 0 => snapshots = 0
    <3>1. snapshots \in Nat /\ (snapshots' = snapshots \/ snapshots' = snapshots + 1)
      BY <1>4 DEF CaptureMetadata, SnapshotCapture, TypeOK
    <3> QED BY <3>1
  <2> QED BY <2>1, <2>2 DEF AnswerInv, Through, commitVars
<1>5. ASSUME NEW n \in Nodes, RestartServer(n) PROVE AnswerInv'
  <2>1. /\ counted' = [counted EXCEPT ![n] = lastApplied'[n]]
        /\ snapshots' = snapshots
        /\ lastApplied' = [lastApplied EXCEPT ![n] = RestoredCommit(n, log[n])]
        /\ commitIndex' = [commitIndex EXCEPT ![n] = RestoredCommit(n, log[n])]
        /\ applied' = [applied EXCEPT ![n] = snapFile[n].data]
    BY <1>5 DEF RestartServer, Restart, StartFrom
  <2>2. /\ lastApplied \in [Nodes -> Nat] /\ commitIndex \in [Nodes -> Nat]
        /\ applied \in [Nodes -> Seq(Entry)] /\ lastApplied'[n] \in Nat
    BY DEF TypeOK
  <2>3. counted' \in [Nodes -> Nat]
    BY <2>1, <2>2 DEF AnswerInv
  <2>4. Through(n)'
    <3>1. /\ lastApplied'[n] = commitIndex'[n] /\ counted'[n] = commitIndex'[n]
          /\ commitIndex'[n] \in Nat
      BY <2>1, <2>2 DEF AnswerInv
    <3> QED BY <3>1 DEF Through
  <2>5. ASSUME NEW p \in Nodes, p # n, Through(p) PROVE Through(p)'
    <3>1. /\ lastApplied'[p] = lastApplied[p] /\ commitIndex'[p] = commitIndex[p]
          /\ applied'[p] = applied[p] /\ counted'[p] = counted[p]
      BY <2>1, <2>2, <2>5 DEF AnswerInv
    <3> QED BY <2>5, <3>1 DEF Through
  <2> QED BY <2>1, <2>3, <2>4, <2>5 DEF AnswerInv
<1>6. ASSUME NEW n \in Nodes,
             \/ OnApplyCommitted(n) \/ StoreCall(n) \/ ScanUnderReplicated(n)
             \/ \E id \in AllocatedIds : HandleBlockReport(n, id)
             \/ ScanBlock(n) \/ Replicate(n)
      PROVE  counted' = counted /\ UNCHANGED <<commitVars, snapshots>>
  BY <1>6 DEF OnApplyCommitted, StoreCall, ScanUnderReplicated, HandleBlockReport, ScanBlock,
              Replicate, savingVars, vars, snapVars
<1>7. UNCHANGED haVars => counted' = counted /\ UNCHANGED <<commitVars, snapshots>>
  BY DEF haVars, savingVars, vars, snapVars
<1> QED BY <1>1, <1>2, <1>3, <1>4, <1>5, <1>6, <1>7 DEF HANext

\* Only the check in the waiting loop of Propose ends a call as committed.
LEMMA CommittedByCheck ==
    ASSUME TypeOK, NEW n \in Nodes, NEW v \in Commands,
           HandlerStep(n), call[v].pc # "committed", call'[v].pc = "committed"
    PROVE  ProposeCheck(n, v)
<1>0. call \in [Commands -> [pc : {"new", "appended", "advanced", "sent", "asleep",
                                   "committed", "failed"},
                             node : Nodes \cup {Nil}, index : Nat]]
  BY DEF TypeOK
<1>1. call' # call
  OBVIOUS
<1>2. \E w \in Commands : \/ Propose(n, w) \/ ProposeAdvance(n, w) \/ ProposeSend(n, w)
                         \/ ProposeCheck(n, w) \/ ProposeTimeout(n, w)
  <2>1. ASSUME \/ BecomeCandidate(n) \/ FinishElection(n)
               \/ StartElection(n) \/ RequestVoteTimeout(n) \/ ResumeElection(n)
               \/ HeartbeatTimeout(n) \/ AppendEntriesTimeout(n)
        PROVE  call' = call
    BY <2>1 DEF BecomeCandidate, FinishElection, StartElection, RequestVoteTimeout,
         ResumeElection, HeartbeatTimeout, AppendEntriesTimeout
  <2>2. ASSUME NEW r \in replies,
               HandleRequestVoteResponse(n, r) \/ HandleAppendEntriesResponse(n, r)
        PROVE  call' = call
    BY <2>2 DEF HandleRequestVoteResponse, HandleAppendEntriesResponse
  <2>3. ASSUME NEW m \in requests, HandleRequestVote(n, m) \/ HandleAppendEntries(n, m)
        PROVE  call' = call
    BY <2>3 DEF HandleRequestVote, HandleAppendEntries
  <2> QED BY <1>1, <2>1, <2>2, <2>3 DEF HandlerStep
<1>3. PICK w \in Commands : \/ Propose(n, w) \/ ProposeAdvance(n, w) \/ ProposeSend(n, w)
                            \/ ProposeCheck(n, w) \/ ProposeTimeout(n, w)
  BY <1>2
<1>4. CASE w # v
  <2>1. call'[v] = call[v]
    BY <1>0, <1>3, <1>4 DEF Propose, ProposeAdvance, ProposeSend, ProposeCheck, ProposeTimeout
  <2> QED BY <2>1
<1>5. CASE w = v
  <2>1. ASSUME Propose(n, v) \/ ProposeAdvance(n, v) \/ ProposeSend(n, v)
                 \/ ProposeTimeout(n, v)
        PROVE  call'[v].pc # "committed"
    BY <1>0, <2>1 DEF Propose, ProposeAdvance, ProposeSend, ProposeTimeout
  <2> QED BY <1>3, <1>5, <2>1
<1> QED BY <1>4, <1>5

\* For every cluster and every number of leaders, cut logs, lost or late requests
\* and restarts: until the first snapshot, ProposeWrite reads the metadata for its
\* answer only after an entry with the index of its request went through the
\* callbacks, unless RestoreState counted that index (Propose, ApplyCommitted).
THEOREM AnswersFollow == HASpec => AnswersFollowApply
<1> DEFINE InCallbacks(v) == LET n == call[v].node
                        IN  \/ \E i \in 1..Len(Finished(n)) :
                                  applied[n][i].index = call[v].index
                            \/ call[v].index <= counted[n]
                            \/ snapshots > 0
           Answers == \A v \in Commands :
              call[v].pc # "committed" /\ call'[v].pc = "committed" => InCallbacks(v)
<1>1. ASSUME TypeOK, HAInv, AnswerInv, [HANext]_haVars PROVE [Answers]_call
  <2> SUFFICES ASSUME call' # call, NEW v \in Commands, call[v].pc # "committed",
                      call'[v].pc = "committed"
               PROVE  InCallbacks(v)
    OBVIOUS
  <2>1. PICK n \in Nodes : CallbacksOver(n) /\ ProposeCheck(n, v)
    <3>1. \E n \in Nodes : RaftLocked(n) \/ RaftUnlocked(n) \/ RestartServer(n)
      <4>1. ASSUME NEW n \in Nodes, CaptureMetadata(n) \/ PublishMetadata(n) PROVE call' = call
        BY <4>1 DEF CaptureMetadata, PublishMetadata, SnapshotCapture, SnapshotPublish
      <4>2. ASSUME NEW n \in Nodes,
                   \/ OnApplyCommitted(n) \/ StoreCall(n) \/ ScanUnderReplicated(n)
                   \/ \E id \in AllocatedIds : HandleBlockReport(n, id)
                   \/ ScanBlock(n) \/ Replicate(n)
            PROVE  call' = call
        BY <4>2 DEF OnApplyCommitted, StoreCall, ScanUnderReplicated, HandleBlockReport,
                    ScanBlock, Replicate, vars
      <4>3. UNCHANGED haVars => call' = call
        BY DEF haVars, vars
      <4> QED BY <1>1, <4>1, <4>2, <4>3 DEF HANext
    <3>2. PICK n \in Nodes : RaftLocked(n) \/ RaftUnlocked(n) \/ RestartServer(n)
      BY <3>1
    <3>3. CASE RaftLocked(n)
      <4>1. CallbacksOver(n) /\ (HandlerStep(n) \/ SnapshotDecide(n) \/ SnapshotTrim(n))
        BY <3>3 DEF RaftLocked, LockedStep, ProposeWrite, HandlerStep
      <4>2. SnapshotDecide(n) \/ SnapshotTrim(n) => call' = call
        BY DEF SnapshotDecide, SnapshotTrim
      <4> QED BY <1>1, <4>1, <4>2, CommittedByCheck
    <3>4. CASE RaftUnlocked(n)
      <4>1. HandlerStep(n)
        BY <3>4 DEF RaftUnlocked, HandlerStep
      <4>2. ProposeCheck(n, v)
        BY <1>1, <4>1, CommittedByCheck
      <4>3. call' = call \/ \E w \in Commands : ProposeTimeout(n, w)
        BY <3>4 DEF RaftUnlocked, RequestVoteTimeout, ResumeElection
      <4>4. ASSUME NEW w \in Commands, ProposeTimeout(n, w) PROVE FALSE
        <5>1. call \in [Commands -> [pc : {"new", "appended", "advanced", "sent", "asleep",
                                           "committed", "failed"},
                                     node : Nodes \cup {Nil}, index : Nat]]
          BY <1>1 DEF TypeOK
        <5>2. call' = [call EXCEPT ![w].pc = "failed"]
          BY <4>4 DEF ProposeTimeout
        <5> QED BY <5>1, <5>2
      <4> QED BY <4>3, <4>4
    <3>5. CASE RestartServer(n)
      <4>1. call'[v].pc = IF call[v].node = n /\ call[v].pc # "committed"
                          THEN "failed" ELSE call[v].pc
        <5>1. call' = [w \in Commands |->
                          IF call[w].node = n /\ call[w].pc # "committed"
                          THEN [call[w] EXCEPT !.pc = "failed"] ELSE call[w]]
          BY <3>5 DEF RestartServer, Restart, StartFrom
        <5>2. call[v] \in [pc : {"new", "appended", "advanced", "sent", "asleep",
                                 "committed", "failed"},
                           node : Nodes \cup {Nil}, index : Nat]
          BY <1>1 DEF TypeOK
        <5> QED BY <5>1, <5>2
      <4> QED BY <4>1
    <3> QED BY <3>2, <3>3, <3>4, <3>5
  <2>2. call[v].node = n /\ call[v].index \in Nat /\ call[v].index <= commitIndex[n]
    <3>1. call \in [Commands -> [pc : {"new", "appended", "advanced", "sent", "asleep",
                                       "committed", "failed"},
                                 node : Nodes \cup {Nil}, index : Nat]]
          /\ commitIndex[n] \in Nat
      BY <1>1 DEF TypeOK
    <3>2. call[v].node = n /\ call[v].index \in Nat
      BY <2>1, <3>1 DEF ProposeCheck, CallAt
    <3>3. commitIndex[n] >= call[v].index
      BY <2>1, <3>1 DEF ProposeCheck
    <3> QED BY <3>1, <3>2, <3>3
  <2>3. Finished(n) = applied[n] /\ applied[n] \in Seq(Entry)
    <3>1. applied[n] \in Seq(Entry) /\ todo[n] = <<>>
      BY <1>1, <2>1 DEF TypeOK, CallbacksOver
    <3>2. Len(applied[n]) \in Nat /\ Len(todo[n]) = 0
      BY <3>1, LenProperties, EmptySeq
    <3>3. SubSeq(applied[n], 1, Len(applied[n])) = applied[n]
      BY <3>1, SubSeqFull
    <3>4. Len(applied[n]) - Len(todo[n]) = Len(applied[n])
      BY <3>2
    <3> QED BY <3>1, <3>3, <3>4 DEF Finished
  <2>4. CASE snapshots = 0
    <3>1. counted[n] \in Nat /\ Through(n)
      BY <1>1, <2>4 DEF AnswerInv
    <3>2. CASE call[v].index = 0
      BY <2>2, <3>1, <3>2
    <3>3. CASE call[v].index # 0
      <4>1. call[v].index \in 1..commitIndex[n]
        <5>1. commitIndex[n] \in Nat
          BY <1>1 DEF TypeOK
        <5> QED BY <2>2, <3>3, <5>1
      <4>2. \/ call[v].index <= counted[n]
            \/ \E e \in Members(applied[n]) : e.index = call[v].index
        BY <3>1, <4>1 DEF Through
      <4> QED BY <2>2, <2>3, <4>2 DEF Members
    <3> QED BY <3>2, <3>3
  <2>5. CASE snapshots # 0
    BY <1>1, <2>5 DEF TypeOK
  <2> QED BY <2>4, <2>5
<1>2. HASpec => []IInv
  BY RunsRaft, Invariance, PTL
<1>3. TypeOK /\ TypeOK' /\ IInv' /\ AnswerInv /\ [HANext]_haVars => AnswerInv'
  BY AnswerStep
<1>4. HASpec => []AnswerInv
  BY <1>2, <1>3, AnswerInit, HAInvariant, PTL DEF HASpec
<1>5. TypeOK /\ HAInv /\ AnswerInv /\ [HANext]_haVars => [Answers]_call
  BY <1>1
<1>6. HASpec => [][Answers]_call
  BY <1>4, <1>5, HAInvariant, PTL DEF HASpec
<1> QED BY <1>6 DEF AnswersFollowApply
=============================================================================
