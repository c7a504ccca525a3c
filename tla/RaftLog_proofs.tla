--------------------------- MODULE RaftLog_proofs ---------------------------
(***************************************************************************)
(* The logs of RaftNode for every cluster and every bound.  Until the      *)
(* first snapshot is taken no log has a hole, and no two logs hold         *)
(* different commands under one term and index.  Without that condition,   *)
(* an applied entry leaves the disk only where HandleAppendEntries finds a *)
(* conflict.                                                               *)
(***************************************************************************)
EXTENDS RaftNode_proofs

-----------------------------------------------------------------------------
(* The inductive invariant.                                                *)

Appends == {m \in requests : m.type = "AppendEntries"}

\* No health thread is past the point where it read the state machine.
NoneTaken == \A n \in Nodes : taking[n].pc \in {"idle", "decided"}

\* The entries of a request follow the index before them, without a hole.
RequestsContiguous ==
    \A m \in Appends : \A k \in 1..Len(m.entries) : m.entries[k].index = m.prevIndex + k

LogInv == NoneTaken /\ LogContiguous /\ RequestsContiguous

\* Every entry that is in a log or on its way to one.
Entries ==
    (UNION {{log[n][k] : k \in 1..Len(log[n])} : n \in Nodes})
    \cup (UNION {{m.entries[k] : k \in 1..Len(m.entries)} : m \in Appends})

\* A node is elected in terms it has reached, and no longer a candidate then.
ElectedBefore ==
    \A l \in elected :
        /\ l.term <= currentTerm[l.node]
        /\ state[l.node] = "CANDIDATE" => l.term < currentTerm[l.node]

\* An entry carries the term of a leader.
EntriesElected == \A e \in Entries : \E l \in elected : l.term = e.term

\* A leader was elected, and its log holds every entry of its term.
LeaderHolds ==
    \A n \in Nodes : state[n] = "LEADER" =>
        /\ [node |-> n, term |-> currentTerm[n]] \in elected
        /\ \A e \in Entries : e.term = currentTerm[n] =>
              e.index \in 1..Len(log[n]) /\ log[n][e.index] = e

\* Term and index determine an entry.
SlotsAgree ==
    \A e, f \in Entries : e.term = f.term /\ e.index = f.index => e = f

SlotInv == ElectedBefore /\ EntriesElected /\ LeaderHolds /\ SlotsAgree

IInv == snapshots = 0 => LogInv /\ SlotInv

-----------------------------------------------------------------------------
(* Cutting a log whose indexes have no hole.                               *)

\* The entries of l have the indexes after p, in order.
Follows(l, p) == \A k \in 1..Len(l) : l[k].index = p + k

\* What the two cuts of a log hold.
LEMMA CutEntries ==
    ASSUME NEW l \in Seq(Entry), NEW i \in Int
    PROVE  /\ CountUpTo(l, i) \in 0..Len(l)
           /\ UpTo(l, i) \in Seq(Entry) /\ Len(UpTo(l, i)) = CountUpTo(l, i)
           /\ \A k \in 1..CountUpTo(l, i) : UpTo(l, i)[k] = l[k]
           /\ Above(l, i) \in Seq(Entry) /\ Len(Above(l, i)) = Len(l) - CountUpTo(l, i)
           /\ \A k \in 1..Len(l) - CountUpTo(l, i) : Above(l, i)[k] = l[CountUpTo(l, i) + k]
<1> DEFINE c == CountUpTo(l, i)
<1>1. c \in 0..Len(l)
  BY CountUpToType
<1>2. Len(l) \in Nat /\ \A k \in 1..Len(l) : l[k] \in Entry
  BY LenProperties, ElementOfSeq
<1> HIDE DEF c
<1>3. /\ SubSeq(l, 1, c) \in Seq(Entry) /\ Len(SubSeq(l, 1, c)) = IF 1 <= c THEN c - 1 + 1 ELSE 0
      /\ \A k \in 1..(c - 1 + 1) : SubSeq(l, 1, c)[k] = l[1 + k - 1]
  <2>1. 1 \in Int /\ c \in Int /\ \A k \in 1..c : l[k] \in Entry
    BY <1>1, <1>2
  <2> HIDE DEF Entry
  <2> QED BY <2>1, SubSeqProperties
<1>4. /\ SubSeq(l, c + 1, Len(l)) \in Seq(Entry)
      /\ Len(SubSeq(l, c + 1, Len(l))) = IF c + 1 <= Len(l) THEN Len(l) - (c + 1) + 1 ELSE 0
      /\ \A k \in 1..(Len(l) - (c + 1) + 1) : SubSeq(l, c + 1, Len(l))[k] = l[c + 1 + k - 1]
  <2>1. c + 1 \in Int /\ Len(l) \in Int /\ \A k \in (c + 1)..Len(l) : l[k] \in Entry
    BY <1>1, <1>2
  <2> HIDE DEF Entry
  <2> QED BY <2>1, SubSeqProperties
<1>5. UpTo(l, i) = SubSeq(l, 1, c) /\ Above(l, i) = SubSeq(l, c + 1, Len(l))
  BY DEF UpTo, Above, c
<1>6. Len(UpTo(l, i)) = c /\ \A k \in 1..c : UpTo(l, i)[k] = l[k]
  BY <1>1, <1>2, <1>3, <1>5
<1>7. Len(Above(l, i)) = Len(l) - c /\ \A k \in 1..Len(l) - c : Above(l, i)[k] = l[c + k]
  BY <1>1, <1>2, <1>4, <1>5
<1> QED BY <1>1, <1>3, <1>4, <1>5, <1>6, <1>7 DEF c

\* Counting the entries up to an index, when there is no hole.
LEMMA CountFollows ==
    ASSUME NEW l \in Seq(Entry), NEW p \in Int, NEW i \in Int, i >= p, Follows(l, p)
    PROVE  CountUpTo(l, i) = Smaller(i - p, Len(l))
<1> DEFINE c == Smaller(i - p, Len(l))
<1>1. Len(l) \in Nat
  BY LenProperties
<1>2. c \in Nat /\ c <= Len(l) /\ c <= i - p /\ (c = Len(l) \/ c = i - p)
  BY <1>1 DEF Smaller
<1> HIDE DEF c
<1>3. {k \in 1..Len(l) : l[k].index <= i} = 1..c
  <2>1. \A k \in 1..Len(l) : l[k].index <= i <=> p + k <= i
    BY DEF Follows
  <2>2. \A k \in 1..Len(l) : p + k <= i <=> k <= c
    BY <1>1, <1>2
  <2>3. \A k : k \in 1..c <=> k \in 1..Len(l) /\ k <= c
    BY <1>1, <1>2
  <2> QED BY <2>1, <2>2, <2>3
<1>4. Cardinality(1..c) = IF 1 > c THEN 0 ELSE c - 1 + 1
  <2>1. 1 \in Int /\ c \in Int
    BY <1>2
  <2> QED BY <2>1, FS_Interval
<1>5. CountUpTo(l, i) = c
  <2>1. CountUpTo(l, i) = Cardinality(1..c)
    BY <1>3 DEF CountUpTo
  <2> QED BY <1>2, <1>4, <2>1
<1> QED BY <1>5 DEF c

\* A prefix of a log without holes has none.
LEMMA UpToFollows ==
    ASSUME NEW l \in Seq(Entry), NEW i \in Int, NEW p \in Int, Follows(l, p)
    PROVE  Follows(UpTo(l, i), p)
<1> DEFINE c == CountUpTo(l, i)
<1>1. Len(l) \in Nat
  BY LenProperties
<1>2. /\ c \in 0..Len(l) /\ Len(UpTo(l, i)) = c
      /\ \A k \in 1..c : UpTo(l, i)[k] = l[k]
  BY CutEntries
<1> HIDE DEF c
<1>3. \A k \in 1..c : k \in 1..Len(l)
  BY <1>1, <1>2
<1> QED BY <1>2, <1>3 DEF Follows

\* The entries above an index that the log reaches follow that index.
LEMMA AboveFollows ==
    ASSUME NEW l \in Seq(Entry), NEW p \in Int, NEW i \in Int, i >= p, Follows(l, p)
    PROVE  Follows(Above(l, i), i)
<1> DEFINE c == CountUpTo(l, i)
<1>1. Len(l) \in Nat
  BY LenProperties
<1>2. c \in Nat /\ (c = Len(l) \/ c = i - p)
  <2>1. c = Smaller(i - p, Len(l))
    BY CountFollows
  <2>2. c \in 0..Len(l)
    BY CutEntries
  <2> HIDE DEF c
  <2> QED BY <1>1, <2>1, <2>2 DEF Smaller
<1>3. /\ Len(Above(l, i)) = Len(l) - c
      /\ \A k \in 1..Len(l) - c : Above(l, i)[k] = l[c + k]
  BY CutEntries
<1> HIDE DEF c
<1>4. \A k \in 1..Len(l) - c : c + k \in 1..Len(l) /\ l[c + k].index = p + (c + k)
  BY <1>1, <1>2 DEF Follows
<1>5. \A k \in 1..Len(l) - c : p + (c + k) = i + k
  BY <1>1, <1>2
<1>6. \A k \in 1..Len(l) - c : Above(l, i)[k].index = i + k
  BY <1>3, <1>4, <1>5
<1> QED BY <1>3, <1>6 DEF Follows

\* The end of a log without holes.
LEMMA LastFollows ==
    ASSUME NEW l \in Seq(Entry), Follows(l, 0)
    PROVE  LastIndex(l) = Len(l) /\ Len(l) \in Nat
<1>1. Len(l) \in Nat /\ Len(<<>>) = 0
  BY LenProperties, EmptySeq
<1>2. l # <<>> => Len(l) \in 1..Len(l)
  BY EmptySeq, LenProperties
<1> QED BY <1>1, <1>2 DEF LastIndex, Follows

\* A follower appends the new part of a request without leaving a hole.
LEMMA AppendFollows ==
    ASSUME NEW l \in Seq(Entry), NEW new \in Seq(Entry), NEW p \in Nat,
           Follows(l, 0), Follows(new, p), p <= LastIndex(l)
    PROVE  /\ AppendNew(l, new) \in Seq(Entry)
           /\ Follows(AppendNew(l, new), 0)
           /\ \A k \in 1..Len(AppendNew(l, new)) :
                 \/ \E j \in 1..Len(l) : AppendNew(l, new)[k] = l[j]
                 \/ \E j \in 1..Len(new) : AppendNew(l, new)[k] = new[j]
<1> DEFINE a == Above(new, Len(l))
           c == CountUpTo(new, Len(l))
<1>1. LastIndex(l) = Len(l) /\ Len(l) \in Nat /\ Len(l) \in Int
  BY LastFollows
<1>2. Len(l) >= p /\ p \in Int
  BY <1>1
<1>3. Follows(a, Len(l))
  BY <1>1, <1>2, AboveFollows
<1>4. /\ c \in 0..Len(new) /\ a \in Seq(Entry) /\ Len(a) = Len(new) - c
      /\ \A k \in 1..Len(new) - c : a[k] = new[c + k]
  BY <1>1, CutEntries
<1>5. Len(new) \in Nat /\ Len(a) \in Nat
  BY <1>4, LenProperties
<1> HIDE DEF a, c
<1>6. /\ l \o a \in Seq(Entry) /\ Len(l \o a) = Len(l) + Len(a)
      /\ \A k \in 1..Len(l) + Len(a) : (l \o a)[k] = IF k <= Len(l) THEN l[k] ELSE a[k - Len(l)]
  BY <1>4, ConcatProperties
<1>7. AppendNew(l, new) = l \o a
  BY <1>1 DEF AppendNew, a
<1>8. \A k \in 1..Len(l) + Len(a) : ~ (k <= Len(l)) => k - Len(l) \in 1..Len(a)
  BY <1>1, <1>5
<1>9. Follows(l \o a, 0)
  BY <1>1, <1>3, <1>5, <1>6, <1>8 DEF Follows
<1>10. \A k \in 1..Len(a) : \E j \in 1..Len(new) : a[k] = new[j]
  <2>1. \A k \in 1..Len(a) : c + k \in 1..Len(new) /\ a[k] = new[c + k]
    BY <1>4, <1>5
  <2> QED BY <2>1
<1>11. ASSUME NEW k \in 1..Len(l \o a)
       PROVE  \/ \E j \in 1..Len(l) : (l \o a)[k] = l[j]
              \/ \E j \in 1..Len(new) : (l \o a)[k] = new[j]
  <2>1. CASE k <= Len(l)
    BY <1>1, <1>5, <1>6, <2>1
  <2>2. CASE ~ (k <= Len(l))
    <3>1. k - Len(l) \in 1..Len(a) /\ (l \o a)[k] = a[k - Len(l)]
      BY <1>6, <1>8, <2>2
    <3> QED BY <1>10, <3>1
  <2> QED BY <2>1, <2>2
<1> QED BY <1>6, <1>7, <1>9, <1>11

-----------------------------------------------------------------------------
(* Where the entries of a request come from.                               *)

\* The entries of m, if it has any, are those of a request already sent or the
\* end of a log.
Kept(m) ==
    m.type = "AppendEntries" =>
        \/ \E k \in Appends : m.entries = k.entries /\ m.prevIndex = k.prevIndex
        \/ \E n \in Nodes : m.entries = Above(log[n], m.prevIndex)

LEMMA SentKept == \A m \in requests : Kept(m)
  BY DEF Kept, Appends

\* So are those of a request whose caller is gone.
LEMMA LateKept ==
    ASSUME requests \in SUBSET Requests, NEW m \in requests
    PROVE  Kept([m EXCEPT !.live = FALSE])
<1> DEFINE late == [m EXCEPT !.live = FALSE]
<1>1. CASE m \in VoteRequest
  <2>1. late.type = "RequestVote"
    BY <1>1 DEF VoteRequest
  <2> QED BY <2>1 DEF Kept
<1>2. CASE m \in AppendRequest
  <2>1. m.type = "AppendEntries" /\ late.entries = m.entries /\ late.prevIndex = m.prevIndex
    BY <1>2 DEF AppendRequest
  <2> QED BY <2>1 DEF Kept, Appends
<1> QED BY <1>1, <1>2 DEF Requests

LEMMA AbandonedKept ==
    ASSUME requests \in SUBSET Requests, NEW n, NEW p, NEW type, NEW sent \in Abandoned(n, p, type)
    PROVE  \A m \in sent : Kept(m)
<1>1. \A m \in sent : m \in requests \/ \E k \in requests : m = [k EXCEPT !.live = FALSE]
  BY DEF Abandoned
<1> QED BY <1>1, SentKept, LateKept

\* A turn of SendHeartbeats sends the end of the log.
LEMMA RoundKept ==
    ASSUME NEW n \in Nodes, NEW todo, NEW sent, \A m \in sent : Kept(m),
           ContinueRound(n, todo, sent)
    PROVE  \A m \in requests' : Kept(m)
<1>1. ASSUME NEW p PROVE Kept(AppendMessage(n, p))
  <2>1. AppendMessage(n, p).entries = Above(log[n], AppendMessage(n, p).prevIndex)
    BY DEF AppendMessage
  <2> QED BY <2>1 DEF Kept
<1>2. requests' = sent \/ \E p \in todo : requests' = sent \cup {AppendMessage(n, p)}
  BY DEF ContinueRound
<1> QED BY <1>1, <1>2

\* A turn of StartElection sends no entries.
LEMMA BallotKept ==
    ASSUME NEW n, NEW b, NEW sent, \A m \in sent : Kept(m), ContinueBallot(n, b, sent)
    PROVE  \A m \in requests' : Kept(m)
<1>1. requests' = sent \/ \E m : m.type = "RequestVote" /\ requests' = sent \cup {m}
  <2>1. \A p : [type |-> "RequestVote", src |-> n, dst |-> p, live |-> TRUE, term |-> b.term,
                lastTerm |-> b.lastTerm, lastIndex |-> b.lastIndex].type = "RequestVote"
    OBVIOUS
  <2> QED BY <2>1 DEF ContinueBallot
<1> QED BY <1>1 DEF Kept

\* No step makes entries up: a request carries what was sent before or the end
\* of a log.
LEMMA RequestsKept ==
    ASSUME TypeOK, Next
    PROVE  \A m \in requests' : Kept(m)
<1>0. requests \in SUBSET Requests /\ \A m \in requests : Kept(m)
  BY SentKept DEF TypeOK, Requests
<1>1. CASE requests' \subseteq requests
  BY <1>0, <1>1
<1>2. ASSUME NEW n \in Nodes,
             StartElection(n) \/ RequestVoteTimeout(n) \/ ResumeElection(n)
      PROVE  \A m \in requests' : Kept(m)
  <2>1. \E b : ContinueBallot(n, b, requests)
               \/ \E sent \in Abandoned(n, ballot[n].wait, "RequestVote") : ContinueBallot(n, b, sent)
    BY <1>2 DEF StartElection, RequestVoteTimeout, ResumeElection
  <2> QED BY <1>0, <2>1, AbandonedKept, BallotKept
<1>3. ASSUME NEW n \in Nodes, BecomeLeader(n)
      PROVE  \A m \in requests' : Kept(m)
  <2>1. ContinueRound(n, Peers(n), requests)
    BY <1>3 DEF BecomeLeader
  <2> QED BY <1>0, <2>1, RoundKept
<1>4. ASSUME NEW n \in Nodes, NEW r \in replies, HandleRequestVoteResponse(n, r)
      PROVE  \A m \in requests' : Kept(m)
  <2>1. ContinueBallot(n, ballot[n], requests) \/ BecomeLeader(n)
    BY <1>4 DEF HandleRequestVoteResponse
  <2> QED BY <1>0, <1>3, <2>1, BallotKept
<1>5. ASSUME NEW n \in Nodes, FinishElection(n)
      PROVE  \A m \in requests' : Kept(m)
  <2>1. requests' = requests \/ BecomeLeader(n)
    BY <1>5 DEF FinishElection
  <2> QED BY <1>0, <1>3, <2>1
<1>6. ASSUME NEW n \in Nodes, NEW m \in requests,
             HandleRequestVote(n, m) \/ HandleAppendEntries(n, m)
      PROVE  \A k \in requests' : Kept(k)
  <2>1. requests' = requests \ {m}
    BY <1>6 DEF HandleRequestVote, HandleAppendEntries, Answer
  <2> QED BY <1>1, <2>1
<1>7. ASSUME NEW n \in Nodes, HeartbeatTimeout(n)
      PROVE  \A m \in requests' : Kept(m)
  <2>1. ContinueRound(n, Peers(n), requests)
    BY <1>7 DEF HeartbeatTimeout
  <2> QED BY <1>0, <2>1, RoundKept
<1>8. ASSUME NEW n \in Nodes, AppendEntriesTimeout(n)
      PROVE  \A m \in requests' : Kept(m)
  <2>1. PICK sent \in Abandoned(n, round[n].wait, "AppendEntries") :
           ContinueRound(n, round[n].todo, sent)
    BY <1>8 DEF AppendEntriesTimeout
  <2>2. \A m \in sent : Kept(m)
    BY <1>0, AbandonedKept
  <2> QED BY <2>1, <2>2, RoundKept
<1>9. ASSUME NEW n \in Nodes, NEW r \in replies, HandleAppendEntriesResponse(n, r)
      PROVE  \A m \in requests' : Kept(m)
  <2>1. ContinueRound(n, round[n].todo, requests)
    BY <1>9 DEF HandleAppendEntriesResponse
  <2> QED BY <1>0, <2>1, RoundKept
<1>10. ASSUME NEW n \in Nodes, Restart(n)
       PROVE  \A m \in requests' : Kept(m)
  <2>1. \A m \in requests' : m \in requests \/ \E k \in requests : m = [k EXCEPT !.live = FALSE]
    BY <1>10 DEF Restart, StartFrom
  <2> QED BY <1>0, <2>1, LateKept
<1>11. ASSUME NEW n \in Nodes, NEW v \in Commands, ProposeSend(n, v)
       PROVE  \A m \in requests' : Kept(m)
  <2>1. ContinueRound(n, Peers(n), requests) \/ requests' = requests
    BY <1>11 DEF ProposeSend
  <2> QED BY <1>0, <2>1, RoundKept
<1>12. ASSUME NEW n \in Nodes, NEW v \in Commands,
              \/ Propose(n, v) \/ ProposeAdvance(n, v)
              \/ ProposeCheck(n, v) \/ ProposeTimeout(n, v)
       PROVE  \A m \in requests' : Kept(m)
  BY <1>1, <1>12 DEF Propose, ProposeAdvance, ProposeCheck, ProposeTimeout, netVars
<1>13. ASSUME NEW n \in Nodes,
              \/ BecomeCandidate(n) \/ SnapshotDecide(n) \/ SnapshotCapture(n)
              \/ SnapshotPublish(n) \/ SnapshotTrim(n)
       PROVE  \A m \in requests' : Kept(m)
  BY <1>1, <1>13 DEF BecomeCandidate, SnapshotDecide, SnapshotCapture, SnapshotPublish,
                     SnapshotTrim, netVars
<1> QED BY <1>2, <1>4, <1>5, <1>6, <1>7, <1>8, <1>9, <1>10, <1>11, <1>12, <1>13 DEF Next
-----------------------------------------------------------------------------
(* What a step does to roles and logs.                                     *)

\* Where an entry is.
LEMMA EntryWhere ==
    ASSUME NEW e
    PROVE  e \in Entries <=> \/ \E n \in Nodes : \E k \in 1..Len(log[n]) : e = log[n][k]
                             \/ \E m \in Appends : \E k \in 1..Len(m.entries) : e = m.entries[k]
<1> DEFINE held == UNION {{log[n][k] : k \in 1..Len(log[n])} : n \in Nodes}
           sent == UNION {{m.entries[k] : k \in 1..Len(m.entries)} : m \in Appends}
<1>1. e \in held <=> \E n \in Nodes : \E k \in 1..Len(log[n]) : e = log[n][k]
  OBVIOUS
<1>2. e \in sent <=> \E m \in Appends : \E k \in 1..Len(m.entries) : e = m.entries[k]
  OBVIOUS
<1>3. Entries = held \cup sent
  BY DEF Entries
<1> HIDE DEF held, sent
<1> QED BY <1>1, <1>2, <1>3

LEMMA EntryWhereNext ==
    ASSUME NEW e
    PROVE  e \in Entries' <=> \/ \E n \in Nodes : \E k \in 1..Len(log'[n]) : e = log'[n][k]
                              \/ \E m \in Appends' : \E k \in 1..Len(m.entries) : e = m.entries[k]
<1> DEFINE held == UNION {{log'[n][k] : k \in 1..Len(log'[n])} : n \in Nodes}
           sent == UNION {{m.entries[k] : k \in 1..Len(m.entries)} : m \in Appends'}
<1>1. e \in held <=> \E n \in Nodes : \E k \in 1..Len(log'[n]) : e = log'[n][k]
  OBVIOUS
<1>2. e \in sent <=> \E m \in Appends' : \E k \in 1..Len(m.entries) : e = m.entries[k]
  OBVIOUS
<1>3. Entries' = held \cup sent
  BY DEF Entries
<1> HIDE DEF held, sent
<1> QED BY <1>1, <1>2, <1>3

\* A node becomes a candidate only in a new term and a leader only from
\* candidate, in the term it is in; who is elected is recorded.
RoleStep ==
    /\ elected \subseteq elected'
    /\ \A l \in elected' : l \in elected
                           \/ (l.term = currentTerm'[l.node] /\ state'[l.node] = "LEADER")
    /\ \A p \in Nodes : state'[p] = "CANDIDATE" =>
          \/ state[p] = "CANDIDATE" /\ currentTerm'[p] = currentTerm[p]
          \/ currentTerm'[p] > currentTerm[p]
    /\ \A p \in Nodes : state'[p] = "LEADER" =>
          /\ currentTerm'[p] = currentTerm[p]
          /\ \/ state[p] = "LEADER"
             \/ state[p] = "CANDIDATE" /\ [node |-> p, term |-> currentTerm[p]] \in elected'

LEMMA RolesStep ==
    ASSUME TypeOK, Next
    PROVE  RoleStep
<1>0. /\ currentTerm \in [Nodes -> Nat]
      /\ state \in [Nodes -> {"FOLLOWER", "CANDIDATE", "LEADER"}]
  BY DEF TypeOK
<1>1. CASE UNCHANGED <<currentTerm, state, elected>>
  BY <1>0, <1>1 DEF RoleStep
\* A node that becomes, or stays, a follower.
<1>2. ASSUME NEW n \in Nodes, UNCHANGED elected,
             \A p \in Nodes : p # n => state'[p] = state[p] /\ currentTerm'[p] = currentTerm[p],
             state'[n] = "FOLLOWER"
      PROVE  RoleStep
  BY <1>0, <1>2 DEF RoleStep
<1>3. ASSUME NEW n \in Nodes, BecomeCandidate(n) PROVE RoleStep
  <2>1. /\ state' = [state EXCEPT ![n] = "CANDIDATE"] /\ elected' = elected
        /\ currentTerm' = [currentTerm EXCEPT ![n] = @ + 1]
    BY <1>3 DEF BecomeCandidate
  <2>2. /\ state'[n] = "CANDIDATE" /\ currentTerm'[n] > currentTerm[n]
        /\ \A p \in Nodes : p # n => state'[p] = state[p] /\ currentTerm'[p] = currentTerm[p]
    BY <1>0, <2>1
  <2> QED BY <2>1, <2>2 DEF RoleStep
<1>4. ASSUME NEW n \in Nodes, BecomeLeader(n), state[n] = "CANDIDATE" PROVE RoleStep
  <2>0. PICK e : e = [node |-> n, term |-> currentTerm[n]]
    OBVIOUS
  <2>1. /\ state' = [state EXCEPT ![n] = "LEADER"] /\ elected' = elected \cup {e}
        /\ currentTerm' = currentTerm
    BY <1>4, <2>0 DEF BecomeLeader
  <2>2. /\ state'[n] = "LEADER"
        /\ \A p \in Nodes : p # n => state'[p] = state[p]
    BY <1>0, <2>1
  <2>3. e.node = n /\ e.term = currentTerm[n]
    BY <2>0
  <2> QED BY <1>4, <2>0, <2>1, <2>2, <2>3 DEF RoleStep
<1>5. ASSUME NEW n \in Nodes, NEW t, StepDown(n, t), UNCHANGED elected PROVE RoleStep
  <2>1. /\ state'[n] = "FOLLOWER"
        /\ \A p \in Nodes : p # n => state'[p] = state[p] /\ currentTerm'[p] = currentTerm[p]
    BY <1>0, <1>5 DEF StepDown
  <2> QED BY <1>2, <1>5, <2>1
<1>6. ASSUME NEW n \in Nodes, NEW r \in replies, HandleRequestVoteResponse(n, r)
      PROVE  RoleStep
  <2>1. \/ StepDown(n, r.term) /\ elected' = elected
        \/ UNCHANGED <<currentTerm, state, elected>>
        \/ state[n] = "CANDIDATE" /\ BecomeLeader(n)
    BY <1>6 DEF HandleRequestVoteResponse, VoteCounts, electVars
  <2> QED BY <1>1, <1>4, <1>5, <2>1
<1>7. ASSUME NEW n \in Nodes, FinishElection(n) PROVE RoleStep
  <2>1. \/ UNCHANGED <<currentTerm, state, elected>>
        \/ state[n] = "CANDIDATE" /\ BecomeLeader(n)
    BY <1>7 DEF FinishElection, diskVars
  <2> QED BY <1>1, <1>4, <2>1
<1>8. ASSUME NEW n \in Nodes, NEW m \in requests, HandleRequestVote(n, m) PROVE RoleStep
  <2>1. elected' = elected
    BY <1>8 DEF HandleRequestVote
  <2>2. CASE m.term > currentTerm[n]
    <3>1. /\ state'[n] = "FOLLOWER"
          /\ \A p \in Nodes : p # n => state'[p] = state[p] /\ currentTerm'[p] = currentTerm[p]
      BY <1>0, <1>8, <2>2 DEF HandleRequestVote
    <3> QED BY <1>2, <2>1, <3>1
  <2>3. CASE ~ (m.term > currentTerm[n])
    <3>1. \A p \in Nodes : state'[p] = state[p] /\ currentTerm'[p] = currentTerm[p]
      BY <1>0, <1>8, <2>3 DEF HandleRequestVote
    <3> QED BY <2>1, <3>1 DEF RoleStep
  <2> QED BY <2>2, <2>3
<1>9. ASSUME NEW n \in Nodes, NEW m \in requests, HandleAppendEntries(n, m) PROVE RoleStep
  <2>1. elected' = elected
    BY <1>9 DEF HandleAppendEntries, historyVars
  <2>2. \/ UNCHANGED <<currentTerm, state>>
        \/ /\ state' = [state EXCEPT ![n] = "FOLLOWER"]
           /\ currentTerm' = [currentTerm EXCEPT ![n] = m.term]
    BY <1>9 DEF HandleAppendEntries, diskVars
  <2>3. CASE state' = [state EXCEPT ![n] = "FOLLOWER"]
             /\ currentTerm' = [currentTerm EXCEPT ![n] = m.term]
    BY <1>0, <1>2, <2>1, <2>3
  <2> QED BY <1>1, <2>1, <2>2, <2>3
<1>10. ASSUME NEW n \in Nodes, NEW r \in replies, HandleAppendEntriesResponse(n, r)
       PROVE  RoleStep
  <2>1. elected' = elected /\ (StepDown(n, r.term) \/ UNCHANGED <<currentTerm, state>>)
    BY <1>10 DEF HandleAppendEntriesResponse, historyVars
  <2> QED BY <1>1, <1>5, <2>1
<1>11. ASSUME NEW n \in Nodes, Restart(n) PROVE RoleStep
  <2>1. /\ state' = [state EXCEPT ![n] = "FOLLOWER"] /\ elected' = elected
        /\ currentTerm' = [currentTerm EXCEPT ![n] = currentTerm[n]]
    BY <1>11 DEF Restart, StartFrom
  <2> QED BY <1>0, <1>2, <2>1
<1>12. ASSUME NEW n \in Nodes,
              \/ StartElection(n) \/ RequestVoteTimeout(n) \/ ResumeElection(n)
              \/ HeartbeatTimeout(n) \/ AppendEntriesTimeout(n)
              \/ SnapshotDecide(n) \/ SnapshotCapture(n)
              \/ SnapshotPublish(n) \/ SnapshotTrim(n)
       PROVE  RoleStep
  BY <1>1, <1>12 DEF StartElection, RequestVoteTimeout, ResumeElection,
       HeartbeatTimeout, AppendEntriesTimeout, SnapshotDecide, SnapshotCapture,
       SnapshotPublish, SnapshotTrim, diskVars, electVars, historyVars
<1>13. ASSUME NEW n \in Nodes, NEW v \in Commands,
              \/ Propose(n, v) \/ ProposeAdvance(n, v) \/ ProposeSend(n, v)
              \/ ProposeCheck(n, v) \/ ProposeTimeout(n, v)
       PROVE  RoleStep
  BY <1>1, <1>13 DEF Propose, ProposeAdvance, ProposeSend, ProposeCheck, ProposeTimeout,
       diskVars, electVars, historyVars
<1> QED BY <1>3, <1>6, <1>7, <1>8, <1>9, <1>10, <1>11, <1>12, <1>13 DEF Next

\* Until the first snapshot only AppendEntries and Propose change a log.
LEMMA LogsStep ==
    ASSUME TypeOK, NoneTaken, Next
    PROVE  \/ log' = log
           \/ \E n \in Nodes, m \in requests : HandleAppendEntries(n, m)
           \/ \E n \in Nodes, v \in Commands : Propose(n, v)
<1>1. ASSUME NEW n \in Nodes, Restart(n) PROVE log' = log
  BY <1>1 DEF Restart, StartFrom, TypeOK
<1>2. ASSUME NEW n \in Nodes PROVE ~ SnapshotTrim(n)
  BY DEF NoneTaken, SnapshotTrim
<1>3. ASSUME NEW n \in Nodes,
             \/ BecomeCandidate(n) \/ FinishElection(n)
             \/ StartElection(n) \/ RequestVoteTimeout(n) \/ ResumeElection(n)
             \/ HeartbeatTimeout(n) \/ AppendEntriesTimeout(n)
             \/ SnapshotDecide(n) \/ SnapshotCapture(n) \/ SnapshotPublish(n)
      PROVE  log' = log
  BY <1>3 DEF BecomeCandidate, FinishElection, StartElection, RequestVoteTimeout, ResumeElection,
       HeartbeatTimeout, AppendEntriesTimeout, SnapshotDecide, SnapshotCapture,
       SnapshotPublish, diskVars
<1>4. ASSUME NEW n \in Nodes, NEW r \in replies,
             HandleRequestVoteResponse(n, r) \/ HandleAppendEntriesResponse(n, r)
      PROVE  log' = log
  BY <1>4 DEF HandleRequestVoteResponse, HandleAppendEntriesResponse
<1>5. ASSUME NEW n \in Nodes, NEW m \in requests, HandleRequestVote(n, m) PROVE log' = log
  BY <1>5 DEF HandleRequestVote
<1>6. ASSUME NEW n \in Nodes, NEW v \in Commands,
             \/ ProposeAdvance(n, v) \/ ProposeSend(n, v)
             \/ ProposeCheck(n, v) \/ ProposeTimeout(n, v)
      PROVE  log' = log
  BY <1>6 DEF ProposeAdvance, ProposeSend, ProposeCheck, ProposeTimeout, diskVars
<1> QED BY <1>1, <1>2, <1>3, <1>4, <1>5, <1>6 DEF Next

\* A follower's log after AppendEntries: entries it had or was sent, and no hole.
LEMMA AppendLog ==
    ASSUME TypeOK, LogInv, NEW n \in Nodes, NEW m \in requests, HandleAppendEntries(n, m)
    PROVE  /\ \A p \in Nodes : p # n => log'[p] = log[p]
           /\ Follows(log'[n], 0)
           /\ \A k \in 1..Len(log'[n]) : log'[n][k] \in Entries
           /\ state'[n] = "LEADER" => log'[n] = log[n]
<1>0. /\ log \in [Nodes -> Seq(Entry)] /\ log[n] \in Seq(Entry)
      /\ Follows(log[n], 0)
      /\ state \in [Nodes -> {"FOLLOWER", "CANDIDATE", "LEADER"}]
  <2>1. /\ log \in [Nodes -> Seq(Entry)]
        /\ state \in [Nodes -> {"FOLLOWER", "CANDIDATE", "LEADER"}]
    BY DEF TypeOK
  <2>2. log[n] \in Seq(Entry)
    BY <2>1
  <2>3. Follows(log[n], 0)
    BY <2>2 DEF LogInv, LogContiguous, Follows
  <2> QED BY <2>1, <2>2, <2>3
<1>1. m \in Appends /\ m \in AppendRequest
  <2>1. m.type = "AppendEntries"
    BY DEF HandleAppendEntries
  <2>2. m \in VoteRequest \cup AppendRequest
    BY DEF TypeOK
  <2>3. m \notin VoteRequest
    BY <2>1 DEF VoteRequest
  <2> QED BY <2>1, <2>2, <2>3 DEF Appends
<1>2. m.entries \in Seq(Entry) /\ m.prevIndex \in Nat /\ Follows(m.entries, m.prevIndex)
  <2>1. m.entries \in Seq(Entry) /\ m.prevIndex \in Nat
    BY <1>1 DEF AppendRequest
  <2>2. \A k \in 1..Len(m.entries) : m.entries[k].index = m.prevIndex + k
    BY <1>1 DEF LogInv, RequestsContiguous
  <2> QED BY <2>1, <2>2 DEF Follows
<1>3. \A k \in 1..Len(log[n]) : log[n][k] \in Entries
  BY EntryWhere
<1>4. \A k \in 1..Len(m.entries) : m.entries[k] \in Entries
  BY <1>1, EntryWhere
<1>5. CASE log' = log
  BY <1>0, <1>3, <1>5
<1>6. ASSUME NEW l, log' = [log EXCEPT ![n] = l], state' = [state EXCEPT ![n] = "FOLLOWER"],
             Follows(l, 0), \A k \in 1..Len(l) : l[k] \in Entries
      PROVE  /\ \A p \in Nodes : p # n => log'[p] = log[p]
             /\ Follows(log'[n], 0)
             /\ \A k \in 1..Len(log'[n]) : log'[n][k] \in Entries
             /\ state'[n] = "LEADER" => log'[n] = log[n]
  BY <1>0, <1>6
<1>7. \/ log' = log
      \/ /\ state' = [state EXCEPT ![n] = "FOLLOWER"]
         /\ log' = [log EXCEPT ![n] = UpTo(log[n], m.prevIndex - 1)]
      \/ /\ state' = [state EXCEPT ![n] = "FOLLOWER"]
         /\ ~ PrevMissing(n, m)
         /\ log' = [log EXCEPT ![n] = AppendNew(log[n], m.entries)]
  BY DEF HandleAppendEntries, diskVars
<1>8. CASE /\ state' = [state EXCEPT ![n] = "FOLLOWER"]
           /\ log' = [log EXCEPT ![n] = UpTo(log[n], m.prevIndex - 1)]
  <2> DEFINE i == m.prevIndex - 1
             l == UpTo(log[n], i)
             c == CountUpTo(log[n], i)
  <2>1. i \in Int
    BY <1>2
  <2> HIDE DEF i
  <2>2. Follows(l, 0)
    BY <1>0, <2>1, UpToFollows
  <2>3. c \in 0..Len(log[n]) /\ Len(l) = c /\ \A k \in 1..c : l[k] = log[n][k]
    BY <1>0, <2>1, CutEntries
  <2>4. Len(log[n]) \in Nat
    BY <1>0, LenProperties
  <2>5. log' = [log EXCEPT ![n] = l]
    BY <1>8 DEF i
  <2> HIDE DEF l, c
  <2>6. \A k \in 1..Len(l) : k \in 1..Len(log[n]) /\ l[k] = log[n][k]
    BY <2>3, <2>4
  <2>7. \A k \in 1..Len(l) : l[k] \in Entries
    BY <1>3, <2>6
  <2> QED BY <1>6, <1>8, <2>2, <2>5, <2>7
<1>9. CASE /\ state' = [state EXCEPT ![n] = "FOLLOWER"]
           /\ ~ PrevMissing(n, m)
           /\ log' = [log EXCEPT ![n] = AppendNew(log[n], m.entries)]
  <2> DEFINE l == AppendNew(log[n], m.entries)
  <2>1. LastIndex(log[n]) \in Nat
    BY <1>0, LogReads
  <2>2. m.prevIndex <= LastIndex(log[n])
    BY <1>2, <1>9, <2>1 DEF PrevMissing
  <2>3. /\ Follows(l, 0)
        /\ \A k \in 1..Len(l) : \/ \E j \in 1..Len(log[n]) : l[k] = log[n][j]
                                \/ \E j \in 1..Len(m.entries) : l[k] = m.entries[j]
    BY <1>0, <1>2, <2>2, AppendFollows
  <2>4. log' = [log EXCEPT ![n] = l]
    BY <1>9
  <2> HIDE DEF l
  <2>5. \A k \in 1..Len(l) : l[k] \in Entries
    BY <1>3, <1>4, <2>3
  <2> QED BY <1>6, <1>9, <2>3, <2>4, <2>5
<1> QED BY <1>5, <1>7, <1>8, <1>9
\* Propose adds one entry, after the end of the leader's log.
LEMMA ProposeLog ==
    ASSUME TypeOK, LogInv, NEW n \in Nodes, NEW v \in Commands, Propose(n, v)
    PROVE  \E e \in Entry :
              /\ e.term = currentTerm[n] /\ e.index = Len(log[n]) + 1 /\ e.cmd = v
              /\ log' = [log EXCEPT ![n] = Append(log[n], e)]
              /\ \A p \in Nodes : p # n => log'[p] = log[p]
              /\ log[n] \in Seq(Entry) /\ log'[n] \in Seq(Entry)
              /\ Len(log[n]) \in Nat /\ Len(log'[n]) = Len(log[n]) + 1
              /\ log'[n][Len(log[n]) + 1] = e
              /\ \A k \in 1..Len(log[n]) : log'[n][k] = log[n][k]
              /\ Follows(log'[n], 0)
<1>0. log \in [Nodes -> Seq(Entry)] /\ log[n] \in Seq(Entry) /\ currentTerm[n] \in Nat
  BY DEF TypeOK
<1>1. Follows(log[n], 0)
  BY DEF LogInv, LogContiguous, Follows
<1>2. LastIndex(log[n]) = Len(log[n]) /\ Len(log[n]) \in Nat
  BY <1>0, <1>1, LastFollows
<1>3. PICK e : e = [term |-> currentTerm[n], index |-> Len(log[n]) + 1, cmd |-> v]
  OBVIOUS
<1>4. e \in Entry /\ e.term = currentTerm[n] /\ e.index = Len(log[n]) + 1 /\ e.cmd = v
  BY <1>0, <1>2, <1>3 DEF Entry
<1>5. log' = [log EXCEPT ![n] = Append(log[n], e)]
  BY <1>2, <1>3 DEF Propose
<1>6. log'[n] = Append(log[n], e) /\ \A p \in Nodes : p # n => log'[p] = log[p]
  BY <1>0, <1>5
<1>7. /\ Append(log[n], e) \in Seq(Entry) /\ Len(Append(log[n], e)) = Len(log[n]) + 1
      /\ \A k \in 1..Len(log[n]) : Append(log[n], e)[k] = log[n][k]
      /\ Append(log[n], e)[Len(log[n]) + 1] = e
  <2> HIDE DEF Entry
  <2> QED BY <1>0, <1>4, AppendProperties
<1>8. Follows(log'[n], 0)
  <2>1. \A k \in 1..Len(log[n]) + 1 : k \in 1..Len(log[n]) \/ k = Len(log[n]) + 1
    BY <1>2
  <2> QED BY <1>1, <1>2, <1>4, <1>6, <1>7, <2>1 DEF Follows
<1> QED BY <1>0, <1>2, <1>4, <1>5, <1>6, <1>7, <1>8

-----------------------------------------------------------------------------
(* No log has a hole.                                                      *)

LEMMA NoneTakenStep ==
    ASSUME TypeOK, NoneTaken, Next, snapshots = 0, snapshots' = 0
    PROVE  NoneTaken'
<1>0. taking \in [Nodes -> [pc : {"idle", "decided", "captured", "published"}, snap : Snapshot]]
  BY DEF TypeOK
<1>1. CASE taking' = taking
  BY <1>1 DEF NoneTaken
<1>2. ASSUME NEW n \in Nodes, taking' = [taking EXCEPT ![n] = IdleTaking] PROVE NoneTaken'
  BY <1>0, <1>2 DEF NoneTaken, IdleTaking
<1>3. ASSUME NEW n \in Nodes, SnapshotDecide(n) PROVE NoneTaken'
  <2>1. taking' = [taking EXCEPT ![n].pc = "decided"]
    BY <1>3 DEF SnapshotDecide
  <2> QED BY <1>0, <2>1 DEF NoneTaken
<1>4. ASSUME NEW n \in Nodes, SnapshotCapture(n) PROVE NoneTaken'
  <2>1. taking' = [taking EXCEPT ![n] = IdleTaking] \/ snapshots' = snapshots + 1
    BY <1>4 DEF SnapshotCapture
  <2> QED BY <1>2, <2>1
<1>5. ASSUME NEW n \in Nodes PROVE ~ SnapshotPublish(n) /\ ~ SnapshotTrim(n)
  BY DEF NoneTaken, SnapshotPublish, SnapshotTrim
<1>6. ASSUME NEW n \in Nodes, Restart(n) PROVE NoneTaken'
  BY <1>2, <1>6 DEF Restart, StartFrom
<1>7. ASSUME NEW n \in Nodes,
             \/ BecomeCandidate(n) \/ FinishElection(n)
             \/ StartElection(n) \/ RequestVoteTimeout(n) \/ ResumeElection(n)
             \/ HeartbeatTimeout(n) \/ AppendEntriesTimeout(n)
      PROVE  taking' = taking
  BY <1>7 DEF BecomeCandidate, FinishElection, StartElection, RequestVoteTimeout, ResumeElection,
       HeartbeatTimeout, AppendEntriesTimeout, snapVars
<1>8. ASSUME NEW n \in Nodes, NEW r \in replies,
             HandleRequestVoteResponse(n, r) \/ HandleAppendEntriesResponse(n, r)
      PROVE  taking' = taking
  BY <1>8 DEF HandleRequestVoteResponse, HandleAppendEntriesResponse, snapVars
<1>9. ASSUME NEW n \in Nodes, NEW m \in requests,
             HandleRequestVote(n, m) \/ HandleAppendEntries(n, m)
      PROVE  taking' = taking
  BY <1>9 DEF HandleRequestVote, HandleAppendEntries, snapVars
<1>10. ASSUME NEW n \in Nodes, NEW v \in Commands,
              \/ Propose(n, v) \/ ProposeAdvance(n, v) \/ ProposeSend(n, v)
              \/ ProposeCheck(n, v) \/ ProposeTimeout(n, v)
       PROVE  taking' = taking
  BY <1>10 DEF Propose, ProposeAdvance, ProposeSend, ProposeCheck, ProposeTimeout, snapVars
<1> QED BY <1>1, <1>3, <1>4, <1>5, <1>6, <1>7, <1>8, <1>9, <1>10 DEF Next

\* What SendHeartbeats takes from a log without holes has none.
LEMMA RequestsStep ==
    ASSUME TypeOK, TypeOK', LogInv, Next
    PROVE  RequestsContiguous'
<1> SUFFICES ASSUME NEW m \in Appends'
             PROVE  Follows(m.entries, m.prevIndex)
  BY DEF RequestsContiguous, Follows
<1>1. m \in requests' /\ m.type = "AppendEntries"
  BY DEF Appends
<1>2. m.prevIndex \in Nat
  <2>1. m \in VoteRequest \cup AppendRequest
    BY <1>1 DEF TypeOK
  <2>2. m \notin VoteRequest
    BY <1>1 DEF VoteRequest
  <2> QED BY <2>1, <2>2 DEF AppendRequest
<1>3. \/ \E k \in Appends : m.entries = k.entries /\ m.prevIndex = k.prevIndex
      \/ \E n \in Nodes : m.entries = Above(log[n], m.prevIndex)
  BY <1>1, RequestsKept DEF Kept
<1>4. CASE \E k \in Appends : m.entries = k.entries /\ m.prevIndex = k.prevIndex
  BY <1>4 DEF LogInv, RequestsContiguous, Follows
<1>5. ASSUME NEW n \in Nodes, m.entries = Above(log[n], m.prevIndex)
      PROVE  Follows(m.entries, m.prevIndex)
  <2>1. log[n] \in Seq(Entry) /\ Follows(log[n], 0)
    BY DEF TypeOK, LogInv, LogContiguous, Follows
  <2>2. m.prevIndex >= 0 /\ m.prevIndex \in Int /\ 0 \in Int
    BY <1>2
  <2>3. Follows(Above(log[n], m.prevIndex), m.prevIndex)
    BY <2>1, <2>2, AboveFollows
  <2> QED BY <1>5, <2>3
<1> QED BY <1>3, <1>4, <1>5

LEMMA LogStep ==
    ASSUME TypeOK, TypeOK', LogInv, Next, snapshots = 0, snapshots' = 0
    PROVE  LogInv'
<1>0. NoneTaken /\ \A n \in Nodes : Follows(log[n], 0)
  BY DEF LogInv, LogContiguous, Follows
<1>1. \A n \in Nodes : Follows(log'[n], 0)
  <2>1. CASE log' = log
    BY <1>0, <2>1
  <2>2. ASSUME NEW n \in Nodes, NEW m \in requests, HandleAppendEntries(n, m)
        PROVE  \A p \in Nodes : Follows(log'[p], 0)
    BY <1>0, <2>2, AppendLog
  <2>3. ASSUME NEW n \in Nodes, NEW v \in Commands, Propose(n, v)
        PROVE  \A p \in Nodes : Follows(log'[p], 0)
    <3>1. /\ \A p \in Nodes : p # n => log'[p] = log[p]
          /\ Follows(log'[n], 0)
      BY <2>3, ProposeLog
    <3> QED BY <1>0, <3>1
  <2> QED BY <1>0, <2>1, <2>2, <2>3, LogsStep
<1>2. LogContiguous'
  BY <1>1 DEF LogContiguous, Follows
<1> QED BY <1>0, <1>2, NoneTakenStep, RequestsStep DEF LogInv

-----------------------------------------------------------------------------
(* One command under a term and an index.                                  *)

\* A request carries no entry that was not in a log or a request before.
LEMMA SentEntries ==
    ASSUME TypeOK, TypeOK', Next, NEW m \in Appends', NEW k \in 1..Len(m.entries)
    PROVE  m.entries[k] \in Entries
<1>1. m \in requests' /\ m.type = "AppendEntries"
  BY DEF Appends
<1>2. m.prevIndex \in Int
  <2>1. m \in VoteRequest \cup AppendRequest
    BY <1>1 DEF TypeOK
  <2>2. m \notin VoteRequest
    BY <1>1 DEF VoteRequest
  <2>3. m.prevIndex \in Nat
    BY <2>1, <2>2 DEF AppendRequest
  <2> QED BY <2>3
<1>3. \/ \E q \in Appends : m.entries = q.entries /\ m.prevIndex = q.prevIndex
      \/ \E n \in Nodes : m.entries = Above(log[n], m.prevIndex)
  BY <1>1, RequestsKept DEF Kept
<1>4. CASE \E q \in Appends : m.entries = q.entries
  BY <1>4, EntryWhere
<1>5. ASSUME NEW n \in Nodes, m.entries = Above(log[n], m.prevIndex)
      PROVE  m.entries[k] \in Entries
  <2> DEFINE c == CountUpTo(log[n], m.prevIndex)
  <2>1. log[n] \in Seq(Entry)
    BY DEF TypeOK
  <2>0. PICK i : i = m.prevIndex
    OBVIOUS
  <2>5. /\ CountUpTo(log[n], i) \in 0..Len(log[n])
        /\ Len(Above(log[n], i)) = Len(log[n]) - CountUpTo(log[n], i)
        /\ \A j \in 1..Len(log[n]) - CountUpTo(log[n], i) :
              Above(log[n], i)[j] = log[n][CountUpTo(log[n], i) + j]
    BY <1>2, <2>0, <2>1, CutEntries
  <2>2. /\ c \in 0..Len(log[n]) /\ Len(m.entries) = Len(log[n]) - c
        /\ \A j \in 1..Len(log[n]) - c : m.entries[j] = log[n][c + j]
    BY <1>5, <2>0, <2>5
  <2>3. Len(log[n]) \in Nat
    BY <2>1, LenProperties
  <2> HIDE DEF c
  <2>4. c + k \in 1..Len(log[n]) /\ m.entries[k] = log[n][c + k]
    BY <2>2, <2>3
  <2> QED BY <2>4, EntryWhere
<1> QED BY <1>3, <1>4, <1>5

\* So every step but Propose leaves the entries as they are, or fewer.
LEMMA EntriesStep ==
    ASSUME TypeOK, TypeOK', Next,
           \A n \in Nodes : \A k \in 1..Len(log'[n]) : log'[n][k] \in Entries
    PROVE  Entries' \subseteq Entries
<1> SUFFICES ASSUME NEW e \in Entries'
             PROVE  e \in Entries
  OBVIOUS
<1>1. CASE \E n \in Nodes : \E k \in 1..Len(log'[n]) : e = log'[n][k]
  BY <1>1
<1>2. ASSUME NEW m \in Appends', NEW k \in 1..Len(m.entries), e = m.entries[k]
      PROVE  e \in Entries
  BY <1>2, SentEntries
<1> QED BY <1>1, <1>2, EntryWhereNext

\* ElectedBefore from the roles alone.
LEMMA ElectedBeforeStep ==
    ASSUME TypeOK, TypeOK', ElectedBefore, RoleStep, VoteStays
    PROVE  ElectedBefore'
<1> SUFFICES ASSUME NEW l \in elected'
             PROVE  /\ l.term <= currentTerm'[l.node]
                    /\ state'[l.node] = "CANDIDATE" => l.term < currentTerm'[l.node]
  BY DEF ElectedBefore
<1>1. l.node \in Nodes /\ l.term \in Nat
  BY DEF TypeOK
<1>2. /\ currentTerm[l.node] \in Nat /\ currentTerm'[l.node] \in Nat
      /\ currentTerm[l.node] <= currentTerm'[l.node]
  BY <1>1 DEF TypeOK, VoteStays
<1>3. CASE l \in elected
  <2>1. /\ l.term <= currentTerm[l.node]
        /\ state[l.node] = "CANDIDATE" => l.term < currentTerm[l.node]
    BY <1>3 DEF ElectedBefore
  <2>2. state'[l.node] = "CANDIDATE" =>
          \/ state[l.node] = "CANDIDATE" /\ currentTerm'[l.node] = currentTerm[l.node]
          \/ currentTerm'[l.node] > currentTerm[l.node]
    BY <1>1 DEF RoleStep
  <2> QED BY <1>1, <1>2, <2>1, <2>2
<1>4. CASE l.term = currentTerm'[l.node] /\ state'[l.node] = "LEADER"
  BY <1>1, <1>2, <1>4
<1> QED BY <1>3, <1>4 DEF RoleStep

\* A new leader finds no entry of its term, so it holds them all.
LEMMA NewLeader ==
    ASSUME TypeOK, SlotInv, RoleStep, ElectionSafety',
           NEW n \in Nodes, state[n] = "CANDIDATE",
           [node |-> n, term |-> currentTerm[n]] \in elected'
    PROVE  \A e \in Entries : e.term # currentTerm[n]
<1> SUFFICES ASSUME NEW e \in Entries, e.term = currentTerm[n]
             PROVE  FALSE
  OBVIOUS
<1>0. PICK w : w = [node |-> n, term |-> currentTerm[n]]
  OBVIOUS
<1>1. PICK l \in elected : l.term = e.term
  BY DEF SlotInv, EntriesElected
<1>2. l \in elected' /\ w \in elected' /\ l.term = w.term /\ w.node = n
  BY <1>0, <1>1 DEF RoleStep
<1>3. l.node = n
  BY <1>2 DEF ElectionSafety
<1>4. l.term < currentTerm[n]
  BY <1>1, <1>3 DEF SlotInv, ElectedBefore
<1>5. currentTerm[n] \in Nat
  BY DEF TypeOK
<1> QED BY <1>1, <1>4, <1>5

\* Every step but Propose.
LEMMA SlotsKept ==
    ASSUME TypeOK, TypeOK', SlotInv, RoleStep, VoteStays, ElectionSafety',
           Entries' \subseteq Entries,
           \A n \in Nodes : state'[n] = "LEADER" => log'[n] = log[n]
    PROVE  SlotInv'
<1>1. ElectedBefore'
  BY ElectedBeforeStep DEF SlotInv
<1>2. EntriesElected'
  BY DEF SlotInv, EntriesElected, RoleStep
<1>3. SlotsAgree'
  BY DEF SlotInv, SlotsAgree
<1>4. LeaderHolds'
  <2> SUFFICES ASSUME NEW n \in Nodes, state'[n] = "LEADER"
               PROVE  /\ [node |-> n, term |-> currentTerm'[n]] \in elected'
                      /\ \A e \in Entries' : e.term = currentTerm'[n] =>
                            e.index \in 1..Len(log'[n]) /\ log'[n][e.index] = e
    BY DEF LeaderHolds
  <2>1. currentTerm'[n] = currentTerm[n] /\ log'[n] = log[n]
    BY DEF RoleStep
  <2>2. CASE state[n] = "LEADER"
    BY <2>1, <2>2 DEF SlotInv, LeaderHolds, RoleStep
  <2>3. CASE state[n] = "CANDIDATE" /\ [node |-> n, term |-> currentTerm[n]] \in elected'
    BY <2>1, <2>3, NewLeader
  <2> QED BY <2>2, <2>3 DEF RoleStep
<1> QED BY <1>1, <1>2, <1>3, <1>4 DEF SlotInv
\* Propose: the leader of a term numbers its entries one after the other.
LEMMA SlotsPropose ==
    ASSUME TypeOK, TypeOK', LogInv, SlotInv, RoleStep, VoteStays, ElectionSafety, Next,
           NEW n \in Nodes, NEW v \in Commands, Propose(n, v)
    PROVE  SlotInv'
<1>1. state[n] = "LEADER" /\ UNCHANGED <<currentTerm, state, elected, requests>>
  BY DEF Propose, MayPropose, electVars, netVars, historyVars
<1>2. PICK e \in Entry :
              /\ e.term = currentTerm[n] /\ e.index = Len(log[n]) + 1
              /\ \A p \in Nodes : p # n => log'[p] = log[p]
              /\ Len(log[n]) \in Nat /\ Len(log'[n]) = Len(log[n]) + 1
              /\ log'[n][Len(log[n]) + 1] = e
              /\ \A k \in 1..Len(log[n]) : log'[n][k] = log[n][k]
  BY ProposeLog
<1>3. /\ [node |-> n, term |-> currentTerm[n]] \in elected
      /\ \A f \in Entries : f.term = currentTerm[n] =>
              f.index \in 1..Len(log[n]) /\ log[n][f.index] = f
  BY <1>1 DEF SlotInv, LeaderHolds
<1>4. \A f \in Entries' : f \in Entries \/ f = e
  <2> SUFFICES ASSUME NEW f \in Entries' PROVE f \in Entries \/ f = e
    OBVIOUS
  <2>1. ASSUME NEW p \in Nodes, NEW k \in 1..Len(log'[p]), f = log'[p][k]
        PROVE  f \in Entries \/ f = e
    <3>1. CASE p = n
      <4>1. k \in 1..Len(log[n]) \/ k = Len(log[n]) + 1
        BY <1>2, <2>1, <3>1
      <4> QED BY <1>2, <2>1, <3>1, <4>1, EntryWhere
    <3>2. CASE p # n
      BY <1>2, <2>1, <3>2, EntryWhere
    <3> QED BY <3>1, <3>2
  <2>2. ASSUME NEW m \in Appends', NEW k \in 1..Len(m.entries), f = m.entries[k]
        PROVE  f \in Entries
    BY <2>2, SentEntries
  <2> QED BY <2>1, <2>2, EntryWhereNext
<1>5. \A f \in Entries : f.term = e.term => f.index # e.index
  BY <1>2, <1>3
<1>6. ElectedBefore'
  BY ElectedBeforeStep DEF SlotInv
<1>7. EntriesElected'
  <2>1. PICK w : w = [node |-> n, term |-> currentTerm[n]]
    OBVIOUS
  <2>2. w \in elected /\ w.term = e.term
    BY <1>2, <1>3, <2>1
  <2> QED BY <1>1, <1>4, <2>2 DEF SlotInv, EntriesElected
<1>8. SlotsAgree'
  BY <1>4, <1>5 DEF SlotInv, SlotsAgree
<1>9. LeaderHolds'
  <2> SUFFICES ASSUME NEW p \in Nodes, state[p] = "LEADER"
               PROVE  /\ [node |-> p, term |-> currentTerm[p]] \in elected
                      /\ \A f \in Entries' : f.term = currentTerm[p] =>
                            f.index \in 1..Len(log'[p]) /\ log'[p][f.index] = f
    BY <1>1 DEF LeaderHolds
  <2>1. /\ [node |-> p, term |-> currentTerm[p]] \in elected
        /\ \A f \in Entries : f.term = currentTerm[p] =>
              f.index \in 1..Len(log[p]) /\ log[p][f.index] = f
    BY DEF SlotInv, LeaderHolds
  <2>2. CASE p = n
    <3>1. e.index \in 1..Len(log'[n]) /\ log'[n][e.index] = e
      BY <1>2
    <3>2. \A k \in 1..Len(log[n]) : k \in 1..Len(log'[n]) /\ log'[n][k] = log[n][k]
      BY <1>2
    <3> QED BY <1>4, <2>1, <2>2, <3>1, <3>2
  <2>3. CASE p # n
    <3>1. PICK a, b : a = [node |-> p, term |-> currentTerm[p]]
                      /\ b = [node |-> n, term |-> currentTerm[n]]
      OBVIOUS
    <3>2. a \in elected /\ b \in elected /\ a.node = p /\ b.node = n
          /\ a.term = currentTerm[p] /\ b.term = currentTerm[n]
      BY <1>3, <2>1, <3>1
    <3>3. currentTerm[p] # e.term
      BY <1>2, <2>3, <3>2 DEF ElectionSafety
    <3> QED BY <1>2, <1>4, <2>1, <2>3, <3>3
  <2> QED BY <2>2, <2>3
<1> QED BY <1>6, <1>7, <1>8, <1>9 DEF SlotInv

LEMMA SlotStep ==
    ASSUME TypeInv, TypeOK', ElectionInv, ElectionSafety', LogInv, SlotInv, Next
    PROVE  SlotInv'
<1>0. TypeOK /\ RoleStep /\ VoteStays /\ ElectionSafety /\ NoneTaken
  BY RolesStep, VoteStaysStep, InvImpliesSafety DEF TypeInv, LogInv
<1>1. \A n \in Nodes : \A k \in 1..Len(log[n]) : log[n][k] \in Entries
  BY EntryWhere
<1>2. CASE log' = log
  <2>1. \A n \in Nodes : \A k \in 1..Len(log'[n]) : log'[n][k] \in Entries
    BY <1>1, <1>2
  <2>2. Entries' \subseteq Entries
    BY <1>0, <2>1, EntriesStep
  <2> QED BY <1>0, <1>2, <2>2, SlotsKept
<1>3. ASSUME NEW n \in Nodes, NEW m \in requests, HandleAppendEntries(n, m)
      PROVE  SlotInv'
  <2>1. /\ \A p \in Nodes : p # n => log'[p] = log[p]
        /\ \A k \in 1..Len(log'[n]) : log'[n][k] \in Entries
        /\ state'[n] = "LEADER" => log'[n] = log[n]
    BY <1>0, <1>3, AppendLog
  <2>2. \A p \in Nodes : \A k \in 1..Len(log'[p]) : log'[p][k] \in Entries
    BY <1>1, <2>1
  <2>3. Entries' \subseteq Entries
    BY <1>0, <2>2, EntriesStep
  <2> QED BY <1>0, <2>1, <2>3, SlotsKept
<1>4. ASSUME NEW n \in Nodes, NEW v \in Commands, Propose(n, v)
      PROVE  SlotInv'
  BY <1>0, <1>4, SlotsPropose
<1> QED BY <1>0, <1>2, <1>3, <1>4, LogsStep

-----------------------------------------------------------------------------
(* The theorems.                                                           *)

LEMMA IInvInit == Init => IInv
<1> SUFFICES ASSUME Init PROVE LogInv /\ SlotInv
  BY DEF IInv
<1>1. LogInv
  BY EmptySeq DEF Init, LogInv, NoneTaken, IdleTaking, LogContiguous, RequestsContiguous, Appends
<1>2. Entries = {}
  <2>1. \A n \in Nodes : 1..Len(log[n]) = {}
    BY EmptySeq DEF Init
  <2>2. Appends = {}
    BY DEF Init, Appends
  <2>3. ASSUME NEW e PROVE e \notin Entries
    BY <2>1, <2>2, EntryWhere
  <2> QED BY <2>3
<1>3. SlotInv
  BY <1>2 DEF Init, SlotInv, ElectedBefore, EntriesElected, LeaderHolds, SlotsAgree
<1> QED BY <1>1, <1>3

\* A snapshot once taken stays counted.
LEMMA SnapshotsCounted ==
    ASSUME TypeOK, Next, snapshots' = 0
    PROVE  snapshots = 0
<1>0. snapshots \in Nat
  BY DEF TypeOK
<1>1. snapshots' = snapshots \/ snapshots' = snapshots + 1
  <2>1. ASSUME NEW n \in Nodes,
               \/ BecomeCandidate(n) \/ FinishElection(n)
               \/ StartElection(n) \/ RequestVoteTimeout(n) \/ ResumeElection(n)
               \/ HeartbeatTimeout(n) \/ AppendEntriesTimeout(n)
        PROVE  snapshots' = snapshots
    BY <2>1 DEF BecomeCandidate, FinishElection, StartElection, RequestVoteTimeout,
         ResumeElection, HeartbeatTimeout, AppendEntriesTimeout, snapVars
  <2>2. ASSUME NEW n \in Nodes, NEW r \in replies,
               HandleRequestVoteResponse(n, r) \/ HandleAppendEntriesResponse(n, r)
        PROVE  snapshots' = snapshots
    BY <2>2 DEF HandleRequestVoteResponse, HandleAppendEntriesResponse, snapVars
  <2>3. ASSUME NEW n \in Nodes, NEW m \in requests,
               HandleRequestVote(n, m) \/ HandleAppendEntries(n, m)
        PROVE  snapshots' = snapshots
    BY <2>3 DEF HandleRequestVote, HandleAppendEntries, snapVars
  <2>4. ASSUME NEW n \in Nodes, NEW v \in Commands,
               \/ Propose(n, v) \/ ProposeAdvance(n, v) \/ ProposeSend(n, v)
               \/ ProposeCheck(n, v) \/ ProposeTimeout(n, v)
        PROVE  snapshots' = snapshots
    BY <2>4 DEF Propose, ProposeAdvance, ProposeSend, ProposeCheck, ProposeTimeout, snapVars
  <2>5. ASSUME NEW n \in Nodes,
               \/ SnapshotDecide(n) \/ SnapshotCapture(n) \/ SnapshotPublish(n)
               \/ SnapshotTrim(n) \/ Restart(n)
        PROVE  snapshots' = snapshots \/ snapshots' = snapshots + 1
    BY <2>5 DEF SnapshotDecide, SnapshotCapture, SnapshotPublish, SnapshotTrim, Restart,
         StartFrom
  <2> QED BY <2>1, <2>2, <2>3, <2>4, <2>5 DEF Next
<1> QED BY <1>0, <1>1

LEMMA IInvStep == TypeInv /\ ElectionInv /\ IInv /\ [Next]_vars => IInv'
<1> SUFFICES ASSUME TypeInv, ElectionInv, IInv, [Next]_vars, snapshots' = 0
             PROVE  LogInv' /\ SlotInv'
  BY DEF IInv
<1>1. TypeOK /\ TypeOK' /\ ElectionSafety'
  <2>1. TypeOK /\ TypeOK' /\ ElectionInv'
    BY TypeStep, ElectionStep DEF TypeInv
  <2>2. (TypeOK /\ ElectionInv => ElectionSafety)'
    BY InvImpliesSafety, PTL
  <2> QED BY <2>1, <2>2
<1>2. CASE Next
  <2>1. snapshots = 0
    BY <1>1, <1>2, SnapshotsCounted
  <2>2. LogInv /\ SlotInv
    BY <2>1 DEF IInv
  <2> QED BY <1>1, <1>2, <2>1, <2>2, LogStep, SlotStep
<1>3. CASE UNCHANGED vars
  <2>1. UNCHANGED <<currentTerm, log, state, taking, requests, snapshots, elected>>
    BY <1>3 DEF vars, diskVars, electVars, snapVars, netVars, historyVars
  <2>2. LogInv /\ SlotInv
    BY <2>1 DEF IInv
  <2>3. LogInv'
    BY <2>1, <2>2 DEF LogInv, NoneTaken, LogContiguous, RequestsContiguous, Appends
  <2>4. Entries' = Entries
    BY <2>1 DEF Entries, Appends
  <2>5. SlotInv'
    BY <2>1, <2>2, <2>4 DEF SlotInv, ElectedBefore, EntriesElected, LeaderHolds, SlotsAgree
  <2> QED BY <2>3, <2>5
<1> QED BY <1>2, <1>3

LEMMA Invariance == Spec => []IInv
  BY IInvInit, IInvStep, TypeInit, TypeStep, ElectionInit, ElectionStep, PTL DEF Spec

\* Until the first snapshot no log has a hole or repeats an index, in a cluster
\* of any size and with any number of elections, late, lost or refused
\* AppendEntries and restarts (HandleAppendEntries, Propose).
THEOREM NoHoles == Spec => [](snapshots = 0 => LogContiguous)
<1>1. IInv => (snapshots = 0 => LogContiguous)
  BY DEF IInv, LogInv
<1> QED BY <1>1, Invariance, PTL

\* Until the first snapshot no two logs hold different commands under one term
\* and index: only the one leader of a term numbers the entries of that term
\* (Propose, HandleAppendEntries).
THEOREM OneCommand == Spec => [](snapshots = 0 => OneCommandPerSlot)
<1>1. IInv => (snapshots = 0 => OneCommandPerSlot)
  <2> SUFFICES ASSUME IInv, snapshots = 0, NEW n \in Nodes, NEW p \in Nodes,
                      NEW j \in 1..Len(log[n]), NEW k \in 1..Len(log[p]),
                      log[n][j].term = log[p][k].term, log[n][j].index = log[p][k].index
               PROVE  log[n][j].cmd = log[p][k].cmd
    BY DEF OneCommandPerSlot
  <2>1. log[n][j] \in Entries /\ log[p][k] \in Entries
    BY EntryWhere
  <2>2. log[n][j] = log[p][k]
    BY <2>1 DEF IInv, SlotInv, SlotsAgree
  <2> QED BY <2>2
<1> QED BY <1>1, Invariance, PTL

-----------------------------------------------------------------------------
(***************************************************************************)
(* What is on disk of the entries a state machine was given, with any      *)
(* number of snapshots, leaders, lost and late requests and restarts.      *)
(***************************************************************************)

-----------------------------------------------------------------------------
(* Logs in which the indexes only increase.                                *)

Members(l) == {l[k] : k \in 1..Len(l)}

Increasing(l) == \A j, k \in 1..Len(l) : j < k => l[j].index < l[k].index

\* With snapshots a log may have a hole, but its indexes still increase.
Ordered == /\ \A n \in Nodes : Increasing(log[n])
           /\ \A m \in Appends : Increasing(m.entries)

\* Counting the entries up to an index finds where the log is to be cut.
LEMMA CountOrdered ==
    ASSUME NEW l \in Seq(Entry), NEW i \in Int, Increasing(l), NEW k \in 1..Len(l)
    PROVE  l[k].index <= i <=> k <= CountUpTo(l, i)
<1> DEFINE S == {j \in 1..Len(l) : l[j].index <= i}
<1>1. /\ Len(l) \in Nat /\ \A j \in 1..Len(l) : l[j].index \in Nat
  <2>1. Len(l) \in Nat /\ \A j \in 1..Len(l) : l[j] \in Entry
    BY LenProperties, ElementOfSeq
  <2> QED BY <2>1 DEF Entry
<1>2. \A j \in 1..Len(l) : /\ j < k => l[j].index < l[k].index
                           /\ k < j => l[k].index < l[j].index
  BY DEF Increasing
<1>3. CountUpTo(l, i) = Cardinality(S)
  BY DEF CountUpTo
<1>4. IsFiniteSet(1..Len(l)) /\ IsFiniteSet(1..k) /\ IsFiniteSet(1..(k - 1))
  BY <1>1, FS_Interval
<1>5. Cardinality(1..k) = k /\ Cardinality(1..(k - 1)) = k - 1
  <2>1. 1 \in Int /\ k \in Int /\ k - 1 \in Int /\ k >= 1
    BY <1>1
  <2>2. /\ Cardinality(1..k) = IF 1 > k THEN 0 ELSE k - 1 + 1
        /\ Cardinality(1..(k - 1)) = IF 1 > k - 1 THEN 0 ELSE (k - 1) - 1 + 1
    BY <2>1, FS_Interval
  <2> QED BY <2>1, <2>2
<1>6. IsFiniteSet(S) /\ Cardinality(S) \in Nat
  <2>1. S \subseteq 1..Len(l)
    OBVIOUS
  <2>2. IsFiniteSet(S)
    BY <1>4, <2>1, FS_Subset
  <2> QED BY <2>2, FS_CardinalityType
<1>7. CASE l[k].index <= i
  <2>1. \A j \in 1..k : j \in S
    BY <1>1, <1>2, <1>7
  <2>2. 1..k \subseteq S
    BY <2>1
  <2>3. Cardinality(1..k) <= Cardinality(S)
    BY <1>6, <2>2, FS_Subset
  <2> HIDE DEF S
  <2> QED BY <1>3, <1>5, <1>7, <2>3
<1>8. CASE ~ (l[k].index <= i)
  <2>1. \A j \in S : j \in 1..(k - 1)
    BY <1>1, <1>2, <1>8
  <2>2. S \subseteq 1..(k - 1)
    BY <2>1
  <2>3. Cardinality(S) <= Cardinality(1..(k - 1))
    BY <1>4, <2>2, FS_Subset
  <2> HIDE DEF S
  <2>4. ~ (k <= Cardinality(S))
    BY <1>1, <1>5, <1>6, <2>3
  <2> QED BY <1>3, <1>8, <2>4
<1> QED BY <1>7, <1>8

\* The two cuts of such a log.
LEMMA CutOrdered ==
    ASSUME NEW l \in Seq(Entry), NEW i \in Int, Increasing(l)
    PROVE  /\ Increasing(UpTo(l, i)) /\ Increasing(Above(l, i))
           /\ \A e : e \in Members(UpTo(l, i)) <=> e \in Members(l) /\ e.index <= i
           /\ \A e : e \in Members(Above(l, i)) <=> e \in Members(l) /\ ~ (e.index <= i)
<1>1. PICK c : c = CountUpTo(l, i)
  OBVIOUS
<1>2. /\ c \in 0..Len(l) /\ Len(l) \in Nat
      /\ Len(UpTo(l, i)) = c /\ \A k \in 1..c : UpTo(l, i)[k] = l[k]
      /\ Len(Above(l, i)) = Len(l) - c /\ \A k \in 1..Len(l) - c : Above(l, i)[k] = l[c + k]
  BY <1>1, CutEntries, LenProperties
<1>3. \A k \in 1..Len(l) : l[k].index <= i <=> k <= c
  BY <1>1, CountOrdered
<1>4. PICK u, a : u = UpTo(l, i) /\ a = Above(l, i)
  OBVIOUS
<1>5. /\ Len(u) = c /\ \A k \in 1..c : u[k] = l[k] /\ k \in 1..Len(l)
      /\ Len(a) = Len(l) - c /\ \A k \in 1..Len(l) - c : a[k] = l[c + k] /\ c + k \in 1..Len(l)
  BY <1>2, <1>4
<1>6. Increasing(u)
  <2> SUFFICES ASSUME NEW j \in 1..c, NEW k \in 1..c, j < k
               PROVE  u[j].index < u[k].index
    BY <1>5 DEF Increasing
  <2>1. u[j] = l[j] /\ u[k] = l[k] /\ j \in 1..Len(l) /\ k \in 1..Len(l)
    BY <1>5
  <2> QED BY <2>1 DEF Increasing
<1>7. Increasing(a)
  <2> SUFFICES ASSUME NEW j \in 1..Len(l) - c, NEW k \in 1..Len(l) - c, j < k
               PROVE  a[j].index < a[k].index
    BY <1>5 DEF Increasing
  <2>1. a[j] = l[c + j] /\ a[k] = l[c + k] /\ c + j \in 1..Len(l) /\ c + k \in 1..Len(l)
    BY <1>5
  <2>2. c + j < c + k
    BY <1>2
  <2> QED BY <2>1, <2>2 DEF Increasing
<1>8. ASSUME NEW e PROVE e \in Members(u) <=> e \in Members(l) /\ e.index <= i
  <2>1. e \in Members(u) <=> \E k \in 1..c : e = l[k]
    BY <1>5 DEF Members
  <2>2. e \in Members(l) <=> \E k \in 1..Len(l) : e = l[k]
    BY DEF Members
  <2>3. \A k : k \in 1..c <=> k \in 1..Len(l) /\ k <= c
    BY <1>2
  <2> QED BY <1>3, <2>1, <2>2, <2>3
<1>9. ASSUME NEW e PROVE e \in Members(a) <=> e \in Members(l) /\ ~ (e.index <= i)
  <2>0. e \in Members(a) <=> \E k \in 1..Len(a) : e = a[k]
    BY DEF Members
  <2>1. e \in Members(a) <=> \E k \in 1..Len(l) - c : e = l[c + k]
    BY <1>5, <2>0
  <2>2. e \in Members(l) <=> \E k \in 1..Len(l) : e = l[k]
    BY DEF Members
  <2>3. \A k \in 1..Len(l) - c : c + k \in 1..Len(l) /\ ~ (c + k <= c)
    BY <1>2
  <2>4. \A k \in 1..Len(l) : ~ (k <= c) => k - c \in 1..Len(l) - c /\ k = c + (k - c)
    BY <1>2
  <2> QED BY <1>3, <2>1, <2>2, <2>3, <2>4
<1> QED BY <1>4, <1>6, <1>7, <1>8, <1>9

\* The last entry has the largest index.
LEMMA LastOrdered ==
    ASSUME NEW l \in Seq(Entry), Increasing(l)
    PROVE  LastIndex(l) \in Nat /\ \A e \in Members(l) : e.index \in Nat /\ e.index <= LastIndex(l)
<1>1. LastIndex(l) \in Nat
  BY LogReads
<1>2. ASSUME NEW k \in 1..Len(l) PROVE l[k].index \in Nat /\ l[k].index <= LastIndex(l)
  <2>1. /\ Len(l) \in Nat /\ l[k] \in Entry /\ l[Len(l)] \in Entry /\ Len(l) \in 1..Len(l)
    BY LenProperties, ElementOfSeq
  <2>2. l # <<>>
    BY <2>1, EmptySeq
  <2>3. LastIndex(l) = l[Len(l)].index
    BY <2>2 DEF LastIndex
  <2>4. l[k].index \in Nat /\ l[Len(l)].index \in Nat
    BY <2>1 DEF Entry
  <2>5. k < Len(l) => l[k].index < l[Len(l)].index
    BY <2>1 DEF Increasing
  <2> QED BY <2>1, <2>3, <2>4, <2>5
<1> QED BY <1>1, <1>2 DEF Members

\* The entries of two logs put together.
LEMMA JoinMembers ==
    ASSUME NEW l \in Seq(Entry), NEW a \in Seq(Entry)
    PROVE  Members(l \o a) = Members(l) \cup Members(a)
<1>1. /\ Len(l) \in Nat /\ Len(a) \in Nat /\ Len(l \o a) = Len(l) + Len(a)
      /\ \A k \in 1..Len(l) + Len(a) : (l \o a)[k] = IF k <= Len(l) THEN l[k] ELSE a[k - Len(l)]
  BY ConcatProperties, LenProperties
<1>2. PICK x : x = l \o a
  OBVIOUS
<1>3. \A k \in 1..Len(l) : k \in 1..Len(x) /\ x[k] = l[k]
  BY <1>1, <1>2
<1>4. \A k \in 1..Len(a) : Len(l) + k \in 1..Len(x) /\ x[Len(l) + k] = a[k]
  BY <1>1, <1>2
<1>5. \A k \in 1..Len(x) : \/ k \in 1..Len(l)
                           \/ k - Len(l) \in 1..Len(a) /\ k = Len(l) + (k - Len(l))
  BY <1>1, <1>2
<1>6. Members(x) = Members(l) \cup Members(a)
  <2>1. \A s, e : e \in Members(s) <=> \E k \in 1..Len(s) : e = s[k]
    BY DEF Members
  <2>2. ASSUME NEW k \in 1..Len(x) PROVE x[k] \in Members(l) \cup Members(a)
    <3>1. CASE k \in 1..Len(l)
      BY <1>3, <2>1, <3>1
    <3>2. CASE k - Len(l) \in 1..Len(a) /\ k = Len(l) + (k - Len(l))
      <4>1. x[k] = a[k - Len(l)]
        BY <1>4, <3>2
      <4> QED BY <2>1, <3>2, <4>1
    <3> QED BY <1>5, <3>1, <3>2
  <2>3. \A k \in 1..Len(l) : l[k] \in Members(x)
    BY <1>3, <2>1
  <2>4. \A k \in 1..Len(a) : a[k] \in Members(x)
    BY <1>4, <2>1
  <2>5. Members(x) \subseteq Members(l) \cup Members(a)
    BY <2>1, <2>2
  <2>6. Members(l) \subseteq Members(x) /\ Members(a) \subseteq Members(x)
    BY <2>1, <2>3, <2>4
  <2> QED BY <2>5, <2>6
<1> QED BY <1>2, <1>6

\* Putting larger entries behind a log.
LEMMA JoinOrdered ==
    ASSUME NEW l \in Seq(Entry), NEW a \in Seq(Entry), Increasing(l), Increasing(a),
           \A e \in Members(a) : ~ (e.index <= LastIndex(l))
    PROVE  Increasing(l \o a) /\ Members(l \o a) = Members(l) \cup Members(a)
<1>1. /\ Len(l) \in Nat /\ Len(a) \in Nat /\ Len(l \o a) = Len(l) + Len(a)
      /\ \A k \in 1..Len(l) + Len(a) : (l \o a)[k] = IF k <= Len(l) THEN l[k] ELSE a[k - Len(l)]
  BY ConcatProperties, LenProperties
<1>2. PICK x : x = l \o a
  OBVIOUS
<1>3. \A k \in 1..Len(l) : k \in 1..Len(x) /\ x[k] = l[k]
  BY <1>1, <1>2
<1>4. \A k \in 1..Len(a) : Len(l) + k \in 1..Len(x) /\ x[Len(l) + k] = a[k]
  BY <1>1, <1>2
<1>5. \A k \in 1..Len(x) : \/ k \in 1..Len(l)
                           \/ k - Len(l) \in 1..Len(a) /\ k = Len(l) + (k - Len(l))
  BY <1>1, <1>2
<1>6. Members(x) = Members(l) \cup Members(a)
  BY <1>2, JoinMembers
<1>7. \A k \in 1..Len(l) : l[k].index \in Nat /\ l[k].index <= LastIndex(l)
  BY LastOrdered DEF Members
<1>8. \A k \in 1..Len(a) : a[k].index \in Nat /\ ~ (a[k].index <= LastIndex(l))
  BY LastOrdered DEF Members
<1>9. LastIndex(l) \in Nat
  BY LogReads
<1>10. ASSUME NEW j \in 1..Len(x), NEW k \in 1..Len(x), j < k
       PROVE  x[j].index < x[k].index
  <2>1. CASE j \in 1..Len(l) /\ k \in 1..Len(l)
    BY <1>3, <1>10, <2>1 DEF Increasing
  <2>2. CASE j \in 1..Len(l) /\ k - Len(l) \in 1..Len(a) /\ k = Len(l) + (k - Len(l))
    <3>1. x[j] = l[j] /\ x[k] = a[k - Len(l)]
      BY <1>3, <1>4, <2>2
    <3>2. /\ l[j].index \in Nat /\ l[j].index <= LastIndex(l)
          /\ a[k - Len(l)].index \in Nat /\ ~ (a[k - Len(l)].index <= LastIndex(l))
      BY <1>7, <1>8, <2>2
    <3> QED BY <1>9, <3>1, <3>2
  <2>3. CASE /\ j - Len(l) \in 1..Len(a) /\ j = Len(l) + (j - Len(l))
             /\ k - Len(l) \in 1..Len(a) /\ k = Len(l) + (k - Len(l))
    <3>1. x[j] = a[j - Len(l)] /\ x[k] = a[k - Len(l)]
      BY <1>4, <2>3
    <3>2. j - Len(l) < k - Len(l)
      BY <1>1, <1>10
    <3> QED BY <2>3, <3>1, <3>2 DEF Increasing
  <2>4. CASE /\ j - Len(l) \in 1..Len(a) /\ k \in 1..Len(l)
    BY <1>1, <1>10, <2>4
  <2> QED BY <1>5, <2>1, <2>2, <2>3, <2>4
<1> QED BY <1>2, <1>6, <1>10 DEF Increasing

\* A follower appends what is larger than its last entry.
LEMMA AppendOrdered ==
    ASSUME NEW l \in Seq(Entry), NEW new \in Seq(Entry), Increasing(l), Increasing(new)
    PROVE  Increasing(AppendNew(l, new)) /\ Members(l) \subseteq Members(AppendNew(l, new))
<1>1. LastIndex(l) \in Nat /\ LastIndex(l) \in Int
  BY LogReads
<1>2. PICK a : a = Above(new, LastIndex(l))
  OBVIOUS
<1>3. a \in Seq(Entry) /\ Increasing(a) /\ \A e \in Members(a) : ~ (e.index <= LastIndex(l))
  BY <1>1, <1>2, CutOrdered, CutEntries
<1>4. AppendNew(l, new) = l \o a
  BY <1>2 DEF AppendNew
<1> QED BY <1>3, <1>4, JoinOrdered

\* Propose appends one entry.
LEMMA ProposeOrdered ==
    ASSUME NEW l \in Seq(Entry), NEW e \in Entry, Increasing(l), e.index = LastIndex(l) + 1
    PROVE  Increasing(Append(l, e)) /\ Members(l) \subseteq Members(Append(l, e))
<1>1. /\ Len(l) \in Nat /\ Len(Append(l, e)) = Len(l) + 1
      /\ \A k \in 1..Len(l) : Append(l, e)[k] = l[k]
      /\ Append(l, e)[Len(l) + 1] = e
  BY AppendProperties, LenProperties
<1>2. PICK x : x = Append(l, e)
  OBVIOUS
<1>3. /\ Len(x) = Len(l) + 1 /\ \A k \in 1..Len(l) : x[k] = l[k] /\ k \in 1..Len(x)
      /\ x[Len(l) + 1] = e
  BY <1>1, <1>2
<1>4. LastIndex(l) \in Nat /\ \A k \in 1..Len(l) : l[k].index \in Nat /\ l[k].index <= LastIndex(l)
  BY LastOrdered DEF Members
<1>5. ASSUME NEW j \in 1..Len(x), NEW k \in 1..Len(x), j < k
      PROVE  x[j].index < x[k].index
  <2>1. j \in 1..Len(l)
    BY <1>1, <1>3, <1>5
  <2>2. CASE k \in 1..Len(l)
    BY <1>3, <1>5, <2>1, <2>2 DEF Increasing
  <2>3. CASE k = Len(l) + 1
    <3>1. x[j] = l[j] /\ x[k].index = LastIndex(l) + 1
      BY <1>3, <2>1, <2>3
    <3>2. l[j].index \in Nat /\ l[j].index <= LastIndex(l)
      BY <1>4, <2>1
    <3> QED BY <1>4, <3>1, <3>2
  <2> QED BY <1>1, <1>3, <2>2, <2>3
<1>6. Members(l) \subseteq Members(x)
  <2>1. \A k \in 1..Len(l) : l[k] \in Members(x)
    BY <1>3 DEF Members
  <2> QED BY <2>1 DEF Members
<1> QED BY <1>2, <1>5, <1>6 DEF Increasing

-----------------------------------------------------------------------------
(* What a step does to the log of a node.                                  *)

\* The requests that make n cut e out of its log: the entry before the new ones
\* is another one there.
Cuts(n, e) ==
    {m \in Appends : /\ m.dst = n /\ m.term >= currentTerm[n]
                     /\ ~ PrevMissing(n, m) /\ PrevConflict(n, m)
                     /\ m.prevIndex <= e.index}

\* The step only adds to the log of n.
Keeps(n) == Increasing(log'[n]) /\ Members(log[n]) \subseteq Members(log'[n])

\* It cuts the end off.
CutsEnd(n) ==
    /\ Increasing(log'[n])
    /\ \A e \in Members(log[n]) : e \in Members(log'[n]) \/ Cuts(n, e) # {}

\* It cuts off what the snapshot covers.
CutsStart(n) ==
    /\ Increasing(log'[n])
    /\ SnapshotTrim(n)
    /\ \A e \in Members(log[n]) : e \in Members(log'[n]) \/ e.index <= taking[n].snap.index

LEMMA AppendMoves ==
    ASSUME TypeOK, Ordered, NEW n \in Nodes, NEW m \in requests, HandleAppendEntries(n, m)
    PROVE  /\ \A p \in Nodes : p # n => log'[p] = log[p]
           /\ Keeps(n) \/ CutsEnd(n)
<1>0. /\ log \in [Nodes -> Seq(Entry)] /\ log[n] \in Seq(Entry) /\ Increasing(log[n])
      /\ currentTerm[n] \in Nat
  BY DEF TypeOK, Ordered
<1>1. m \in Appends /\ m \in AppendRequest /\ m.dst = n
  <2>1. m.type = "AppendEntries" /\ m.dst = n
    BY DEF HandleAppendEntries
  <2>2. m \in VoteRequest \cup AppendRequest
    BY DEF TypeOK
  <2>3. m \notin VoteRequest
    BY <2>1 DEF VoteRequest
  <2> QED BY <2>1, <2>2, <2>3 DEF Appends
<1>2. /\ m.entries \in Seq(Entry) /\ m.prevIndex \in Nat /\ m.term \in Nat
      /\ Increasing(m.entries)
  BY <1>1 DEF AppendRequest, Ordered
<1>3. CASE log' = log
  BY <1>0, <1>3 DEF Keeps
<1>4. ASSUME log' = [log EXCEPT ![n] = UpTo(log[n], m.prevIndex - 1)],
             ~ (m.term < currentTerm[n]), ~ PrevMissing(n, m), PrevConflict(n, m)
      PROVE  /\ \A p \in Nodes : p # n => log'[p] = log[p]
             /\ CutsEnd(n)
  <2>1. PICK i \in Int : i = m.prevIndex - 1
    BY <1>2
  <2>2. log'[n] = UpTo(log[n], i) /\ \A p \in Nodes : p # n => log'[p] = log[p]
    BY <1>0, <1>4, <2>1
  <2>3. /\ Increasing(log'[n])
        /\ \A e : e \in Members(log'[n]) <=> e \in Members(log[n]) /\ e.index <= i
    BY <1>0, <2>2, CutOrdered
  <2>4. ASSUME NEW e \in Members(log[n]), e \notin Members(log'[n])
        PROVE  m \in Cuts(n, e)
    <3>1. e.index \in Nat /\ ~ (e.index <= i)
      BY <1>0, <2>3, <2>4, LastOrdered
    <3>2. m.prevIndex <= e.index /\ m.term >= currentTerm[n]
      BY <1>0, <1>2, <1>4, <2>1, <3>1
    <3> QED BY <1>1, <1>4, <3>2 DEF Cuts
  <2> QED BY <2>2, <2>3, <2>4 DEF CutsEnd
<1>5. ASSUME log' = [log EXCEPT ![n] = AppendNew(log[n], m.entries)]
      PROVE  /\ \A p \in Nodes : p # n => log'[p] = log[p]
             /\ Keeps(n)
  <2>1. log'[n] = AppendNew(log[n], m.entries) /\ \A p \in Nodes : p # n => log'[p] = log[p]
    BY <1>0, <1>5
  <2> QED BY <1>0, <1>2, <2>1, AppendOrdered DEF Keeps
<1>6. \/ log' = log
      \/ /\ log' = [log EXCEPT ![n] = UpTo(log[n], m.prevIndex - 1)]
         /\ ~ (m.term < currentTerm[n]) /\ ~ PrevMissing(n, m) /\ PrevConflict(n, m)
      \/ log' = [log EXCEPT ![n] = AppendNew(log[n], m.entries)]
  BY DEF HandleAppendEntries, diskVars
<1> QED BY <1>3, <1>4, <1>5, <1>6

LEMMA LogMoves ==
    ASSUME TypeOK, Ordered, Next, NEW p \in Nodes
    PROVE  Keeps(p) \/ CutsEnd(p) \/ CutsStart(p)
<1>0. log \in [Nodes -> Seq(Entry)] /\ \A n \in Nodes : log[n] \in Seq(Entry) /\ Increasing(log[n])
  BY DEF TypeOK, Ordered
<1>1. CASE log' = log
  BY <1>0, <1>1 DEF Keeps
<1>2. ASSUME NEW n \in Nodes, Restart(n) PROVE log' = log
  BY <1>2 DEF Restart, StartFrom, TypeOK
<1>3. ASSUME NEW n \in Nodes,
             \/ BecomeCandidate(n) \/ FinishElection(n)
             \/ StartElection(n) \/ RequestVoteTimeout(n) \/ ResumeElection(n)
             \/ HeartbeatTimeout(n) \/ AppendEntriesTimeout(n)
             \/ SnapshotDecide(n) \/ SnapshotCapture(n) \/ SnapshotPublish(n)
      PROVE  log' = log
  BY <1>3 DEF BecomeCandidate, FinishElection, StartElection, RequestVoteTimeout, ResumeElection,
       HeartbeatTimeout, AppendEntriesTimeout, SnapshotDecide, SnapshotCapture,
       SnapshotPublish, diskVars
<1>4. ASSUME NEW n \in Nodes, NEW r \in replies,
             HandleRequestVoteResponse(n, r) \/ HandleAppendEntriesResponse(n, r)
      PROVE  log' = log
  BY <1>4 DEF HandleRequestVoteResponse, HandleAppendEntriesResponse
<1>5. ASSUME NEW n \in Nodes, NEW m \in requests, HandleRequestVote(n, m) PROVE log' = log
  BY <1>5 DEF HandleRequestVote
<1>6. ASSUME NEW n \in Nodes, NEW v \in Commands,
             \/ ProposeAdvance(n, v) \/ ProposeSend(n, v)
             \/ ProposeCheck(n, v) \/ ProposeTimeout(n, v)
      PROVE  log' = log
  BY <1>6 DEF ProposeAdvance, ProposeSend, ProposeCheck, ProposeTimeout, diskVars
<1>7. ASSUME NEW n \in Nodes, NEW m \in requests, HandleAppendEntries(n, m)
      PROVE  Keeps(p) \/ CutsEnd(p)
  <2>1. /\ p # n => log'[p] = log[p]
        /\ Keeps(n) \/ CutsEnd(n)
    BY <1>7, AppendMoves
  <2> QED BY <1>0, <2>1 DEF Keeps
<1>8. ASSUME NEW n \in Nodes, NEW v \in Commands, Propose(n, v)
      PROVE  Keeps(p)
  <2>1. PICK e : e = [term |-> currentTerm[n], index |-> LastIndex(log[n]) + 1, cmd |-> v]
    OBVIOUS
  <2>2. LastIndex(log[n]) \in Nat /\ currentTerm[n] \in Nat
    BY <1>0, LogReads DEF TypeOK
  <2>3. e \in Entry /\ e.index = LastIndex(log[n]) + 1
    BY <2>1, <2>2 DEF Entry
  <2>4. log' = [log EXCEPT ![n] = Append(log[n], e)]
    BY <1>8, <2>1 DEF Propose
  <2>5. log'[n] = Append(log[n], e) /\ \A q \in Nodes : q # n => log'[q] = log[q]
    BY <1>0, <2>4
  <2> QED BY <1>0, <2>3, <2>5, ProposeOrdered DEF Keeps
<1>9. ASSUME NEW n \in Nodes, SnapshotTrim(n)
      PROVE  Keeps(p) \/ CutsStart(p)
  <2>1. PICK i : i = taking[n].snap.index
    OBVIOUS
  <2>2. i \in Int
    <3>1. taking[n].snap \in Snapshot
      BY DEF TypeOK
    <3> QED BY <2>1, <3>1 DEF Snapshot
  <2>3. log'[n] = Above(log[n], i) /\ \A q \in Nodes : q # n => log'[q] = log[q]
    BY <1>0, <1>9, <2>1 DEF SnapshotTrim
  <2>4. /\ Increasing(log'[n])
        /\ \A e : e \in Members(log'[n]) <=> e \in Members(log[n]) /\ ~ (e.index <= i)
    BY <1>0, <2>2, <2>3, CutOrdered
  <2>5. CutsStart(n)
    BY <1>9, <2>1, <2>4 DEF CutsStart
  <2> QED BY <1>0, <2>3, <2>5 DEF Keeps
<1> QED BY <1>1, <1>2, <1>3, <1>4, <1>5, <1>6, <1>7, <1>8, <1>9 DEF Next

\* The order of the indexes is inductive: a request carries the end of a log.
LEMMA OrderedStep ==
    ASSUME TypeOK, TypeOK', Ordered, Next
    PROVE  Ordered'
<1>1. \A n \in Nodes : Increasing(log'[n])
  BY LogMoves DEF Keeps, CutsEnd, CutsStart
<1>2. ASSUME NEW m \in Appends' PROVE Increasing(m.entries)
  <2>1. m \in requests' /\ m.type = "AppendEntries"
    BY <1>2 DEF Appends
  <2>2. PICK i : i = m.prevIndex
    OBVIOUS
  <2>3. i \in Int
    <3>1. m \in VoteRequest \cup AppendRequest
      BY <2>1 DEF TypeOK
    <3>2. m \notin VoteRequest
      BY <2>1 DEF VoteRequest
    <3> QED BY <2>2, <3>1, <3>2 DEF AppendRequest
  <2>4. \/ \E k \in Appends : m.entries = k.entries
        \/ \E n \in Nodes : m.entries = Above(log[n], i)
    BY <2>1, <2>2, RequestsKept DEF Kept
  <2>5. \A n \in Nodes : Increasing(Above(log[n], i))
    <3>1. \A n \in Nodes : log[n] \in Seq(Entry) /\ Increasing(log[n])
      BY DEF TypeOK, Ordered
    <3> QED BY <2>3, <3>1, CutOrdered
  <2> QED BY <2>4, <2>5 DEF Ordered
<1> QED BY <1>1, <1>2 DEF Ordered

-----------------------------------------------------------------------------
(* What the state machine was given, and what snapshots hold of it.        *)

\* Every entry given has an index up to last_applied_, and what raft_snapshot.dat
\* and the snapshot under way hold is all of it up to their index.
Given(n) ==
    LET snap == taking[n].snap
    IN  /\ \A e \in Members(applied[n]) : e.index <= lastApplied[n]
        /\ Members(snapFile[n].data) \subseteq Members(applied[n])
        /\ \A e \in Members(snapFile[n].data) : e.index <= snapFile[n].index
        /\ taking[n].pc \in {"captured", "published"} =>
              /\ snap.index <= lastApplied[n]
              /\ Members(snap.data) \subseteq Members(applied[n])
              /\ \A e \in Members(snap.data) : e.index <= snap.index
              /\ \A e \in Members(applied[n]) : e.index <= snap.index => e \in Members(snap.data)
        /\ taking[n].pc = "captured" => Members(snapFile[n].data) \subseteq Members(snap.data)
        /\ taking[n].pc = "published" => snapFile[n] = snap

DurableInv == Ordered /\ \A n \in Nodes : Given(n)

LEMMA DurableInit == Init => DurableInv
<1> SUFFICES ASSUME Init PROVE DurableInv
  OBVIOUS
<1>1. Members(<<>>) = {}
  <2>1. 1..Len(<<>>) = {}
    BY EmptySeq
  <2> QED BY <2>1 DEF Members
<1>2. Ordered
  <2>1. \A n \in Nodes : 1..Len(log[n]) = {}
    BY EmptySeq DEF Init
  <2> QED BY <2>1 DEF Init, Ordered, Increasing, Appends
<1>3. \A n \in Nodes : Given(n)
  BY <1>1 DEF Init, Given, NoSnapshot, IdleTaking
<1> QED BY <1>2, <1>3 DEF DurableInv

\* What ApplyCommitted gives has an index above last_applied_.
LEMMA GivenByCommit ==
    ASSUME TypeOK, TypeOK', NEW n \in Nodes, Given(n), Increasing(log'[n]), Gives(n),
           UNCHANGED snapVars
    PROVE  Given(n)'
<1>1. PICK i \in Nat : CommitTo(n, i, log'[n])
  BY DEF Gives
<1>2. \/ UNCHANGED commitVars
      \/ /\ lastApplied'[n] = Larger(lastApplied[n], i)
         /\ applied'[n] = applied[n] \o Above(UpTo(log'[n], i), lastApplied[n])
  BY <1>1, CommitEffect
<1>3. CASE UNCHANGED commitVars
  BY <1>3 DEF Given, commitVars, snapVars
<1>4. CASE /\ lastApplied'[n] = Larger(lastApplied[n], i)
           /\ applied'[n] = applied[n] \o Above(UpTo(log'[n], i), lastApplied[n])
  <2>1. PICK a, l, x : a = lastApplied[n] /\ l = UpTo(log'[n], i) /\ x = Above(l, a)
    OBVIOUS
  <2>2. /\ a \in Int /\ a \in Nat /\ i \in Int /\ log'[n] \in Seq(Entry)
        /\ applied[n] \in Seq(Entry) /\ taking[n].snap \in Snapshot
    BY <2>1 DEF TypeOK
  <2>3. /\ l \in Seq(Entry) /\ Increasing(l)
        /\ \A e \in Members(l) : e.index <= i
    BY <2>1, <2>2, CutOrdered, LogCuts
  <2>4. /\ x \in Seq(Entry)
        /\ \A e \in Members(x) : e.index <= i /\ ~ (e.index <= a)
    BY <2>1, <2>2, <2>3, CutOrdered, LogCuts
  <2>5. \A e \in Members(x) : e.index \in Nat
    <3>1. \A k \in 1..Len(x) : x[k] \in Entry
      BY <2>4, ElementOfSeq
    <3> QED BY <3>1 DEF Members, Entry
  <2>6. Members(applied'[n]) = Members(applied[n]) \cup Members(x)
    <3>1. applied'[n] = applied[n] \o x
      BY <1>4, <2>1
    <3> QED BY <2>2, <2>4, <3>1, JoinMembers
  <2>7. lastApplied'[n] \in Nat /\ a <= lastApplied'[n] /\ i <= lastApplied'[n]
    BY <1>4, <2>1, <2>2 DEF Larger
  <2>8. taking' = taking /\ snapFile' = snapFile
    BY DEF snapVars
  <2>9. \A e \in Members(applied[n]) : e.index \in Nat
    <3>1. \A k \in 1..Len(applied[n]) : applied[n][k] \in Entry
      BY <2>2, ElementOfSeq
    <3> QED BY <3>1 DEF Members, Entry
  <2>10. taking[n].snap.index \in Nat
    BY <2>2 DEF Snapshot
  <2>11. \A e \in Members(applied'[n]) : e.index <= lastApplied'[n]
    BY <2>1, <2>2, <2>4, <2>5, <2>6, <2>7, <2>9 DEF Given
  <2>12. taking[n].pc \in {"captured", "published"} =>
            /\ taking[n].snap.index <= lastApplied'[n]
            /\ \A e \in Members(applied'[n]) :
                  e.index <= taking[n].snap.index => e \in Members(taking[n].snap.data)
    BY <2>1, <2>2, <2>4, <2>5, <2>6, <2>7, <2>9, <2>10 DEF Given
  <2> QED BY <2>6, <2>8, <2>11, <2>12 DEF Given
<1> QED BY <1>2, <1>3, <1>4

\* The four steps of TakeSnapshot.
LEMMA GivenBySnapshot ==
    ASSUME TypeOK, NEW n \in Nodes, \A p \in Nodes : Given(p),
           \/ SnapshotDecide(n) \/ SnapshotCapture(n) \/ SnapshotPublish(n) \/ SnapshotTrim(n)
    PROVE  \A p \in Nodes : Given(p)'
<1>9. UNCHANGED <<lastApplied, applied>>
  BY DEF SnapshotDecide, SnapshotCapture, SnapshotPublish, SnapshotTrim, commitVars
<1>10. /\ taking \in [Nodes -> [pc : {"idle", "decided", "captured", "published"}, snap : Snapshot]]
       /\ snapFile \in [Nodes -> Snapshot]
       /\ lastApplied[n] \in Nat
  BY DEF TypeOK
<1>0. /\ UNCHANGED <<lastApplied, applied>>
      /\ taking \in [Nodes -> [pc : {"idle", "decided", "captured", "published"}, snap : Snapshot]]
      /\ snapFile \in [Nodes -> Snapshot]
      /\ lastApplied[n] \in Nat
  BY <1>9, <1>10
<1>1. \A p \in Nodes : p # n => taking'[p] = taking[p] /\ snapFile'[p] = snapFile[p]
  BY <1>0 DEF SnapshotDecide, SnapshotCapture, SnapshotPublish, SnapshotTrim
<1>2. \A p \in Nodes : p # n => Given(p)'
  BY <1>0, <1>1 DEF Given
<1>3. Given(n)
  OBVIOUS
<1>4. CASE snapFile'[n] = snapFile[n] /\ taking'[n].pc \in {"idle", "decided"}
  <2>1. applied'[n] = applied[n] /\ lastApplied'[n] = lastApplied[n]
    BY <1>0
  <2>2. taking'[n].pc # "captured" /\ taking'[n].pc # "published"
    BY <1>4
  <2>3. Given(n)'
    BY <1>3, <1>4, <2>1, <2>2 DEF Given
  <2> QED BY <1>2, <2>3
<1>5. CASE SnapshotDecide(n)
  <2>1. snapFile'[n] = snapFile[n] /\ taking'[n].pc = "decided"
    BY <1>0, <1>5 DEF SnapshotDecide
  <2> QED BY <1>2, <1>4, <2>1
<1>6. CASE SnapshotCapture(n)
  <2>1. snapFile' = snapFile
    BY <1>6 DEF SnapshotCapture
  <2>2. \/ taking'[n] = IdleTaking
        \/ /\ taking'[n].pc = "captured"
           /\ taking'[n].snap.index = lastApplied[n] /\ taking'[n].snap.data = applied[n]
    BY <1>0, <1>6 DEF SnapshotCapture
  <2>3. CASE taking'[n] = IdleTaking
    BY <1>2, <1>4, <2>1, <2>3 DEF IdleTaking
  <2>4. CASE /\ taking'[n].pc = "captured"
             /\ taking'[n].snap.index = lastApplied[n] /\ taking'[n].snap.data = applied[n]
    <3>1. Given(n)'
      BY <1>0, <1>3, <2>1, <2>4 DEF Given
    <3> QED BY <1>2, <3>1
  <2> QED BY <2>2, <2>3, <2>4
<1>7. CASE SnapshotPublish(n)
  <2>1. /\ taking[n].pc = "captured" /\ taking'[n].pc = "published"
        /\ taking'[n].snap = taking[n].snap /\ snapFile'[n] = taking[n].snap
    BY <1>0, <1>7 DEF SnapshotPublish
  <2>2. Given(n)'
    BY <1>0, <1>3, <2>1 DEF Given
  <2> QED BY <1>2, <2>2
<1>8. CASE SnapshotTrim(n)
  <2>1. snapFile'[n] = snapFile[n] /\ taking'[n].pc = "idle"
    BY <1>0, <1>8 DEF SnapshotTrim, IdleTaking
  <2> QED BY <1>2, <1>4, <2>1
<1> QED BY <1>5, <1>6, <1>7, <1>8

\* A restart has the snapshot, and takes the rest of the log for applied.
LEMMA GivenByRestart ==
    ASSUME TypeOK, NEW n \in Nodes, \A p \in Nodes : Given(p), Restart(n)
    PROVE  \A p \in Nodes : Given(p)'
<1>0. /\ lastApplied \in [Nodes -> Nat] /\ applied \in [Nodes -> Seq(Entry)]
      /\ taking \in [Nodes -> [pc : {"idle", "decided", "captured", "published"}, snap : Snapshot]]
      /\ snapFile[n] \in Snapshot /\ log[n] \in Seq(Entry)
  BY DEF TypeOK
<1>1. /\ lastApplied' = [lastApplied EXCEPT ![n] = RestoredCommit(n, log[n])]
      /\ applied' = [applied EXCEPT ![n] = snapFile[n].data]
      /\ taking' = [taking EXCEPT ![n] = IdleTaking] /\ snapFile' = snapFile
  BY DEF Restart, StartFrom
<1>2. \A p \in Nodes : p # n => Given(p)'
  BY <1>0, <1>1 DEF Given
<1>3. /\ lastApplied'[n] = RestoredCommit(n, log[n]) /\ applied'[n] = snapFile[n].data
      /\ taking'[n].pc = "idle"
  BY <1>0, <1>1 DEF IdleTaking
<1>4. snapFile[n].index \in Nat /\ snapFile[n].data \in Seq(Entry) /\ LastIndex(log[n]) \in Nat
  BY <1>0, LogReads DEF Snapshot
<1>5. snapFile[n].index <= lastApplied'[n] /\ lastApplied'[n] \in Nat
  BY <1>3, <1>4 DEF RestoredCommit, Larger
<1>6. \A e \in Members(snapFile[n].data) : e.index \in Nat
  <2>1. \A k \in 1..Len(snapFile[n].data) : snapFile[n].data[k] \in Entry
    BY <1>4, ElementOfSeq
  <2> QED BY <2>1 DEF Members, Entry
<1>7. \A e \in Members(snapFile[n].data) : e.index <= snapFile[n].index
  BY DEF Given
<1>8. \A e \in Members(snapFile[n].data) : e.index <= lastApplied'[n]
  BY <1>4, <1>5, <1>6, <1>7
<1>9. Given(n)'
  BY <1>1, <1>3, <1>7, <1>8 DEF Given
<1> QED BY <1>2, <1>9

LEMMA DurableStep == TypeInv /\ DurableInv /\ [Next]_vars => DurableInv'
<1> SUFFICES ASSUME TypeInv, DurableInv, [Next]_vars PROVE DurableInv'
  OBVIOUS
<1>0. TypeOK /\ TypeOK' /\ Ordered /\ \A p \in Nodes : Given(p)
  BY TypeStep DEF TypeInv, DurableInv
<1>1. CASE UNCHANGED vars
  BY <1>1 DEF DurableInv, Ordered, Given, Appends, vars, diskVars, commitVars, snapVars, netVars
<1>2. CASE Next
  <2>1. Ordered'
    BY <1>0, <1>2, OrderedStep
  <2>2. ASSUME NEW n \in Nodes, HandlerStep(n) PROVE \A p \in Nodes : Given(p)'
    <3>1. UNCHANGED snapVars /\ (UNCHANGED commitVars \/ Gives(n))
      BY <1>0, <2>2, HandlerGives
    <3>2. CASE UNCHANGED commitVars
      BY <1>0, <3>1, <3>2 DEF Given, commitVars, snapVars
    <3>3. CASE Gives(n)
      <4>1. Given(n)'
        BY <1>0, <2>1, <3>1, <3>3, GivenByCommit DEF Ordered
      <4>2. \A p \in Nodes : p # n => lastApplied'[p] = lastApplied[p] /\ applied'[p] = applied[p]
        BY <1>0, <3>3, CommitEffect DEF Gives
      <4>3. \A p \in Nodes : p # n => Given(p)'
        BY <1>0, <3>1, <4>2 DEF Given, snapVars
      <4> QED BY <4>1, <4>3
    <3> QED BY <3>1, <3>2, <3>3
  <2>3. \A p \in Nodes : Given(p)'
    BY <1>0, <1>2, <2>2, StepCases, GivenBySnapshot, GivenByRestart
  <2> QED BY <2>1, <2>3 DEF DurableInv
<1> QED BY <1>1, <1>2

\* Node n finds e again after a crash.
OnDisk(n, e) == e \in Members(log[n]) \/ e \in Members(snapFile[n].data)

\* An entry the state machine was given leaves the disk of a node in one way only:
\* HandleAppendEntries cuts it off the log because the request names another term
\* for an entry at or before it. No step of TakeSnapshot loses it, whatever comes
\* between them, and no crash does, for every number of leaders, snapshots, lost
\* or late requests and restarts.
THEOREM AppliedLeavesByConflict ==
    Spec => [][\A n \in Nodes : \A e \in Members(applied[n]) :
                  OnDisk(n, e) /\ ~ OnDisk(n, e)' => Cuts(n, e) # {}]_vars
<1> DEFINE Leaves == \A n \in Nodes : \A e \in Members(applied[n]) :
                        OnDisk(n, e) /\ ~ OnDisk(n, e)' => Cuts(n, e) # {}
<1>1. TypeInv /\ DurableInv /\ [Next]_vars => [Leaves]_vars
  <2> SUFFICES ASSUME TypeInv, DurableInv, Next, NEW n \in Nodes, NEW e \in Members(applied[n]),
                      OnDisk(n, e), ~ OnDisk(n, e)'
               PROVE  Cuts(n, e) # {}
    OBVIOUS
  <2>0. TypeOK /\ TypeOK' /\ Ordered /\ Given(n)
    BY TypeStep DEF TypeInv, DurableInv
  <2>1. Members(snapFile[n].data) \subseteq Members(snapFile'[n].data)
    <3>1. \/ snapFile'[n] = snapFile[n]
          \/ taking[n].pc = "captured" /\ snapFile'[n] = taking[n].snap
      <4>1. ASSUME NEW p \in Nodes, HandlerStep(p) PROVE snapFile' = snapFile
        BY <2>0, <4>1, HandlerGives DEF snapVars
      <4>2. ASSUME NEW p \in Nodes,
                   SnapshotDecide(p) \/ SnapshotCapture(p) \/ SnapshotTrim(p) \/ Restart(p)
            PROVE  snapFile' = snapFile
        BY <4>2 DEF SnapshotDecide, SnapshotCapture, SnapshotTrim, Restart, StartFrom
      <4>3. ASSUME NEW p \in Nodes, SnapshotPublish(p)
            PROVE  \/ snapFile'[n] = snapFile[n]
                   \/ taking[n].pc = "captured" /\ snapFile'[n] = taking[n].snap
        BY <2>0, <4>3 DEF SnapshotPublish, TypeOK
      <4> QED BY <4>1, <4>2, <4>3, StepCases
    <3> QED BY <2>0, <3>1 DEF Given
  <2>2. e \in Members(log[n]) /\ e \notin Members(log'[n]) /\ e \notin Members(snapFile'[n].data)
    BY <2>1 DEF OnDisk
  <2>3. ~ Keeps(n)
    BY <2>2 DEF Keeps
  <2>4. ~ CutsStart(n)
    <3> SUFFICES ASSUME SnapshotTrim(n), e.index <= taking[n].snap.index
                 PROVE  FALSE
      BY <2>2 DEF CutsStart
    <3>1. snapFile' = snapFile /\ snapFile[n] = taking[n].snap
          /\ e \in Members(taking[n].snap.data)
      BY <2>0 DEF SnapshotTrim, Given
    <3> QED BY <2>2, <3>1
  <2>5. CutsEnd(n)
    BY <2>0, <2>3, <2>4, LogMoves
  <2> QED BY <2>2, <2>5 DEF CutsEnd
<1> QED BY <1>1, TypeInit, TypeStep, DurableInit, DurableStep, PTL DEF Spec
=============================================================================
