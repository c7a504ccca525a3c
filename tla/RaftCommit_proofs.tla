------------------------- MODULE RaftCommit_proofs --------------------------
(***************************************************************************)
(* What RaftNode commits, for every cluster and every bound, until the     *)
(* first snapshot is taken or a second leader is elected: a committed      *)
(* entry is on a majority and stays, and the state machine was given it.   *)
(* The condition is the code's: AppendNew lets a follower keep entries of  *)
(* an old leader that the new one does not have, and confirms them.        *)
(***************************************************************************)
EXTENDS RaftLog_proofs

-----------------------------------------------------------------------------
(* The inductive invariant.                                                *)

\* At most one leader was elected, in one term.
OneLeader == \A a, b \in elected : a = b

FirstLeader == snapshots = 0 /\ OneLeader

\* What is known of such a state from the proofs about elections and logs.
Base == TypeInv /\ LogInv /\ SlotInv /\ OneLeader

WasElected(n) == \E l \in elected : l.node = n

NeverSnapped ==
    \A n \in Nodes : /\ snapMeta[n] = [index |-> 0, term |-> 0]
                     /\ snapFile[n] = NoSnapshot

\* A request comes from the leader, never to itself, and names the term of an
\* entry it has.
FromLeader(m) ==
    m.type = "AppendEntries" =>
        /\ m.src # m.dst /\ WasElected(m.src)
        /\ m.prevIndex = 0 => m.prevTerm = 0
        /\ m.prevIndex > 0 => \E l \in elected : l.term = m.prevTerm

\* Only the leader is ever inside SendHeartbeats.
Senders ==
    /\ \A m \in requests : FromLeader(m)
    /\ \A n \in Nodes : ~ LockFree(n) => WasElected(n)

\* next_index_ points at most one entry behind the log.
NextBound == \A n, p \in Nodes : nextIndex[n][p] <= Len(log[n]) + 1

\* A log is at least as long as the leader was told, or is about to be told.
MatchBound ==
    /\ \A n, p \in Nodes : matchIndex[n][p] <= Len(log[p])
    /\ \A r \in replies : r.type = "AppendEntries" /\ r.success => r.match <= Len(log[r.src])

CommitBound == \A n \in Nodes : commitIndex[n] <= Len(log[n])

\* A worker between the first critical section of Propose and its answer.
Waits(v) == call[v].pc \in {"appended", "advanced", "sent", "asleep"}

\* It runs at the leader, where its entry stays.
Calls ==
    \A v \in Commands :
        /\ call[v].node # Nil => WasElected(call[v].node)
        /\ Waits(v) \/ call[v].pc = "committed" =>
              /\ call[v].node \in Nodes
              /\ call[v].index \in 1..Len(log[call[v].node])
              /\ log[call[v].node][call[v].index].cmd = v

Holders(i) == {p \in Nodes : Len(log[p]) >= i}

OnMajority(i) == Cardinality(Holders(i)) >= Majority

\* The leader, or a deposed one that still has a worker inside Propose.
Leads(n) == state[n] = "LEADER" \/ \E v \in Commands : Waits(v) /\ call[v].node = n

\* What a leader committed or a worker reported is on a majority.
Backed ==
    /\ \A n \in Nodes : Leads(n) => commitIndex[n] = 0 \/ OnMajority(commitIndex[n])
    /\ \A v \in Commands : call[v].pc = "committed" => OnMajority(call[v].index)

\* The state machine was given entries of the log, and without a restart all of
\* them up to last_applied_.
Applied ==
    \A n \in Nodes :
        /\ lastApplied[n] = commitIndex[n]
        /\ \A j \in 1..Len(applied[n]) : \E k \in 1..Len(log[n]) : log[n][k] = applied[n][j]
        /\ restarts = 0 => \A k \in 1..lastApplied[n] :
                              \E j \in 1..Len(applied[n]) : applied[n][j] = log[n][k]

CommitInv ==
    /\ NeverSnapped /\ Senders /\ NextBound /\ MatchBound
    /\ CommitBound /\ Calls /\ Backed /\ Applied

CInv == FirstLeader => CommitInv

-----------------------------------------------------------------------------
(* Logs under one leader.                                                  *)

\* A log is a sequence whose positions are its indexes.
Whole(n) ==
    /\ log[n] \in Seq(Entry) /\ Follows(log[n], 0)
    /\ LastIndex(log[n]) = Len(log[n]) /\ Len(log[n]) \in Nat

LEMMA WholeLogs == Base => \A n \in Nodes : Whole(n)
<1> SUFFICES ASSUME Base, NEW n \in Nodes PROVE Whole(n)
  OBVIOUS
<1>1. log[n] \in Seq(Entry) /\ Follows(log[n], 0)
  BY DEF Base, TypeInv, TypeOK, LogInv, LogContiguous, Follows
<1>2. LastIndex(log[n]) = Len(log[n]) /\ Len(log[n]) \in Nat
  BY <1>1, LastFollows
<1> QED BY <1>1, <1>2 DEF Whole

LEMMA WholeLogsNext == ASSUME Base' PROVE \A n \in Nodes : Whole(n)'
<1>1. (Base => \A n \in Nodes : Whole(n))'
  BY WholeLogs, PTL
<1> QED BY <1>1

\* All entries are of the one leader, so the index determines the entry.
LEMMA LogsAlike ==
    ASSUME Base, NEW n \in Nodes, NEW p \in Nodes, NEW k \in 1..Len(log[n]), k \in 1..Len(log[p])
    PROVE  log[n][k] = log[p][k]
<1>1. log[n][k] \in Entries /\ log[p][k] \in Entries
  BY EntryWhere
<1>2. log[n][k].term = log[p][k].term
  BY <1>1 DEF Base, SlotInv, EntriesElected, OneLeader
<1>3. log[n][k].index = log[p][k].index
  BY DEF Base, LogInv, LogContiguous
<1> QED BY <1>1, <1>2, <1>3 DEF Base, SlotInv, SlotsAgree

\* Nobody's log is longer than the leader's.
LEMMA LeaderLongest ==
    ASSUME Base, NEW n \in Nodes, state[n] = "LEADER", NEW p \in Nodes
    PROVE  Len(log[p]) <= Len(log[n]) /\ WasElected(n)
<1>0. Len(log[p]) \in Nat /\ Len(log[n]) \in Nat
  BY WholeLogs DEF Whole
<1>1. PICK w : w = [node |-> n, term |-> currentTerm[n]]
  OBVIOUS
<1>2. w \in elected /\ w.node = n /\ w.term = currentTerm[n]
  BY <1>1 DEF Base, SlotInv, LeaderHolds
<1>3. CASE Len(log[p]) >= 1
  <2>1. Len(log[p]) \in 1..Len(log[p])
    BY <1>0, <1>3
  <2>2. PICK e : e = log[p][Len(log[p])]
    OBVIOUS
  <2>3. e \in Entries /\ e.index = Len(log[p])
    BY <2>1, <2>2, EntryWhere DEF Base, LogInv, LogContiguous
  <2>4. e.term = currentTerm[n]
    BY <1>2, <2>3 DEF Base, SlotInv, EntriesElected, OneLeader
  <2>5. e.index \in 1..Len(log[n])
    BY <2>3, <2>4 DEF Base, SlotInv, LeaderHolds
  <2> QED BY <1>0, <1>2, <2>3, <2>5 DEF WasElected
<1>4. CASE ~ (Len(log[p]) >= 1)
  BY <1>0, <1>2, <1>4 DEF WasElected
<1> QED BY <1>3, <1>4

\* Before the election there is nothing in a log.
LEMMA EmptyBefore ==
    ASSUME Base, elected = {}, NEW n \in Nodes
    PROVE  Len(log[n]) = 0
<1>0. Len(log[n]) \in Nat
  BY WholeLogs DEF Whole
<1>1. CASE Len(log[n]) >= 1
  <2>1. 1 \in 1..Len(log[n])
    BY <1>0, <1>1
  <2>2. log[n][1] \in Entries
    BY <2>1, EntryWhere
  <2> QED BY <2>2 DEF Base, SlotInv, EntriesElected
<1> QED BY <1>0, <1>1

\* A candidate that wins is the first one that does.
LEMMA FirstElection ==
    ASSUME Base, Base', RoleStep, NEW n \in Nodes, state'[n] = "LEADER", state[n] # "LEADER"
    PROVE  elected = {}
<1> SUFFICES ASSUME NEW l \in elected PROVE FALSE
  OBVIOUS
<1>0. PICK w : w = [node |-> n, term |-> currentTerm[n]]
  OBVIOUS
<1>1. state[n] = "CANDIDATE" /\ w \in elected' /\ l \in elected'
  BY <1>0 DEF RoleStep
<1>2. l = w
  BY <1>1 DEF Base, OneLeader
<1>3. l.node = n /\ l.term = currentTerm[n]
  BY <1>0, <1>2
<1>4. currentTerm[n] \in Nat /\ l.term < currentTerm[n]
  BY <1>1, <1>3 DEF Base, TypeInv, TypeOK, SlotInv, ElectedBefore
<1> QED BY <1>3, <1>4

-----------------------------------------------------------------------------
(* No log loses an entry.                                                  *)

\* A request agrees with every log, so none is cut.
LEMMA NoConflict ==
    ASSUME Base, NeverSnapped, Senders, NEW n \in Nodes, NEW m \in requests,
           m.type = "AppendEntries"
    PROVE  ~ PrevConflict(n, m) /\ ~ PrevCompacted(n, m)
<1>1. m.prevIndex \in Nat
  <2>1. m \in VoteRequest \cup AppendRequest
    BY DEF Base, TypeInv, TypeOK
  <2>2. m \notin VoteRequest
    BY DEF VoteRequest
  <2> QED BY <2>1, <2>2 DEF AppendRequest
<1>2. Follows(log[n], 0) /\ Len(log[n]) \in Nat
  BY WholeLogs DEF Whole
<1>3. /\ m.prevIndex = 0 => m.prevTerm = 0
      /\ m.prevIndex > 0 => \E l \in elected : l.term = m.prevTerm
  BY DEF Senders, FromLeader
<1>4. ~ PrevCompacted(n, m)
  BY <1>1 DEF NeverSnapped, PrevCompacted
<1>5. \A k \in 1..Len(log[n]) : log[n][k].index = k /\ \E l \in elected : l.term = log[n][k].term
  <2>1. \A k \in 1..Len(log[n]) : log[n][k].index = k
    BY DEF Base, LogInv, LogContiguous
  <2>2. \A k \in 1..Len(log[n]) : log[n][k] \in Entries
    BY EntryWhere
  <2> QED BY <2>1, <2>2 DEF Base, SlotInv, EntriesElected
<1>6. CASE m.prevIndex = 0
  <2>1. TermAt(log[n], m.prevIndex) = 0
    BY <1>2, <1>5, <1>6 DEF TermAt
  <2> QED BY <1>3, <1>4, <1>6, <2>1 DEF PrevConflict
<1>7. CASE m.prevIndex # 0 /\ HasEntry(log[n], m.prevIndex)
  <2>1. \E k \in 1..Len(log[n]) : log[n][k].index = m.prevIndex
    BY <1>7 DEF HasEntry
  <2>2. PICK k \in 1..Len(log[n]) : TermAt(log[n], m.prevIndex) = log[n][k].term
    BY <2>1 DEF TermAt
  <2>3. TermAt(log[n], m.prevIndex) = m.prevTerm
    BY <1>1, <1>3, <1>5, <1>7, <2>2 DEF Base, OneLeader
  <2> QED BY <1>4, <2>3 DEF PrevConflict
<1> QED BY <1>4, <1>6, <1>7 DEF PrevConflict

\* So a request is refused without effect, or extends the log.
Refused(n) ==
    /\ UNCHANGED <<log, commitVars>>
    /\ \A r \in replies' : r \in replies \/ ~ r.success

Extended(n, m) ==
    LET l == AppendNew(log[n], m.entries)
    IN  /\ ~ PrevMissing(n, m)
        /\ log' = [log EXCEPT ![n] = l]
        /\ CommitTo(n, Smaller(m.commit, LastIndex(l)), l)
        /\ \A r \in replies' : r \in replies \/ (r.src = n /\ r.match = LastIndex(l))

LEMMA ReceiveStep ==
    ASSUME Base, NeverSnapped, Senders, NEW n \in Nodes, NEW m \in requests,
           HandleAppendEntries(n, m)
    PROVE  /\ m \in Appends /\ ~ WasElected(n)
           /\ UNCHANGED <<leaderVars, snapVars, threadVars, call, boundVars, historyVars>>
           /\ requests' = requests \ {m}
           /\ Refused(n) \/ Extended(n, m)
<1>1. m.type = "AppendEntries" /\ m.dst = n
  BY DEF HandleAppendEntries
<1>2. ~ PrevConflict(n, m) /\ ~ PrevCompacted(n, m)
  BY <1>1, NoConflict
<1>3. WasElected(m.src) /\ m.src # n
  BY <1>1 DEF Senders, FromLeader
<1>4. ~ WasElected(n)
  BY <1>3 DEF WasElected, Base, OneLeader
<1>5. requests' = requests \ {m}
  BY DEF HandleAppendEntries, Answer
<1>6. Refused(n) \/ Extended(n, m)
  <2> DEFINE reply(t, ok, match) ==
               [type |-> "AppendEntries", src |-> n, dst |-> m.src,
                term |-> t, success |-> ok, match |-> match]
  <2>1. \A t, match : reply(t, FALSE, match).success = FALSE
    OBVIOUS
  <2>2. \A t, match : reply(t, TRUE, match).src = n /\ reply(t, TRUE, match).match = match
    OBVIOUS
  <2>3. ASSUME NEW t, NEW match, Answer(m, reply(t, FALSE, match)), UNCHANGED <<log, commitVars>>
        PROVE  Refused(n)
    BY <2>1, <2>3 DEF Answer, Refused
  <2>4. ASSUME NEW l, NEW t, Answer(m, reply(t, TRUE, LastIndex(l)))
        PROVE  \A r \in replies' : r \in replies \/ (r.src = n /\ r.match = LastIndex(l))
    BY <2>2, <2>4 DEF Answer
  <2>5. \/ \E t, match : Answer(m, reply(t, FALSE, match)) /\ UNCHANGED <<log, commitVars>>
        \/ LET l == AppendNew(log[n], m.entries)
           IN  /\ ~ PrevMissing(n, m)
               /\ log' = [log EXCEPT ![n] = l]
               /\ CommitTo(n, Smaller(m.commit, LastIndex(l)), l)
               /\ Answer(m, reply(m.term, TRUE, LastIndex(l)))
    BY <1>2 DEF HandleAppendEntries, diskVars
  <2> HIDE DEF reply
  <2> QED BY <2>3, <2>4, <2>5 DEF Extended
<1>7. UNCHANGED <<leaderVars, snapVars, threadVars, call, boundVars, historyVars>>
  BY DEF HandleAppendEntries
<1> QED BY <1>1, <1>4, <1>5, <1>6, <1>7 DEF Appends

\* Every log keeps its entries where they are.
Grows ==
    \A n \in Nodes : /\ Len(log[n]) <= Len(log'[n])
                     /\ \A k \in 1..Len(log[n]) : log'[n][k] = log[n][k]

\* What a follower appends comes after what it has.
LEMMA ExtendGrows ==
    ASSUME NEW l \in Seq(Entry), NEW new \in Seq(Entry)
    PROVE  /\ Len(l) <= Len(AppendNew(l, new))
           /\ \A k \in 1..Len(l) : AppendNew(l, new)[k] = l[k]
<1> DEFINE a == Above(new, LastIndex(l))
<1>1. LastIndex(l) \in Int
  <2>1. LastIndex(l) \in Nat
    BY LogReads
  <2> QED BY <2>1
<1>2. a \in Seq(Entry) /\ Len(a) \in Nat /\ Len(l) \in Nat
  <2>1. a \in Seq(Entry)
    BY <1>1, LogCuts
  <2> HIDE DEF a
  <2> QED BY <2>1, LenProperties
<1>3. AppendNew(l, new) = l \o a
  BY DEF AppendNew
<1> HIDE DEF a
<1>4. /\ Len(l \o a) = Len(l) + Len(a)
      /\ \A k \in 1..Len(l) + Len(a) : (l \o a)[k] = IF k <= Len(l) THEN l[k] ELSE a[k - Len(l)]
  BY <1>2, ConcatProperties
<1> QED BY <1>2, <1>3, <1>4

LEMMA GrowsStep ==
    ASSUME Base, NeverSnapped, Senders, Next
    PROVE  Grows
<1>0. TypeOK /\ NoneTaken /\ LogInv /\ log \in [Nodes -> Seq(Entry)]
      /\ \A n \in Nodes : Len(log[n]) \in Nat
  BY WholeLogs DEF Base, TypeInv, TypeOK, LogInv, Whole
<1>1. CASE log' = log
  BY <1>0, <1>1 DEF Grows
<1>2. ASSUME NEW n \in Nodes, NEW m \in requests, HandleAppendEntries(n, m) PROVE Grows
  <2>1. m \in Appends /\ (Refused(n) \/ Extended(n, m))
    BY <1>2, ReceiveStep
  <2>2. CASE Refused(n)
    BY <1>1, <2>2 DEF Refused
  <2>3. CASE Extended(n, m)
    <3>1. m.entries \in Seq(Entry)
      <4>1. m \in VoteRequest \cup AppendRequest /\ m.type = "AppendEntries"
        BY <1>0, <2>1 DEF TypeOK, Appends
      <4>2. m \notin VoteRequest
        BY <4>1 DEF VoteRequest
      <4> QED BY <4>1, <4>2 DEF AppendRequest
    <3>2. PICK l : l = AppendNew(log[n], m.entries)
      OBVIOUS
    <3>3. Len(log[n]) <= Len(l) /\ \A k \in 1..Len(log[n]) : l[k] = log[n][k]
      BY <1>0, <3>1, <3>2, ExtendGrows
    <3>4. log' = [log EXCEPT ![n] = l]
      BY <2>3, <3>2 DEF Extended
    <3> QED BY <1>0, <3>3, <3>4 DEF Grows
  <2> QED BY <2>1, <2>2, <2>3
<1>3. ASSUME NEW n \in Nodes, NEW v \in Commands, Propose(n, v) PROVE Grows
  <2>1. /\ \A p \in Nodes : p # n => log'[p] = log[p]
        /\ Len(log[n]) \in Nat /\ Len(log'[n]) = Len(log[n]) + 1
        /\ \A k \in 1..Len(log[n]) : log'[n][k] = log[n][k]
    BY <1>0, <1>3, ProposeLog
  <2> QED BY <1>0, <2>1 DEF Grows
<1> QED BY <1>0, <1>1, <1>2, <1>3, LogsStep

-----------------------------------------------------------------------------
(* How far a leader counts: next_index_ and match_index_.                  *)

\* No snapshot reaches a disk or a log.
LEMMA NeverSnappedStep ==
    ASSUME Base, NeverSnapped, Next
    PROVE  NeverSnapped'
<1>0. /\ snapMeta \in [Nodes -> [index : Nat, term : Nat]] /\ NoneTaken
      /\ snapFile \in [Nodes -> Snapshot]
  BY DEF Base, TypeInv, TypeOK, LogInv
<1>1. CASE UNCHANGED <<snapMeta, snapFile>>
  BY <1>1 DEF NeverSnapped
<1>2. ASSUME NEW n \in Nodes PROVE ~ SnapshotPublish(n) /\ ~ SnapshotTrim(n)
  BY <1>0 DEF NoneTaken, SnapshotPublish, SnapshotTrim
<1>3. ASSUME NEW n \in Nodes, Restart(n) PROVE NeverSnapped'
  <2>1. snapMeta' = [snapMeta EXCEPT ![n] = RestoredSnapshot(n)] /\ snapFile' = snapFile
    BY <1>3 DEF Restart, StartFrom
  <2>2. RestoredSnapshot(n) = [index |-> 0, term |-> 0]
    BY DEF NeverSnapped, NoSnapshot, RestoredSnapshot
  <2> QED BY <1>0, <2>1, <2>2 DEF NeverSnapped
<1>4. ASSUME NEW n \in Nodes,
             \/ BecomeCandidate(n) \/ FinishElection(n)
             \/ StartElection(n) \/ RequestVoteTimeout(n) \/ ResumeElection(n)
             \/ HeartbeatTimeout(n) \/ AppendEntriesTimeout(n)
             \/ SnapshotDecide(n) \/ SnapshotCapture(n)
      PROVE  UNCHANGED <<snapMeta, snapFile>>
  BY <1>4 DEF BecomeCandidate, FinishElection, StartElection, RequestVoteTimeout, ResumeElection,
       HeartbeatTimeout, AppendEntriesTimeout, SnapshotDecide, SnapshotCapture, snapVars
<1>5. ASSUME NEW n \in Nodes, NEW r \in replies,
             HandleRequestVoteResponse(n, r) \/ HandleAppendEntriesResponse(n, r)
      PROVE  UNCHANGED <<snapMeta, snapFile>>
  BY <1>5 DEF HandleRequestVoteResponse, HandleAppendEntriesResponse, snapVars
<1>6. ASSUME NEW n \in Nodes, NEW m \in requests,
             HandleRequestVote(n, m) \/ HandleAppendEntries(n, m)
      PROVE  UNCHANGED <<snapMeta, snapFile>>
  BY <1>6 DEF HandleRequestVote, HandleAppendEntries, snapVars
<1>7. ASSUME NEW n \in Nodes, NEW v \in Commands,
             \/ Propose(n, v) \/ ProposeAdvance(n, v) \/ ProposeSend(n, v)
             \/ ProposeCheck(n, v) \/ ProposeTimeout(n, v)
      PROVE  UNCHANGED <<snapMeta, snapFile>>
  BY <1>7 DEF Propose, ProposeAdvance, ProposeSend, ProposeCheck, ProposeTimeout, snapVars
<1> QED BY <1>1, <1>2, <1>3, <1>4, <1>5, <1>6, <1>7 DEF Next

\* The steps that change next_index_ or match_index_.
LEMMA ProgressStep ==
    ASSUME Next
    PROVE  \/ UNCHANGED leaderVars
           \/ \E n \in Nodes : BecomeLeader(n) \/ Restart(n)
           \/ \E n \in Nodes, r \in replies : HandleAppendEntriesResponse(n, r)
           \/ \E n \in Nodes, v \in Commands : Propose(n, v)
<1>1. ASSUME NEW n \in Nodes,
             \/ BecomeCandidate(n)
             \/ StartElection(n) \/ RequestVoteTimeout(n) \/ ResumeElection(n)
             \/ HeartbeatTimeout(n) \/ AppendEntriesTimeout(n)
             \/ SnapshotDecide(n) \/ SnapshotCapture(n) \/ SnapshotPublish(n) \/ SnapshotTrim(n)
      PROVE  UNCHANGED leaderVars
  BY <1>1 DEF BecomeCandidate, StartElection, RequestVoteTimeout, ResumeElection,
       HeartbeatTimeout, AppendEntriesTimeout, SnapshotDecide, SnapshotCapture,
       SnapshotPublish, SnapshotTrim
<1>2. ASSUME NEW n \in Nodes, FinishElection(n)
      PROVE  UNCHANGED leaderVars \/ BecomeLeader(n)
  BY <1>2 DEF FinishElection
<1>3. ASSUME NEW n \in Nodes, NEW r \in replies, HandleRequestVoteResponse(n, r)
      PROVE  UNCHANGED leaderVars \/ BecomeLeader(n)
  BY <1>3 DEF HandleRequestVoteResponse
<1>4. ASSUME NEW n \in Nodes, NEW m \in requests,
             HandleRequestVote(n, m) \/ HandleAppendEntries(n, m)
      PROVE  UNCHANGED leaderVars
  BY <1>4 DEF HandleRequestVote, HandleAppendEntries
<1>5. ASSUME NEW n \in Nodes, NEW v \in Commands,
             \/ ProposeAdvance(n, v) \/ ProposeSend(n, v)
             \/ ProposeCheck(n, v) \/ ProposeTimeout(n, v)
      PROVE  UNCHANGED leaderVars
  BY <1>5 DEF ProposeAdvance, ProposeSend, ProposeCheck, ProposeTimeout
<1> QED BY <1>1, <1>2, <1>3, <1>4, <1>5 DEF Next

\* next_index_ stays within the log and one entry more.
LEMMA NextBoundStep ==
    ASSUME Base, Base', NeverSnapped, NextBound, MatchBound, Grows, Next
    PROVE  NextBound'
<1>0. /\ nextIndex \in [Nodes -> [Nodes -> Nat]]
      /\ \A n \in Nodes : /\ Len(log[n]) \in Nat /\ Len(log'[n]) \in Nat
                          /\ Len(log[n]) <= Len(log'[n])
                          /\ LastIndex(log[n]) = Len(log[n])
  BY WholeLogs, WholeLogsNext DEF Base, TypeInv, TypeOK, Whole, Grows
<1>10. \A n, p \in Nodes : nextIndex[n][p] \in Nat /\ nextIndex[n][p] <= Len(log'[n]) + 1
  <2>1. ASSUME NEW n \in Nodes, NEW p \in Nodes
        PROVE  nextIndex[n][p] \in Nat /\ nextIndex[n][p] <= Len(log[n]) + 1
    BY <1>0 DEF NextBound
  <2> QED BY <1>0, <2>1
<1>1. ASSUME NEW n \in Nodes, NEW f \in [Nodes -> Nat], nextIndex' = [nextIndex EXCEPT ![n] = f],
             \A p \in Nodes : f[p] <= Len(log'[n]) + 1
      PROVE  NextBound'
  <2>1. nextIndex'[n] = f /\ \A q \in Nodes : q # n => nextIndex'[q] = nextIndex[q]
    BY <1>0, <1>1
  <2> QED BY <1>1, <1>10, <2>1 DEF NextBound
<1>2. CASE UNCHANGED leaderVars
  BY <1>2, <1>10 DEF NextBound, leaderVars
<1>3. ASSUME NEW n \in Nodes, BecomeLeader(n) PROVE NextBound'
  <2>1. snapMeta[n].index = 0
    BY DEF NeverSnapped
  <2>2. PICK f : f = [p \in Nodes |->
                        IF p = n THEN 0 ELSE Larger(LastIndex(log[n]), snapMeta[n].index) + 1]
    OBVIOUS
  <2>3. f \in [Nodes -> Nat] /\ \A p \in Nodes : f[p] <= Len(log'[n]) + 1
    <3>1. /\ Len(log[n]) \in Nat /\ Len(log'[n]) \in Nat /\ Len(log[n]) <= Len(log'[n])
          /\ LastIndex(log[n]) = Len(log[n])
      BY <1>0
    <3> QED BY <2>1, <2>2, <3>1 DEF Larger
  <2>4. nextIndex' = [nextIndex EXCEPT ![n] = f]
    BY <1>3, <2>2 DEF BecomeLeader
  <2> QED BY <1>1, <2>3, <2>4
<1>4. ASSUME NEW n \in Nodes, Restart(n) PROVE NextBound'
  <2>1. PICK f : f = [p \in Nodes |-> 0]
    OBVIOUS
  <2>2. f \in [Nodes -> Nat] /\ \A p \in Nodes : f[p] <= Len(log'[n]) + 1
    BY <1>0, <2>1
  <2>3. nextIndex' = [nextIndex EXCEPT ![n] = f]
    BY <1>4, <2>1 DEF Restart, StartFrom
  <2> QED BY <1>1, <2>2, <2>3
<1>5. ASSUME NEW n \in Nodes, NEW q \in Nodes, NEW i \in Nat, i <= Len(log'[n]) + 1,
             nextIndex' = [nextIndex EXCEPT ![n][q] = i]
      PROVE  NextBound'
  <2>1. PICK f : f = [nextIndex[n] EXCEPT ![q] = i]
    OBVIOUS
  <2>2. f \in [Nodes -> Nat] /\ \A p \in Nodes : f[p] <= Len(log'[n]) + 1
    <3>1. nextIndex[n] \in [Nodes -> Nat]
      BY <1>0
    <3>2. f \in [Nodes -> Nat] /\ f[q] = i /\ \A p \in Nodes : p # q => f[p] = nextIndex[n][p]
      BY <2>1, <3>1
    <3> QED BY <1>5, <1>10, <3>2
  <2>3. nextIndex' = [nextIndex EXCEPT ![n] = f]
    BY <1>5, <2>1
  <2> QED BY <1>1, <2>2, <2>3
<1>6. ASSUME NEW n \in Nodes, NEW r \in replies, HandleAppendEntriesResponse(n, r)
      PROVE  NextBound'
  <2>1. r.src \in Nodes /\ r.match \in Nat /\ r.type = "AppendEntries"
    <3>1. r.type = "AppendEntries" /\ r \in VoteReply \cup AppendReply
      BY <1>6 DEF HandleAppendEntriesResponse, Base, TypeInv, TypeOK
    <3>2. r \notin VoteReply
      BY <3>1 DEF VoteReply
    <3> QED BY <3>1, <3>2 DEF AppendReply
  <2>2. \/ UNCHANGED leaderVars
        \/ /\ state[n] = "LEADER" /\ r.success
           /\ nextIndex' = [nextIndex EXCEPT ![n][r.src] = r.match + 1]
        \/ nextIndex' = [nextIndex EXCEPT
                ![n][r.src] = IF r.match < @ THEN BackOff(n, r.match) ELSE @]
    BY <1>6 DEF HandleAppendEntriesResponse
  <2>3. CASE /\ state[n] = "LEADER" /\ r.success
             /\ nextIndex' = [nextIndex EXCEPT ![n][r.src] = r.match + 1]
    <3>1. r.match <= Len(log[r.src]) /\ Len(log[r.src]) <= Len(log[n])
      BY <2>1, <2>3, LeaderLongest DEF MatchBound
    <3>2. r.match + 1 \in Nat /\ r.match + 1 <= Len(log'[n]) + 1
      <4>1. /\ Len(log[r.src]) \in Nat /\ Len(log[n]) \in Nat /\ Len(log'[n]) \in Nat
            /\ Len(log[n]) <= Len(log'[n]) /\ r.match \in Nat
        BY <1>0, <2>1
      <4>2. \A w, x, y, z \in Nat :
               w <= x /\ x <= y /\ y <= z => w + 1 \in Nat /\ w + 1 <= z + 1
        OBVIOUS
      <4> QED BY <3>1, <4>1, <4>2
    <3> QED BY <1>5, <2>1, <2>3, <3>2
  <2>4. CASE nextIndex' = [nextIndex EXCEPT
                ![n][r.src] = IF r.match < @ THEN BackOff(n, r.match) ELSE @]
    <3>1. PICK i : i = IF r.match < nextIndex[n][r.src] THEN BackOff(n, r.match)
                       ELSE nextIndex[n][r.src]
      OBVIOUS
    <3>2. nextIndex[n][r.src] \in Nat /\ nextIndex[n][r.src] <= Len(log[n]) + 1
      BY <1>0, <2>1 DEF NextBound
    <3>3. i \in Nat /\ i <= Len(log'[n]) + 1
      <4>1. snapMeta[n].index = 0
        BY DEF NeverSnapped
      <4>2. BackOff(n, r.match) = r.match + 1
        BY <2>1, <4>1 DEF BackOff, Larger
      <4>3. Len(log[n]) \in Nat /\ Len(log'[n]) \in Nat /\ Len(log[n]) <= Len(log'[n])
        BY <1>0
      <4> QED BY <2>1, <3>1, <3>2, <4>2, <4>3
    <3>4. nextIndex' = [nextIndex EXCEPT ![n][r.src] = i]
      BY <2>4, <3>1
    <3> QED BY <1>5, <2>1, <3>3, <3>4
  <2> QED BY <1>2, <2>2, <2>3, <2>4
<1>7. ASSUME NEW n \in Nodes, NEW v \in Commands, Propose(n, v) PROVE NextBound'
  <2>1. PICK i : i = LastIndex(log[n]) + 1 + 1
    OBVIOUS
  <2>2. nextIndex' = [nextIndex EXCEPT ![n][n] = i]
    BY <1>7, <2>1 DEF Propose
  <2>3. Len(log'[n]) = Len(log[n]) + 1
    BY <1>7, ProposeLog DEF Base, TypeInv
  <2>4. i \in Nat /\ i <= Len(log'[n]) + 1
    BY <1>0, <2>1, <2>3
  <2> QED BY <1>5, <2>2, <2>4
<1> QED BY <1>2, <1>3, <1>4, <1>6, <1>7, ProgressStep

-----------------------------------------------------------------------------
(* Who sends AppendEntries.                                                *)

LEMMA SentByLeader ==
    ASSUME RoleStep, Senders
    PROVE  /\ \A m \in requests : FromLeader(m)'
           /\ \A n \in Nodes : WasElected(n) => WasElected(n)'
  BY DEF RoleStep, Senders, FromLeader, WasElected

LEMMA LateByLeader ==
    ASSUME requests \in SUBSET Requests, NEW m \in requests, FromLeader(m)'
    PROVE  FromLeader([m EXCEPT !.live = FALSE])'
<1> DEFINE late == [m EXCEPT !.live = FALSE]
<1>1. CASE m \in VoteRequest
  <2>1. late.type = "RequestVote"
    BY <1>1 DEF VoteRequest
  <2> QED BY <2>1 DEF FromLeader
<1>2. CASE m \in AppendRequest
  <2>1. /\ m.type = "AppendEntries" /\ late.src = m.src /\ late.dst = m.dst
        /\ late.prevIndex = m.prevIndex /\ late.prevTerm = m.prevTerm
    BY <1>2 DEF AppendRequest
  <2> HIDE DEF late
  <2>2. FromLeader(late)'
    BY <2>1 DEF FromLeader
  <2> QED BY <2>2 DEF late
<1> QED BY <1>1, <1>2 DEF Requests

LEMMA AbandonedByLeader ==
    ASSUME requests \in SUBSET Requests, \A m \in requests : FromLeader(m)',
           NEW n, NEW p, NEW type, NEW sent \in Abandoned(n, p, type)
    PROVE  \A m \in sent : FromLeader(m)'
<1>1. \A m \in sent : m \in requests \/ \E k \in requests : m = [k EXCEPT !.live = FALSE]
  BY DEF Abandoned
<1> QED BY <1>1, LateByLeader

\* The term a leader reads before the new entries.
LEMMA PrevTermKnown ==
    ASSUME Base, NeverSnapped, NEW n \in Nodes, NEW i \in Int, i <= Len(log[n])
    PROVE  /\ i = 0 => PrevTerm(n, i) = 0
           /\ i > 0 => \E l \in elected : l.term = PrevTerm(n, i)
<1>1. snapMeta[n].index = 0 /\ snapMeta[n].term = 0
  BY DEF NeverSnapped
<1>2. CASE i > 0
  <2>1. i \in 1..Len(log[n]) /\ log[n][i].index = i
    <3>1. Len(log[n]) \in Nat
      BY WholeLogs DEF Whole
    <3>2. i \in 1..Len(log[n])
      BY <1>2, <3>1
    <3> QED BY <3>2 DEF Base, LogInv, LogContiguous
  <2>2. PICK k \in 1..Len(log[n]) : TermAt(log[n], i) = log[n][k].term
    BY <2>1 DEF TermAt
  <2>3. log[n][k] \in Entries
    BY <2>2, EntryWhere
  <2>4. PrevTerm(n, i) = TermAt(log[n], i)
    BY <1>1, <1>2 DEF PrevTerm
  <2> QED BY <1>2, <2>2, <2>3, <2>4 DEF Base, SlotInv, EntriesElected
<1> QED BY <1>1, <1>2 DEF PrevTerm

\* A turn of SendHeartbeats in the thread of the leader.
LEMMA RoundByLeader ==
    ASSUME Base, Base', NeverSnapped, NextBound', RoleStep, log' = log,
           NEW n \in Nodes, WasElected(n)', NEW todo \in SUBSET Peers(n),
           NEW sent, \A m \in sent : FromLeader(m)', ContinueRound(n, todo, sent)
    PROVE  /\ \A m \in requests' : FromLeader(m)'
           /\ \A p \in Nodes : p # n => round'[p] = round[p]
<1>1. round \in [Nodes -> RoundType] /\ nextIndex' \in [Nodes -> [Nodes -> Nat]]
      /\ Len(log[n]) \in Nat
  BY WholeLogs DEF Base, TypeInv, TypeOK, RoundType, Whole
<1>2. \A p \in Nodes : p # n => round'[p] = round[p]
  BY <1>1 DEF ContinueRound
<1>3. ASSUME NEW p \in todo, NEW m, m = AppendMessage(n, p) PROVE FromLeader(m)'
  <2>1. PICK i : i = nextIndex'[n][p] - 1
    OBVIOUS
  <2>2. p \in Nodes /\ p # n
    BY DEF Peers
  <2>3. i \in Int /\ i <= Len(log[n])
    <3>1. nextIndex'[n][p] \in Nat /\ nextIndex'[n][p] <= Len(log[n]) + 1
      BY <1>1, <2>2 DEF NextBound
    <3> QED BY <1>1, <2>1, <3>1
  <2>4. /\ m.type = "AppendEntries" /\ m.src = n /\ m.dst = p
        /\ m.prevIndex = i /\ m.prevTerm = PrevTerm(n, i)
    BY <1>3, <2>1 DEF AppendMessage
  <2>5. /\ i = 0 => PrevTerm(n, i) = 0
        /\ i > 0 => \E l \in elected : l.term = PrevTerm(n, i)
    BY <2>3, PrevTermKnown
  <2>6. /\ i = 0 => m.prevTerm = 0
        /\ i > 0 => \E l \in elected' : l.term = m.prevTerm
    BY <2>4, <2>5 DEF RoleStep
  <2> QED BY <2>2, <2>4, <2>6 DEF FromLeader
<1>4. \A m \in requests' : m \in sent \/ \E p \in todo : m = AppendMessage(n, p)
  BY DEF ContinueRound
<1> QED BY <1>2, <1>3, <1>4

\* A turn of StartElection sends no AppendEntries.
LEMMA BallotByLeader ==
    ASSUME NEW n, NEW b, NEW sent, \A m \in sent : FromLeader(m)', ContinueBallot(n, b, sent)
    PROVE  \A m \in requests' : FromLeader(m)'
<1>1. requests' = sent \/ \E m : m.type = "RequestVote" /\ requests' = sent \cup {m}
  <2>1. \A p : [type |-> "RequestVote", src |-> n, dst |-> p, live |-> TRUE, term |-> b.term,
                lastTerm |-> b.lastTerm, lastIndex |-> b.lastIndex].type = "RequestVote"
    OBVIOUS
  <2> QED BY <2>1 DEF ContinueBallot
<1> QED BY <1>1 DEF FromLeader

\* Only the leader sends AppendEntries, and only it holds the lock for a round.
LEMMA SendersStep ==
    ASSUME Base, Base', NeverSnapped, Senders, NextBound', RoleStep, Next
    PROVE  Senders'
<1>0. /\ requests \in SUBSET Requests /\ \A m \in requests : FromLeader(m)'
      /\ \A n \in Nodes : WasElected(n) => WasElected(n)'
      /\ round \in [Nodes -> RoundType]
      /\ \A n \in Nodes : round[n].todo \in SUBSET Peers(n)
      /\ NoneTaken
  BY SentByLeader DEF Base, TypeInv, TypeOK, Requests, RoundType, NextIndexPositive, Peers, LogInv
<1>1. ASSUME \A m \in requests' : FromLeader(m)', round' = round
      PROVE  Senders'
  BY <1>0, <1>1 DEF Senders, LockFree
<1>2. ASSUME NEW n \in Nodes, NEW todo \in SUBSET Peers(n), NEW sent,
             \A m \in sent : FromLeader(m)', WasElected(n)', log' = log,
             ContinueRound(n, todo, sent)
      PROVE  Senders'
  <2>1. /\ \A m \in requests' : FromLeader(m)'
        /\ \A p \in Nodes : p # n => round'[p] = round[p]
    BY <1>2, RoundByLeader
  <2> QED BY <1>0, <1>2, <2>1 DEF Senders, LockFree
<1>3. ASSUME NEW n \in Nodes, BecomeLeader(n), log' = log PROVE Senders'
  <2>1. PICK w : w = [node |-> n, term |-> currentTerm[n]]
    OBVIOUS
  <2>2. w.node = n /\ w \in elected' /\ ContinueRound(n, Peers(n), requests)
    BY <1>3, <2>1 DEF BecomeLeader
  <2>3. WasElected(n)'
    BY <2>2 DEF WasElected
  <2> QED BY <1>0, <1>2, <1>3, <2>2, <2>3
<1>4. ASSUME NEW n \in Nodes,
             StartElection(n) \/ RequestVoteTimeout(n) \/ ResumeElection(n)
      PROVE  Senders'
  <2>1. /\ \E b : ContinueBallot(n, b, requests)
                 \/ \E sent \in Abandoned(n, ballot[n].wait, "RequestVote") :
                       ContinueBallot(n, b, sent)
        /\ round' = round
    BY <1>4 DEF StartElection, RequestVoteTimeout, ResumeElection
  <2> QED BY <1>0, <1>1, <2>1, AbandonedByLeader, BallotByLeader
<1>5. ASSUME NEW n \in Nodes, NEW r \in replies, HandleRequestVoteResponse(n, r)
      PROVE  Senders'
  <2>1. /\ log' = log
        /\ (ContinueBallot(n, ballot[n], requests) /\ round' = round) \/ BecomeLeader(n)
    BY <1>5 DEF HandleRequestVoteResponse
  <2> QED BY <1>0, <1>1, <1>3, <2>1, BallotByLeader
<1>6. ASSUME NEW n \in Nodes, FinishElection(n) PROVE Senders'
  <2>1. /\ log' = log
        /\ UNCHANGED <<requests, round>> \/ BecomeLeader(n)
    BY <1>6 DEF FinishElection, diskVars
  <2> QED BY <1>0, <1>1, <1>3, <2>1
<1>7. ASSUME NEW n \in Nodes, NEW m \in requests,
             HandleRequestVote(n, m) \/ HandleAppendEntries(n, m)
      PROVE  Senders'
  <2>1. requests' = requests \ {m} /\ round' = round
    BY <1>7 DEF HandleRequestVote, HandleAppendEntries, Answer, threadVars
  <2> QED BY <1>0, <1>1, <2>1
<1>8. ASSUME NEW n \in Nodes, HeartbeatTimeout(n) PROVE Senders'
  <2>1. ContinueRound(n, Peers(n), requests) /\ state[n] = "LEADER" /\ log' = log
    BY <1>8 DEF HeartbeatTimeout, diskVars
  <2>2. WasElected(n)
    BY <2>1, LeaderLongest
  <2> QED BY <1>0, <1>2, <2>1, <2>2
<1>9. ASSUME NEW n \in Nodes, AppendEntriesTimeout(n) PROVE Senders'
  <2>1. PICK sent \in Abandoned(n, round[n].wait, "AppendEntries") :
           ContinueRound(n, round[n].todo, sent)
    BY <1>9 DEF AppendEntriesTimeout
  <2>2. log' = log /\ ~ LockFree(n)
    BY <1>9 DEF AppendEntriesTimeout, diskVars, LockFree
  <2>3. WasElected(n)
    BY <2>2 DEF Senders
  <2>4. \A m \in sent : FromLeader(m)'
    BY <1>0, AbandonedByLeader
  <2> QED BY <1>0, <1>2, <2>1, <2>2, <2>3, <2>4
<1>10. ASSUME NEW n \in Nodes, NEW r \in replies, HandleAppendEntriesResponse(n, r)
       PROVE  Senders'
  <2>1. /\ ContinueRound(n, round[n].todo, requests) /\ log' = log
        /\ r.src = round[n].wait
    BY <1>10 DEF HandleAppendEntriesResponse
  <2>2. r.src \in Nodes
    BY DEF Base, TypeInv, TypeOK, VoteReply, AppendReply
  <2>3. ~ LockFree(n)
    BY <2>1, <2>2, NodesAssumption DEF LockFree
  <2>4. WasElected(n)
    BY <2>3 DEF Senders
  <2> QED BY <1>0, <1>2, <2>1, <2>4
<1>11. ASSUME NEW n \in Nodes, Restart(n) PROVE Senders'
  <2>1. /\ \A m \in requests' : m \in requests \/ \E k \in requests : m = [k EXCEPT !.live = FALSE]
        /\ round' = [round EXCEPT ![n] = IdleRound]
    BY <1>11 DEF Restart, StartFrom
  <2>2. \A m \in requests' : FromLeader(m)'
    BY <1>0, <2>1, LateByLeader
  <2>3. LockFree(n)' /\ \A p \in Nodes : p # n => round'[p] = round[p]
    BY <1>0, <2>1 DEF LockFree, IdleRound
  <2> QED BY <1>0, <2>2, <2>3 DEF Senders, LockFree
<1>12. ASSUME NEW n \in Nodes, NEW v \in Commands, ProposeSend(n, v) PROVE Senders'
  <2>1. /\ log' = log
        /\ \/ state[n] = "LEADER" /\ ContinueRound(n, Peers(n), requests)
           \/ UNCHANGED <<requests, round>>
    BY <1>12 DEF ProposeSend, diskVars
  <2>2. state[n] = "LEADER" => WasElected(n)
    BY LeaderLongest
  <2> QED BY <1>0, <1>1, <1>2, <2>1, <2>2
<1>13. ASSUME NEW n \in Nodes, NEW v \in Commands,
              \/ Propose(n, v) \/ ProposeAdvance(n, v)
              \/ ProposeCheck(n, v) \/ ProposeTimeout(n, v)
       PROVE  Senders'
  <2>1. UNCHANGED <<requests, round>>
    BY <1>13 DEF Propose, ProposeAdvance, ProposeCheck, ProposeTimeout, netVars, threadVars
  <2> QED BY <1>0, <1>1, <2>1
<1>14. ASSUME NEW n \in Nodes,
              \/ BecomeCandidate(n) \/ SnapshotDecide(n) \/ SnapshotCapture(n)
              \/ SnapshotPublish(n) \/ SnapshotTrim(n)
       PROVE  Senders'
  <2>1. UNCHANGED <<requests, round>>
    BY <1>14 DEF BecomeCandidate, SnapshotDecide, SnapshotCapture, SnapshotPublish,
                 SnapshotTrim, netVars, threadVars
  <2> QED BY <1>0, <1>1, <2>1
<1> QED BY <1>4, <1>5, <1>6, <1>7, <1>8, <1>9, <1>10, <1>11, <1>12, <1>13, <1>14 DEF Next

\* Only HandleAppendEntries answers an AppendEntries.
LEMMA RepliesStep ==
    ASSUME Next
    PROVE  \/ \A r \in replies' : r \in replies \/ r.type # "AppendEntries"
           \/ \E n \in Nodes, m \in requests : HandleAppendEntries(n, m)
<1>1. ASSUME NEW n \in Nodes,
             \/ BecomeCandidate(n) \/ FinishElection(n)
             \/ StartElection(n) \/ RequestVoteTimeout(n) \/ ResumeElection(n)
             \/ HeartbeatTimeout(n) \/ AppendEntriesTimeout(n)
             \/ SnapshotDecide(n) \/ SnapshotCapture(n) \/ SnapshotPublish(n) \/ SnapshotTrim(n)
             \/ Restart(n)
      PROVE  replies' \subseteq replies
  BY <1>1 DEF BecomeCandidate, FinishElection, StartElection, RequestVoteTimeout, ResumeElection,
       HeartbeatTimeout, AppendEntriesTimeout, SnapshotDecide, SnapshotCapture, SnapshotPublish,
       SnapshotTrim, Restart, StartFrom, RepliesWithout, netVars
<1>2. ASSUME NEW n \in Nodes, NEW r \in replies,
             HandleRequestVoteResponse(n, r) \/ HandleAppendEntriesResponse(n, r)
      PROVE  replies' \subseteq replies
  BY <1>2 DEF HandleRequestVoteResponse, HandleAppendEntriesResponse
<1>3. ASSUME NEW n \in Nodes, NEW m \in requests, HandleRequestVote(n, m)
      PROVE  \A r \in replies' : r \in replies \/ r.type # "AppendEntries"
  BY <1>3 DEF HandleRequestVote, Answer
<1>4. ASSUME NEW n \in Nodes, NEW v \in Commands,
             \/ Propose(n, v) \/ ProposeAdvance(n, v) \/ ProposeSend(n, v)
             \/ ProposeCheck(n, v) \/ ProposeTimeout(n, v)
      PROVE  replies' = replies
  BY <1>4 DEF Propose, ProposeAdvance, ProposeSend, ProposeCheck, ProposeTimeout, netVars
<1> QED BY <1>1, <1>2, <1>3, <1>4 DEF Next

\* A leader counts no entry that the peer does not have.
LEMMA MatchBoundStep ==
    ASSUME Base, Base', NeverSnapped, Senders, MatchBound, Grows, Next
    PROVE  MatchBound'
<1>0. /\ matchIndex \in [Nodes -> [Nodes -> Nat]]
      /\ \A n \in Nodes : /\ Len(log[n]) \in Nat /\ Len(log'[n]) \in Nat
                          /\ Len(log[n]) <= Len(log'[n])
                          /\ LastIndex(log[n]) = Len(log[n])
                          /\ LastIndex(log'[n]) = Len(log'[n])
  BY WholeLogs, WholeLogsNext DEF Base, TypeInv, TypeOK, Whole, Grows
<1>1. \A n, p \in Nodes : matchIndex[n][p] \in Nat /\ matchIndex[n][p] <= Len(log'[p])
  <2> SUFFICES ASSUME NEW n \in Nodes, NEW p \in Nodes
               PROVE  matchIndex[n][p] \in Nat /\ matchIndex[n][p] <= Len(log'[p])
    OBVIOUS
  <2>1. matchIndex[n][p] \in Nat
    BY <1>0
  <2>2. matchIndex[n][p] <= Len(log[p])
    BY DEF MatchBound
  <2>3. Len(log[p]) \in Nat /\ Len(log'[p]) \in Nat /\ Len(log[p]) <= Len(log'[p])
    BY <1>0
  <2> QED BY <2>1, <2>2, <2>3
<1>2. \A r \in replies : r.type = "AppendEntries" =>
        r.src \in Nodes /\ r.match \in Nat /\ (r.success => r.match <= Len(log'[r.src]))
  <2> SUFFICES ASSUME NEW r \in replies, r.type = "AppendEntries"
               PROVE  r.src \in Nodes /\ r.match \in Nat /\ (r.success => r.match <= Len(log'[r.src]))
    OBVIOUS
  <2>1. r.src \in Nodes /\ r.match \in Nat
    <3>1. r \in VoteReply \cup AppendReply
      BY DEF Base, TypeInv, TypeOK
    <3>2. r \notin VoteReply
      BY DEF VoteReply
    <3> QED BY <3>1, <3>2 DEF AppendReply
  <2>2. r.success => r.match <= Len(log[r.src])
    BY DEF MatchBound
  <2> QED BY <1>0, <2>1, <2>2
<1>3. \A r \in replies' : r.type = "AppendEntries" /\ r.success => r.match <= Len(log'[r.src])
  <2>1. CASE \A r \in replies' : r \in replies \/ r.type # "AppendEntries"
    BY <1>2, <2>1
  <2>2. ASSUME NEW n \in Nodes, NEW m \in requests, HandleAppendEntries(n, m)
        PROVE  \A r \in replies' : r.type = "AppendEntries" /\ r.success
                                      => r.match <= Len(log'[r.src])
    <3>1. Refused(n) \/ Extended(n, m)
      BY <2>2, ReceiveStep
    <3>2. CASE Refused(n)
      BY <1>2, <3>2 DEF Refused
    <3>3. CASE Extended(n, m)
      <4>1. log'[n] = AppendNew(log[n], m.entries)
        BY <3>3 DEF Extended, Base, TypeInv, TypeOK
      <4>2. \A r \in replies' : r \in replies \/ (r.src = n /\ r.match = LastIndex(log'[n]))
        BY <3>3, <4>1 DEF Extended
      <4>3. LastIndex(log'[n]) <= Len(log'[n])
        BY <1>0
      <4> QED BY <1>2, <4>2, <4>3
    <3> QED BY <3>1, <3>2, <3>3
  <2> QED BY <2>1, <2>2, RepliesStep
<1>4. ASSUME \A n, p \in Nodes : matchIndex'[n][p] <= Len(log'[p]) PROVE MatchBound'
  BY <1>3, <1>4 DEF MatchBound
<1>5. CASE UNCHANGED leaderVars
  BY <1>1, <1>4, <1>5 DEF leaderVars
<1>6. ASSUME NEW n \in Nodes, BecomeLeader(n) \/ Restart(n) PROVE MatchBound'
  <2>1. matchIndex' = [matchIndex EXCEPT ![n] = [p \in Nodes |-> 0]]
    BY <1>6 DEF BecomeLeader, Restart, StartFrom
  <2>2. /\ \A p \in Nodes : matchIndex'[n][p] = 0
        /\ \A q \in Nodes : q # n => matchIndex'[q] = matchIndex[q]
    BY <1>0, <2>1
  <2>3. \A p \in Nodes : matchIndex'[n][p] <= Len(log'[p])
    BY <1>0, <2>2
  <2> QED BY <1>1, <1>4, <2>2, <2>3
<1>7. ASSUME NEW n \in Nodes, NEW q \in Nodes, NEW i \in Nat, i <= Len(log'[q]),
             matchIndex' = [matchIndex EXCEPT ![n][q] = i]
      PROVE  MatchBound'
  <2>1. /\ matchIndex'[n][q] = i
        /\ \A p \in Nodes : p # q => matchIndex'[n][p] = matchIndex[n][p]
        /\ \A p \in Nodes : p # n => matchIndex'[p] = matchIndex[p]
    BY <1>0, <1>7
  <2> QED BY <1>1, <1>4, <1>7, <2>1
<1>8. ASSUME NEW n \in Nodes, NEW r \in replies, HandleAppendEntriesResponse(n, r)
      PROVE  MatchBound'
  <2>1. /\ r.type = "AppendEntries"
        /\ \/ matchIndex' = matchIndex
           \/ r.success /\ matchIndex' = [matchIndex EXCEPT ![n][r.src] = r.match]
    BY <1>8 DEF HandleAppendEntriesResponse, leaderVars
  <2> QED BY <1>1, <1>2, <1>4, <1>7, <2>1
<1>9. ASSUME NEW n \in Nodes, NEW v \in Commands, Propose(n, v) PROVE MatchBound'
  <2>1. PICK i : i = LastIndex(log[n]) + 1
    OBVIOUS
  <2>2. matchIndex' = [matchIndex EXCEPT ![n][n] = i]
    BY <1>9, <2>1 DEF Propose
  <2>3. Len(log'[n]) = Len(log[n]) + 1
    BY <1>9, ProposeLog DEF Base, TypeInv
  <2>4. i \in Nat /\ i <= Len(log'[n])
    BY <1>0, <2>1, <2>3
  <2> QED BY <1>7, <2>2, <2>4
<1> QED BY <1>5, <1>6, <1>8, <1>9, ProgressStep

-----------------------------------------------------------------------------
(* Committing.                                                             *)

\* More entries are on no fewer nodes.
LEMMA MajorityKept ==
    ASSUME Base, Base', Grows, NEW i \in Nat, NEW j \in Nat, j <= i, OnMajority(i)
    PROVE  OnMajority(j) /\ OnMajority(j)'
<1>0. \A n \in Nodes : /\ Len(log[n]) \in Nat /\ Len(log'[n]) \in Nat
                       /\ Len(log[n]) <= Len(log'[n])
  BY WholeLogs, WholeLogsNext DEF Whole, Grows
<1>1. PICK S : S = Holders(i)
  OBVIOUS
<1>2. PICK T : T = Holders(j)
  OBVIOUS
<1>3. PICK U : U = Holders(j)'
  OBVIOUS
<1>4. S \subseteq T /\ S \subseteq U /\ T \subseteq Nodes /\ U \subseteq Nodes
  BY <1>0, <1>1, <1>2, <1>3 DEF Holders
<1>5. /\ Cardinality(S) \in Nat /\ Cardinality(T) \in Nat /\ Cardinality(U) \in Nat
      /\ Cardinality(S) <= Cardinality(T) /\ Cardinality(S) <= Cardinality(U)
  BY <1>4, NodeSets
<1>6. Cardinality(S) >= Majority /\ Majority \in Nat
  BY <1>1, MajorityType DEF OnMajority
<1>7. Cardinality(T) >= Majority /\ Cardinality(U) >= Majority
  BY <1>5, <1>6
<1> QED BY <1>2, <1>3, <1>7 DEF OnMajority

\* What AdvanceCommitIndex finds is on a majority.
LEMMA CountedOnMajority ==
    ASSUME Base, NEW n \in Nodes, NEW match, \A p \in Nodes : match[p] \in Nat,
           \A p \in Nodes : match[p] <= Len(log[p]), NEW i \in Committable(n, match)
    PROVE  i \in Nat /\ i <= Len(log[n]) /\ OnMajority(i)
<1>0. \A p \in Nodes : Len(log[p]) \in Nat /\ LastIndex(log[p]) = Len(log[p])
  BY WholeLogs DEF Whole
<1>1. commitIndex[n] \in Nat
  BY DEF Base, TypeInv, TypeOK
<1>2. PICK S : S = {p \in Peers(n) : match[p] >= i}
  OBVIOUS
<1>3. i \in (commitIndex[n] + 1)..LastIndex(log[n]) /\ Cardinality(S) + 1 >= Majority
  BY <1>2 DEF Committable
<1>4. i \in Nat /\ i <= Len(log[n])
  BY <1>0, <1>1, <1>3
<1>5. S \subseteq Nodes /\ n \notin S
  BY <1>2 DEF Peers
<1>6. Cardinality(S \cup {n}) = Cardinality(S) + 1
  BY <1>5, NodeSets, FS_AddElement
<1>7. PICK T : T = Holders(i)
  OBVIOUS
<1>8. S \cup {n} \subseteq T /\ T \subseteq Nodes
  <2>1. \A p \in S : p \in Nodes /\ Len(log[p]) >= i
    BY <1>0, <1>2, <1>4, <1>5
  <2> QED BY <1>0, <1>4, <1>7, <2>1 DEF Holders
<1>9. /\ Cardinality(S \cup {n}) \in Nat /\ Cardinality(T) \in Nat
      /\ Cardinality(S \cup {n}) <= Cardinality(T)
  BY <1>8, NodeSets
<1>10. Cardinality(T) >= Majority
  BY <1>3, <1>6, <1>9, MajorityType
<1> QED BY <1>4, <1>7, <1>10 DEF OnMajority

\* Commits(n, i): ApplyCommitted(i) at n, for what the leader found on a majority
\* or what a follower was told.
Commits(n, i) ==
    /\ i \in Nat /\ i <= Len(log'[n])
    /\ CommitTo(n, i, log'[n])
    /\ OnMajority(i)' \/ ~ WasElected(n)'

LEMMA AdvanceCommits ==
    ASSUME Base, Base', log' = log, NEW n \in Nodes, NEW match, AdvanceCommitIndex(n, match),
           \A p \in Nodes : match[p] \in Nat, \A p \in Nodes : match[p] <= Len(log[p])
    PROVE  UNCHANGED commitVars \/ \E i \in Nat : Commits(n, i)
<1>1. CASE UNCHANGED commitVars
  BY <1>1
<1>2. ASSUME NEW i \in Committable(n, match), CommitTo(n, i, log[n])
      PROVE  \E j \in Nat : Commits(n, j)
  <2>1. i \in Nat /\ i <= Len(log[n]) /\ OnMajority(i)
    BY CountedOnMajority
  <2>2. OnMajority(i)'
    <3>1. Holders(i)' = Holders(i)
      BY DEF Holders
    <3> QED BY <2>1, <3>1 DEF OnMajority
  <2> QED BY <1>2, <2>1, <2>2 DEF Commits
<1> QED BY <1>1, <1>2 DEF AdvanceCommitIndex

LEMMA ExtendCommits ==
    ASSUME Base, Base', NeverSnapped, Senders, NEW n \in Nodes, NEW m \in requests,
           HandleAppendEntries(n, m)
    PROVE  UNCHANGED commitVars \/ \E i \in Nat : Commits(n, i)
<1>1. /\ m \in Appends /\ ~ WasElected(n) /\ elected' = elected
      /\ Refused(n) \/ Extended(n, m)
  BY ReceiveStep DEF historyVars
<1>2. CASE Refused(n)
  BY <1>2 DEF Refused
<1>3. CASE Extended(n, m)
  <2>1. log'[n] = AppendNew(log[n], m.entries)
    BY <1>3 DEF Extended, Base, TypeInv, TypeOK
  <2>2. CommitTo(n, Smaller(m.commit, LastIndex(log'[n])), log'[n])
    BY <1>3, <2>1 DEF Extended
  <2>3. LastIndex(log'[n]) = Len(log'[n]) /\ Len(log'[n]) \in Nat
    BY WholeLogsNext DEF Whole
  <2>4. m.commit \in Nat
    <3>1. m \in VoteRequest \cup AppendRequest /\ m.type = "AppendEntries"
      BY <1>1 DEF Base, TypeInv, TypeOK, Appends
    <3>2. m \notin VoteRequest
      BY <3>1 DEF VoteRequest
    <3> QED BY <3>1, <3>2 DEF AppendRequest
  <2>5. PICK i : i = Smaller(m.commit, LastIndex(log'[n]))
    OBVIOUS
  <2>6. i \in Nat /\ i <= Len(log'[n])
    BY <2>3, <2>4, <2>5 DEF Smaller
  <2>7. ~ WasElected(n)'
    BY <1>1 DEF WasElected
  <2> QED BY <2>2, <2>5, <2>6, <2>7 DEF Commits
<1> QED BY <1>1, <1>2, <1>3

\* The steps that commit.
LEMMA CommitStep ==
    ASSUME Base, Base', NeverSnapped, Senders, MatchBound', Next
    PROVE  \/ UNCHANGED <<commitVars, restarts>>
           \/ \E n \in Nodes : Restart(n)
           \/ restarts' = restarts /\ \E n \in Nodes : \E i \in Nat : Commits(n, i)
<1>1. ASSUME NEW n \in Nodes,
             \/ BecomeCandidate(n) \/ FinishElection(n)
             \/ StartElection(n) \/ RequestVoteTimeout(n) \/ ResumeElection(n)
             \/ HeartbeatTimeout(n) \/ AppendEntriesTimeout(n)
             \/ SnapshotDecide(n) \/ SnapshotCapture(n) \/ SnapshotPublish(n) \/ SnapshotTrim(n)
      PROVE  UNCHANGED <<commitVars, restarts>>
  BY <1>1 DEF BecomeCandidate, FinishElection, StartElection, RequestVoteTimeout, ResumeElection,
       HeartbeatTimeout, AppendEntriesTimeout, SnapshotDecide, SnapshotCapture, SnapshotPublish,
       SnapshotTrim, boundVars
<1>2. ASSUME NEW n \in Nodes, NEW r \in replies, HandleRequestVoteResponse(n, r)
      PROVE  UNCHANGED <<commitVars, restarts>>
  BY <1>2 DEF HandleRequestVoteResponse, boundVars
<1>3. ASSUME NEW n \in Nodes, NEW m \in requests, HandleRequestVote(n, m)
      PROVE  UNCHANGED <<commitVars, restarts>>
  BY <1>3 DEF HandleRequestVote, boundVars
<1>4. ASSUME NEW n \in Nodes, NEW v \in Commands,
             Propose(n, v) \/ ProposeSend(n, v) \/ ProposeCheck(n, v) \/ ProposeTimeout(n, v)
      PROVE  UNCHANGED <<commitVars, restarts>>
  BY <1>4 DEF Propose, ProposeSend, ProposeCheck, ProposeTimeout, boundVars
<1>5. ASSUME NEW n \in Nodes, NEW m \in requests, HandleAppendEntries(n, m)
      PROVE  restarts' = restarts /\ (UNCHANGED commitVars \/ \E i \in Nat : Commits(n, i))
  <2>1. restarts' = restarts
    BY <1>5 DEF HandleAppendEntries, boundVars
  <2> QED BY <1>5, <2>1, ExtendCommits
<1>6. ASSUME NEW n \in Nodes, log' = log, AdvanceCommitIndex(n, matchIndex'[n])
      PROVE  UNCHANGED commitVars \/ \E i \in Nat : Commits(n, i)
  <2>1. PICK f : f = matchIndex'[n]
    OBVIOUS
  <2>2. \A p \in Nodes : f[p] \in Nat /\ f[p] <= Len(log[p])
    BY <1>6, <2>1 DEF Base, TypeInv, TypeOK, MatchBound
  <2> QED BY <1>6, <2>1, <2>2, AdvanceCommits
<1>7. ASSUME NEW n \in Nodes, NEW r \in replies, HandleAppendEntriesResponse(n, r)
      PROVE  restarts' = restarts /\ (UNCHANGED commitVars \/ \E i \in Nat : Commits(n, i))
  <2>1. /\ restarts' = restarts /\ log' = log
        /\ \/ UNCHANGED commitVars
           \/ /\ matchIndex' = [matchIndex EXCEPT ![n][r.src] = r.match]
              /\ AdvanceCommitIndex(n, [matchIndex[n] EXCEPT ![r.src] = r.match])
    BY <1>7 DEF HandleAppendEntriesResponse, boundVars
  <2>2. matchIndex' = [matchIndex EXCEPT ![n][r.src] = r.match]
          => matchIndex'[n] = [matchIndex[n] EXCEPT ![r.src] = r.match]
    BY DEF Base, TypeInv, TypeOK
  <2> QED BY <1>6, <2>1, <2>2
<1>8. ASSUME NEW n \in Nodes, NEW v \in Commands, ProposeAdvance(n, v)
      PROVE  restarts' = restarts /\ (UNCHANGED commitVars \/ \E i \in Nat : Commits(n, i))
  <2>1. restarts' = restarts /\ log' = log /\ AdvanceCommitIndex(n, matchIndex'[n])
    BY <1>8 DEF ProposeAdvance, diskVars, leaderVars, boundVars
  <2> QED BY <1>6, <2>1
<1> QED BY <1>1, <1>2, <1>3, <1>4, <1>5, <1>7, <1>8 DEF Next

\* The entries of a log without holes between two indexes.
LEMMA CutBetween ==
    ASSUME NEW l \in Seq(Entry), Follows(l, 0), NEW a \in Nat, NEW i \in Nat, a <= i, i <= Len(l)
    PROVE  /\ Above(UpTo(l, i), a) \in Seq(Entry) /\ Len(Above(UpTo(l, i), a)) = i - a
           /\ \A k \in 1..(i - a) : Above(UpTo(l, i), a)[k] = l[a + k]
<1>0. a \in Int /\ i \in Int /\ 0 \in Int /\ i >= 0 /\ a >= 0 /\ Len(l) \in Nat
  BY LenProperties
<1>1. CountUpTo(l, i) = i
  <2>1. CountUpTo(l, i) = Smaller(i - 0, Len(l))
    BY <1>0, CountFollows
  <2> QED BY <1>0, <2>1 DEF Smaller
<1>2. PICK u : u = UpTo(l, i)
  OBVIOUS
<1>3. u \in Seq(Entry) /\ Len(u) = i /\ \A k \in 1..i : u[k] = l[k]
  BY <1>0, <1>1, <1>2, CutEntries
<1>4. Follows(u, 0)
  BY <1>0, <1>2, UpToFollows
<1>5. CountUpTo(u, a) = a
  <2>1. CountUpTo(u, a) = Smaller(a - 0, Len(u))
    BY <1>0, <1>3, <1>4, CountFollows
  <2> QED BY <1>0, <1>3, <2>1 DEF Smaller
<1>6. /\ Above(u, a) \in Seq(Entry) /\ Len(Above(u, a)) = i - a
      /\ \A k \in 1..(i - a) : Above(u, a)[k] = u[a + k]
  <2>1. /\ Above(u, a) \in Seq(Entry) /\ Len(Above(u, a)) = Len(u) - CountUpTo(u, a)
        /\ \A k \in 1..Len(u) - CountUpTo(u, a) : Above(u, a)[k] = u[CountUpTo(u, a) + k]
    BY <1>0, <1>3, CutEntries
  <2> QED BY <1>3, <1>5, <2>1
<1>7. \A k \in 1..(i - a) : a + k \in 1..i
  BY <1>0
<1>8. \A k \in 1..(i - a) : Above(u, a)[k] = l[a + k]
  BY <1>3, <1>6, <1>7
<1> QED BY <1>2, <1>6, <1>8

\* The state machine of n got all it should.
AppliedAt(n) ==
    /\ commitIndex[n] <= Len(log[n])
    /\ lastApplied[n] = commitIndex[n]
    /\ \A j \in 1..Len(applied[n]) : \E k \in 1..Len(log[n]) : log[n][k] = applied[n][j]
    /\ restarts = 0 => \A k \in 1..lastApplied[n] :
                          \E j \in 1..Len(applied[n]) : applied[n][j] = log[n][k]

\* A node that commits nothing keeps what it was given.
LEMMA AppliedKeeps ==
    ASSUME Base, Base', Grows, NEW n \in Nodes, AppliedAt(n), restarts' = 0 => restarts = 0,
           commitIndex'[n] = commitIndex[n], lastApplied'[n] = lastApplied[n],
           applied'[n] = applied[n]
    PROVE  AppliedAt(n)'
<1>0. /\ Len(log[n]) \in Nat /\ Len(log'[n]) \in Nat /\ Len(log[n]) <= Len(log'[n])
      /\ \A k \in 1..Len(log[n]) : log'[n][k] = log[n][k]
      /\ commitIndex[n] \in Nat
  BY WholeLogs, WholeLogsNext DEF Whole, Grows, Base, TypeInv, TypeOK
<1>1. /\ commitIndex[n] <= Len(log[n]) /\ lastApplied[n] = commitIndex[n]
      /\ \A j \in 1..Len(applied[n]) : \E k \in 1..Len(log[n]) : log[n][k] = applied[n][j]
      /\ restarts = 0 => \A k \in 1..lastApplied[n] :
                            \E j \in 1..Len(applied[n]) : applied[n][j] = log[n][k]
  BY DEF AppliedAt
<1>2. \A k \in 1..Len(log[n]) : k \in 1..Len(log'[n])
  BY <1>0
<1>3. \A k \in 1..lastApplied[n] : k \in 1..Len(log[n])
  BY <1>0, <1>1
<1>4. commitIndex'[n] <= Len(log'[n]) /\ lastApplied'[n] = commitIndex'[n]
  BY <1>0, <1>1
<1>5. \A j \in 1..Len(applied'[n]) : \E k \in 1..Len(log'[n]) : log'[n][k] = applied'[n][j]
  BY <1>0, <1>1, <1>2
<1>6. restarts' = 0 => \A k \in 1..lastApplied'[n] :
         \E j \in 1..Len(applied'[n]) : applied'[n][j] = log'[n][k]
  BY <1>0, <1>1, <1>3
<1> QED BY <1>4, <1>5, <1>6 DEF AppliedAt

\* A node that commits gets the entries in between.
LEMMA AppliedGains ==
    ASSUME Base, Base', Grows, NEW n \in Nodes, AppliedAt(n), restarts' = restarts,
           NEW i \in Nat, i <= Len(log'[n]), i > commitIndex[n],
           commitIndex'[n] = i, lastApplied'[n] = Larger(lastApplied[n], i),
           applied'[n] = applied[n] \o Above(UpTo(log'[n], i), lastApplied[n])
    PROVE  AppliedAt(n)'
<1>0. PICK a, g, l, h :
         a = lastApplied[n] /\ g = applied[n] /\ l = log'[n] /\ h = log[n]
  OBVIOUS
<1>1. /\ g \in Seq(Entry) /\ a \in Nat /\ a = commitIndex[n] /\ a <= Len(h)
      /\ \A j \in 1..Len(g) : \E k \in 1..Len(h) : h[k] = g[j]
      /\ restarts = 0 => \A k \in 1..a : \E j \in 1..Len(g) : g[j] = h[k]
  BY <1>0 DEF Base, TypeInv, TypeOK, AppliedAt
<1>2. /\ l \in Seq(Entry) /\ Follows(l, 0) /\ i <= Len(l)
      /\ \A k \in 1..Len(h) : l[k] = h[k]
  BY <1>0, WholeLogsNext DEF Whole, Grows
<1>3. Len(g) \in Nat /\ Len(h) \in Nat /\ Len(l) \in Nat /\ Len(h) <= Len(l) /\ a < i
  <2>1. Len(h) \in Nat /\ Len(l) \in Nat /\ Len(h) <= Len(l)
    BY <1>0, WholeLogs, WholeLogsNext DEF Whole, Grows
  <2>2. Len(g) \in Nat
    BY <1>1, LenProperties
  <2>3. a < i
    BY <1>1
  <2> QED BY <2>1, <2>2, <2>3
<1>12. a \in Nat /\ i \in Nat /\ a < i /\ Len(g) \in Nat /\ Len(l) \in Nat
  BY <1>1, <1>3
<1>4. PICK x : x = Above(UpTo(l, i), a)
  OBVIOUS
<1>5. x \in Seq(Entry) /\ Len(x) = i - a /\ \A k \in 1..(i - a) : x[k] = l[a + k]
  <2>1. a <= i
    BY <1>1, <1>3
  <2>2. a \in Nat /\ l \in Seq(Entry) /\ Follows(l, 0) /\ i <= Len(l)
    BY <1>1, <1>2
  <2> HIDE DEF Entry
  <2>3. /\ Above(UpTo(l, i), a) \in Seq(Entry) /\ Len(Above(UpTo(l, i), a)) = i - a
        /\ \A k \in 1..(i - a) : Above(UpTo(l, i), a)[k] = l[a + k]
    BY <2>1, <2>2, CutBetween
  <2> QED BY <1>4, <2>3
<1>6. PICK y : y = g \o x
  OBVIOUS
<1>7. /\ Len(y) = Len(g) + (i - a)
      /\ \A k \in 1..Len(g) + (i - a) : y[k] = IF k <= Len(g) THEN g[k] ELSE x[k - Len(g)]
  <2>1. /\ Len(g \o x) = Len(g) + Len(x)
        /\ \A k \in 1..Len(g) + Len(x) :
              (g \o x)[k] = IF k <= Len(g) THEN g[k] ELSE x[k - Len(g)]
    <3>1. g \in Seq(Entry) /\ x \in Seq(Entry)
      BY <1>1, <1>5
    <3> HIDE DEF Entry
    <3> QED BY <3>1, ConcatProperties
  <2> QED BY <1>5, <1>6, <2>1
<1>8. applied'[n] = y /\ log'[n] = l /\ lastApplied'[n] = i /\ commitIndex'[n] = i
  <2>1. Larger(a, i) = i
    BY <1>1, <1>3 DEF Larger
  <2> QED BY <1>0, <1>4, <1>6, <2>1
<1>9. \A k \in 1..Len(h) : k \in 1..Len(l)
  BY <1>3
<1>10. ASSUME NEW j \in 1..Len(y) PROVE \E k \in 1..Len(l) : l[k] = y[j]
  <2>1. j \in 1..Len(g) + (i - a)
    BY <1>7
  <2>2. CASE j <= Len(g)
    <3>1. j \in 1..Len(g) /\ y[j] = g[j]
      BY <1>3, <1>7, <2>1, <2>2
    <3> QED BY <1>1, <1>2, <1>9, <3>1
  <2>3. CASE ~ (j <= Len(g))
    <3>1. PICK q : q = j - Len(g)
      OBVIOUS
    <3>2. q \in 1..(i - a)
      BY <1>12, <2>1, <2>3, <3>1
    <3>3. y[j] = x[q]
      BY <1>7, <2>1, <2>3, <3>1
    <3>4. x[q] = l[a + q]
      BY <1>5, <3>2
    <3>5. a + q \in 1..Len(l)
      <4>1. i <= Len(l)
        BY <1>2
      <4> QED BY <1>12, <3>2, <4>1
    <3> QED BY <3>3, <3>4, <3>5
  <2> QED BY <2>2, <2>3
<1>11. ASSUME restarts' = 0, NEW k \in 1..i PROVE \E j \in 1..Len(y) : y[j] = l[k]
  <2>1. CASE k <= a
    <3>1. k \in 1..a /\ k \in 1..Len(h)
      BY <1>1, <1>3, <2>1
    <3>2. PICK j \in 1..Len(g) : g[j] = h[k]
      BY <1>1, <1>11, <3>1
    <3>3. j \in 1..Len(g) + (i - a) /\ j <= Len(g)
      BY <1>12, <3>2
    <3>4. j \in 1..Len(y) /\ y[j] = g[j]
      BY <1>7, <3>3
    <3> QED BY <1>2, <3>1, <3>2, <3>4
  <2>2. CASE ~ (k <= a)
    <3>1. PICK q : q = k - a
      OBVIOUS
    <3>2. q \in 1..(i - a) /\ a + q = k
      BY <1>12, <2>2, <3>1
    <3>3. PICK j : j = Len(g) + q
      OBVIOUS
    <3>4. j \in 1..Len(g) + (i - a) /\ ~ (j <= Len(g)) /\ j - Len(g) = q
      BY <1>12, <3>2, <3>3
    <3>5. j \in 1..Len(y) /\ y[j] = x[q]
      BY <1>7, <3>4
    <3>6. x[q] = l[k]
      BY <1>5, <3>2
    <3> QED BY <3>5, <3>6
  <2> QED BY <2>1, <2>2
<1>13. commitIndex'[n] <= Len(log'[n])
  BY <1>2, <1>8
<1> QED BY <1>8, <1>10, <1>11, <1>13 DEF AppliedAt

\* A restart counts the whole log as committed and empties the state machine.
LEMMA AppliedRestart ==
    ASSUME Base, Base', NeverSnapped, NEW n \in Nodes, Restart(n)
    PROVE  AppliedAt(n)' /\ restarts' # 0
<1>1. /\ restarts' = restarts + 1 /\ restarts \in Nat
      /\ log' = [log EXCEPT ![n] = log[n]]
      /\ commitIndex' = [commitIndex EXCEPT ![n] = RestoredCommit(n, log[n])]
      /\ lastApplied' = [lastApplied EXCEPT ![n] = RestoredCommit(n, log[n])]
      /\ applied' = [applied EXCEPT ![n] = snapFile[n].data]
  BY DEF Restart, StartFrom, Base, TypeInv, TypeOK
<1>2. LastIndex(log[n]) = Len(log[n]) /\ Len(log[n]) \in Nat
  BY WholeLogs DEF Whole
<1>3. snapFile[n].index = 0 /\ snapFile[n].data = <<>>
  BY DEF NeverSnapped, NoSnapshot
<1>4. RestoredCommit(n, log[n]) = Len(log[n])
  BY <1>2, <1>3 DEF RestoredCommit, Larger
<1>5. /\ commitIndex'[n] = Len(log[n]) /\ lastApplied'[n] = Len(log[n])
      /\ applied'[n] = <<>> /\ log'[n] = log[n]
  BY <1>1, <1>3, <1>4 DEF Base, TypeInv, TypeOK
<1>6. Len(<<>>) = 0
  BY EmptySeq
<1>7. restarts' # 0
  BY <1>1
<1>8. 1..Len(applied'[n]) = {}
  BY <1>5, <1>6
<1>9. commitIndex'[n] <= Len(log'[n])
  BY <1>2, <1>5
<1> QED BY <1>5, <1>7, <1>8, <1>9 DEF AppliedAt

\* The state machines follow the logs.
LEMMA AppliedStep ==
    ASSUME Base, Base', NeverSnapped, Senders, MatchBound', CommitBound, Applied, Grows, Next
    PROVE  CommitBound' /\ Applied'
<1>0. TypeOK /\ \A n \in Nodes : AppliedAt(n)
  BY DEF Base, TypeInv, CommitBound, Applied, AppliedAt
<1>1. SUFFICES \A n \in Nodes : AppliedAt(n)'
  BY DEF CommitBound, Applied, AppliedAt
<1>2. CASE UNCHANGED <<commitVars, restarts>>
  BY <1>0, <1>2, AppliedKeeps DEF commitVars
<1>3. ASSUME NEW n \in Nodes, Restart(n) PROVE \A p \in Nodes : AppliedAt(p)'
  <2>1. AppliedAt(n)' /\ restarts' # 0
    BY <1>3, AppliedRestart
  <2>2. \A p \in Nodes : p # n => /\ commitIndex'[p] = commitIndex[p]
                                  /\ lastApplied'[p] = lastApplied[p]
                                  /\ applied'[p] = applied[p]
    BY <1>0, <1>3 DEF Restart, StartFrom, TypeOK
  <2> QED BY <1>0, <2>1, <2>2, AppliedKeeps
<1>4. ASSUME NEW n \in Nodes, NEW i \in Nat, Commits(n, i), restarts' = restarts
      PROVE  \A p \in Nodes : AppliedAt(p)'
  <2>1. PICK l : l = log'[n]
    OBVIOUS
  <2>2. i <= Len(log'[n]) /\ CommitTo(n, i, l)
    BY <1>4, <2>1 DEF Commits
  <2>3. /\ \A p \in Nodes : p # n => /\ commitIndex'[p] = commitIndex[p]
                                     /\ lastApplied'[p] = lastApplied[p]
                                     /\ applied'[p] = applied[p]
        /\ \/ UNCHANGED commitVars
           \/ /\ i > commitIndex[n] /\ commitIndex'[n] = i
              /\ lastApplied'[n] = Larger(lastApplied[n], i)
              /\ applied'[n] = applied[n] \o Above(UpTo(l, i), lastApplied[n])
    BY <1>0, <2>2, CommitEffect
  <2>4. \A p \in Nodes : p # n => AppliedAt(p)'
    BY <1>0, <1>4, <2>3, AppliedKeeps
  <2>5. AppliedAt(n)'
    <3>1. CASE UNCHANGED commitVars
      BY <1>0, <1>4, <3>1, AppliedKeeps DEF commitVars
    <3>2. CASE /\ i > commitIndex[n] /\ commitIndex'[n] = i
               /\ lastApplied'[n] = Larger(lastApplied[n], i)
               /\ applied'[n] = applied[n] \o Above(UpTo(l, i), lastApplied[n])
      BY <1>0, <1>4, <2>1, <2>2, <3>2, AppliedGains
    <3> QED BY <2>3, <3>1, <3>2
  <2> QED BY <2>4, <2>5
<1> QED BY <1>2, <1>3, <1>4, CommitStep

-----------------------------------------------------------------------------
(* The workers inside Propose.                                             *)

\* A call only moves on: to an answer, and to "committed" by commit_index_.
CallMoves(v) ==
    /\ call'[v].node = call[v].node /\ call'[v].index = call[v].index
    /\ Waits(v)' => Waits(v)
    /\ call'[v].pc = "committed" =>
          \/ call[v].pc = "committed"
          \/ Waits(v) /\ commitIndex[call[v].node] >= call[v].index

LEMMA CallsMove ==
    ASSUME TypeOK, Next
    PROVE  \/ \E n \in Nodes, v \in Commands : Propose(n, v)
           \/ \A v \in Commands : CallMoves(v)
<1>0. call \in [Commands -> [pc : {"new", "appended", "advanced", "sent", "asleep",
                                   "committed", "failed"},
                             node : Nodes \cup {Nil}, index : Nat]]
  BY DEF TypeOK
<1>1. CASE call' = call
  BY <1>1 DEF CallMoves, Waits
<1>2. ASSUME NEW v \in Commands, NEW pc \in {"advanced", "sent", "asleep", "committed", "failed"},
             call' = [call EXCEPT ![v].pc = pc], Waits(v),
             pc = "committed" => commitIndex[call[v].node] >= call[v].index
      PROVE  \A w \in Commands : CallMoves(w)
  <2>1. /\ call'[v].pc = pc /\ call'[v].node = call[v].node /\ call'[v].index = call[v].index
        /\ \A w \in Commands : w # v => call'[w] = call[w]
    BY <1>0, <1>2
  <2> QED BY <1>2, <2>1 DEF CallMoves, Waits
<1>3. ASSUME NEW n \in Nodes, NEW v \in Commands,
             \/ ProposeAdvance(n, v) \/ ProposeSend(n, v)
             \/ ProposeCheck(n, v) \/ ProposeTimeout(n, v)
      PROVE  \A w \in Commands : CallMoves(w)
  <2>1. Waits(v) /\ call[v].node = n
    BY <1>3 DEF ProposeAdvance, ProposeSend, ProposeCheck, ProposeTimeout, CallAt, Waits
  <2>2. \E pc \in {"advanced", "sent", "asleep", "committed", "failed"} :
           /\ call' = [call EXCEPT ![v].pc = pc]
           /\ pc = "committed" => commitIndex[n] >= call[v].index
    BY <1>3 DEF ProposeAdvance, ProposeSend, ProposeCheck, ProposeTimeout
  <2> QED BY <1>2, <2>1, <2>2
<1>4. ASSUME NEW n \in Nodes, Restart(n) PROVE \A v \in Commands : CallMoves(v)
  <2> SUFFICES ASSUME NEW v \in Commands PROVE CallMoves(v)
    OBVIOUS
  <2>1. \/ call'[v] = call[v]
        \/ call'[v] = [call[v] EXCEPT !.pc = "failed"]
    BY <1>4 DEF Restart, StartFrom
  <2>2. CASE call'[v] = [call[v] EXCEPT !.pc = "failed"]
    <3>1. /\ call'[v].pc = "failed" /\ call'[v].node = call[v].node
          /\ call'[v].index = call[v].index
      BY <1>0, <2>2
    <3> QED BY <3>1 DEF CallMoves, Waits
  <2>3. CASE call'[v] = call[v]
    BY <2>3 DEF CallMoves, Waits
  <2> QED BY <2>1, <2>2, <2>3
<1>5. ASSUME NEW n \in Nodes,
             \/ BecomeCandidate(n) \/ FinishElection(n)
             \/ StartElection(n) \/ RequestVoteTimeout(n) \/ ResumeElection(n)
             \/ HeartbeatTimeout(n) \/ AppendEntriesTimeout(n)
             \/ SnapshotDecide(n) \/ SnapshotCapture(n) \/ SnapshotPublish(n) \/ SnapshotTrim(n)
      PROVE  call' = call
  BY <1>5 DEF BecomeCandidate, FinishElection, StartElection, RequestVoteTimeout, ResumeElection,
       HeartbeatTimeout, AppendEntriesTimeout, SnapshotDecide, SnapshotCapture, SnapshotPublish,
       SnapshotTrim
<1>6. ASSUME NEW n \in Nodes, NEW r \in replies,
             HandleRequestVoteResponse(n, r) \/ HandleAppendEntriesResponse(n, r)
      PROVE  call' = call
  BY <1>6 DEF HandleRequestVoteResponse, HandleAppendEntriesResponse
<1>7. ASSUME NEW n \in Nodes, NEW m \in requests,
             HandleRequestVote(n, m) \/ HandleAppendEntries(n, m)
      PROVE  call' = call
  BY <1>7 DEF HandleRequestVote, HandleAppendEntries
<1> QED BY <1>1, <1>3, <1>4, <1>5, <1>6, <1>7 DEF Next

\* A new call: its entry is the last of the leader's log.
LEMMA NewCalls ==
    ASSUME Base, NEW n \in Nodes, NEW v \in Commands, Propose(n, v)
    PROVE  /\ state[n] = "LEADER" /\ call'[v].pc = "appended" /\ call'[v].node = n
           /\ call'[v].index = Len(log[n]) + 1
           /\ Len(log'[n]) = Len(log[n]) + 1 /\ Len(log[n]) \in Nat
           /\ log'[n][Len(log[n]) + 1].cmd = v
           /\ \A w \in Commands : w # v => call'[w] = call[w]
<1>1. TypeOK /\ LogInv /\ LastIndex(log[n]) = Len(log[n])
  BY WholeLogs DEF Base, TypeInv, Whole
<1>2. /\ Len(log'[n]) = Len(log[n]) + 1 /\ Len(log[n]) \in Nat
      /\ log'[n][Len(log[n]) + 1].cmd = v
  BY <1>1, ProposeLog
<1>3. /\ state[n] = "LEADER"
      /\ call' = [call EXCEPT ![v] =
                    [pc |-> "appended", node |-> n, index |-> LastIndex(log[n]) + 1]]
  BY DEF Propose, MayPropose
<1> QED BY <1>1, <1>2, <1>3 DEF TypeOK

\* A worker's entry stays where it was put.
LEMMA CallsStep ==
    ASSUME Base, Base', Calls, Grows, RoleStep, Next
    PROVE  Calls'
<1>0. TypeOK /\ \A n \in Nodes : WasElected(n) => WasElected(n)'
  BY DEF Base, TypeInv, RoleStep, WasElected
<1>1. ASSUME NEW v \in Commands, CallMoves(v)
      PROVE  /\ call'[v].node # Nil => WasElected(call[v].node)'
             /\ Waits(v)' \/ call'[v].pc = "committed" =>
                   /\ call'[v].node \in Nodes
                   /\ call'[v].index \in 1..Len(log'[call'[v].node])
                   /\ log'[call'[v].node][call'[v].index].cmd = v
  <2>1. /\ call'[v].node = call[v].node /\ call'[v].index = call[v].index
        /\ Waits(v)' \/ call'[v].pc = "committed" => Waits(v) \/ call[v].pc = "committed"
    BY <1>1 DEF CallMoves
  <2>2. call[v].node # Nil => call[v].node \in Nodes /\ WasElected(call[v].node)
    BY <1>0 DEF TypeOK, Calls
  <2>3. ASSUME Waits(v) \/ call[v].pc = "committed"
        PROVE  /\ call[v].node \in Nodes
               /\ call[v].index \in 1..Len(log'[call[v].node])
               /\ log'[call[v].node][call[v].index].cmd = v
    <3>1. PICK n, i : n = call[v].node /\ i = call[v].index
      OBVIOUS
    <3>2. n \in Nodes /\ i \in 1..Len(log[n]) /\ log[n][i].cmd = v
      BY <2>3, <3>1 DEF Calls
    <3>3. Len(log[n]) \in Nat /\ Len(log'[n]) \in Nat /\ Len(log[n]) <= Len(log'[n])
          /\ log'[n][i] = log[n][i]
      BY <3>2, WholeLogs, WholeLogsNext DEF Whole, Grows
    <3>4. i \in 1..Len(log'[n])
      BY <3>2, <3>3
    <3> QED BY <3>1, <3>2, <3>3, <3>4
  <2> QED BY <1>0, <2>1, <2>2, <2>3
<1>2. CASE \A v \in Commands : CallMoves(v)
  <2>1. \A v \in Commands : call'[v].node = call[v].node
    BY <1>2 DEF CallMoves
  <2>2. ASSUME NEW v \in Commands, call'[v].node # Nil PROVE WasElected(call[v].node)'
    BY <1>1, <1>2, <2>2
  <2> QED BY <1>1, <1>2, <2>1 DEF Calls, WasElected
<1>3. ASSUME NEW n \in Nodes, NEW v \in Commands, Propose(n, v) PROVE Calls'
  <2>1. /\ state[n] = "LEADER" /\ call'[v].node = n
        /\ call'[v].index = Len(log[n]) + 1
        /\ Len(log'[n]) = Len(log[n]) + 1 /\ Len(log[n]) \in Nat
        /\ log'[n][Len(log[n]) + 1].cmd = v
        /\ \A w \in Commands : w # v => call'[w] = call[w]
    BY <1>3, NewCalls
  <2>2. WasElected(n)'
    BY <1>0, <2>1, LeaderLongest
  <2>3. ASSUME NEW w \in Commands, w # v PROVE CallMoves(w)
    BY <2>1, <2>3 DEF CallMoves, Waits
  <2>4. call'[v].index \in 1..Len(log'[n])
    BY <2>1
  <2> QED BY <1>1, <2>1, <2>2, <2>3, <2>4 DEF Calls, WasElected
<1> QED BY <1>0, <1>2, <1>3, CallsMove

\* A leader, also a deposed one, was elected, and in the step before it led
\* already or nobody was elected yet.
LEMMA LeadsSince ==
    ASSUME Base, Base', RoleStep, Calls', Next, NEW n \in Nodes, Leads(n)'
    PROVE  WasElected(n)' /\ (Leads(n) \/ elected = {})
<1>0. TypeOK /\ \A p \in Nodes : WasElected(p) => WasElected(p)'
  BY DEF Base, TypeInv, RoleStep, WasElected
<1>1. CASE state'[n] = "LEADER"
  <2>1. CASE state[n] = "LEADER"
    BY <1>0, <2>1, LeaderLongest DEF Leads
  <2>2. CASE state[n] # "LEADER"
    <3>1. elected = {}
      BY <1>1, <2>2, FirstElection
    <3>2. PICK w : w = [node |-> n, term |-> currentTerm[n]]
      OBVIOUS
    <3>3. w \in elected' /\ w.node = n
      BY <1>1, <2>2, <3>2 DEF RoleStep
    <3> QED BY <3>1, <3>3 DEF WasElected
  <2> QED BY <2>1, <2>2
<1>2. ASSUME NEW v \in Commands, Waits(v)', call'[v].node = n
      PROVE  WasElected(n)' /\ Leads(n)
  <2>1. WasElected(n)'
    BY <1>2, NodesAssumption DEF Calls, WasElected
  <2>2. CASE CallMoves(v)
    BY <1>2, <2>1, <2>2 DEF CallMoves, Leads
  <2>3. ASSUME NEW q \in Nodes, NEW w \in Commands, Propose(q, w) PROVE Leads(n)
    <3>1. /\ state[q] = "LEADER" /\ call'[w].node = q
          /\ \A u \in Commands : u # w => call'[u] = call[u]
      BY <2>3, NewCalls
    <3>2. CASE v = w
      BY <1>2, <3>1, <3>2 DEF Leads
    <3>3. CASE v # w
      BY <1>2, <3>1, <3>3 DEF Leads, Waits
    <3> QED BY <3>2, <3>3
  <2> QED BY <1>0, <2>1, <2>2, <2>3, CallsMove
<1> QED BY <1>1, <1>2 DEF Leads

\* What a leader commits and a worker reports is on a majority.
LEMMA BackedStep ==
    ASSUME Base, Base', NeverSnapped, Senders, MatchBound', CommitBound, Calls, Calls',
           Backed, Grows, RoleStep, Next
    PROVE  Backed'
<1>0. /\ TypeOK /\ \A p \in Nodes : commitIndex[p] \in Nat
      /\ \A v \in Commands : call[v].index \in Nat
  BY DEF Base, TypeInv, TypeOK
<1>1. ASSUME NEW n \in Nodes, Leads(n)' PROVE commitIndex'[n] = 0 \/ OnMajority(commitIndex[n])'
  <2>1. WasElected(n)' /\ (Leads(n) \/ elected = {})
    BY <1>1, LeadsSince
  <2>2. PICK c : c = commitIndex[n]
    OBVIOUS
  <2>3. c \in Nat /\ c <= c /\ (c = 0 \/ OnMajority(c))
    <3>1. CASE Leads(n)
      BY <1>0, <2>2, <3>1 DEF Backed
    <3>2. CASE elected = {}
      BY <1>0, <2>2, <3>2, EmptyBefore DEF CommitBound
    <3> QED BY <2>1, <3>1, <3>2
  <2>4. c = 0 \/ OnMajority(c)'
    BY <2>3, MajorityKept
  <2>10. ASSUME NEW i, commitIndex'[n] = i, OnMajority(i)' PROVE OnMajority(commitIndex[n])'
    <3>1. Holders(commitIndex[n])' = Holders(i)'
      BY <2>10 DEF Holders
    <3> QED BY <2>10, <3>1 DEF OnMajority
  <2>5. CASE commitIndex'[n] = c
    BY <2>4, <2>5, <2>10
  <2>6. ASSUME NEW q \in Nodes, Restart(q) PROVE commitIndex'[n] = c
    <3>1. /\ state'[q] = "FOLLOWER"
          /\ \A p \in Nodes : p # q => commitIndex'[p] = commitIndex[p]
      BY <1>0, <2>6 DEF Restart, StartFrom, TypeOK
    <3>2. \A v \in Commands : Waits(v)' => call'[v].node # q
      <4> SUFFICES ASSUME NEW v \in Commands, call'[v].node = q PROVE ~ Waits(v)'
        OBVIOUS
      <4>1. call'[v] = IF call[v].node = q /\ call[v].pc # "committed"
                       THEN [call[v] EXCEPT !.pc = "failed"] ELSE call[v]
        BY <2>6 DEF Restart, StartFrom
      <4>2. [call[v] EXCEPT !.pc = "failed"].pc = "failed"
            /\ [call[v] EXCEPT !.pc = "failed"].node = call[v].node
        BY <1>0 DEF TypeOK
      <4>3. call'[v].pc \in {"failed", "committed"}
        BY <4>1, <4>2
      <4> QED BY <4>3 DEF Waits
    <3>3. n # q
      BY <1>1, <3>1, <3>2 DEF Leads
    <3> QED BY <2>2, <3>1, <3>3
  <2>7. ASSUME NEW q \in Nodes, NEW i \in Nat, Commits(q, i)
        PROVE  commitIndex'[n] = c \/ (commitIndex'[n] = i /\ OnMajority(i)')
    <3>1. PICK l : l = log'[q]
      OBVIOUS
    <3>2. CommitTo(q, i, l) /\ (OnMajority(i)' \/ ~ WasElected(q)')
      BY <2>7, <3>1 DEF Commits
    <3>3. /\ \A p \in Nodes : p # q => commitIndex'[p] = commitIndex[p]
          /\ UNCHANGED commitVars \/ commitIndex'[q] = i
      BY <1>0, <3>2, CommitEffect
    <3> QED BY <2>1, <2>2, <3>2, <3>3 DEF commitVars
  <2>8. CASE \E i \in Nat : commitIndex'[n] = i /\ OnMajority(i)'
    BY <2>8, <2>10
  <2>9. CASE UNCHANGED <<commitVars, restarts>>
    BY <2>2, <2>5, <2>9 DEF commitVars
  <2> QED BY <2>5, <2>6, <2>7, <2>8, <2>9, CommitStep
<1>2. ASSUME NEW v \in Commands, call'[v].pc = "committed" PROVE OnMajority(call[v].index)'
  <2>1. PICK i : i = call[v].index
    OBVIOUS
  <2>2. ASSUME OnMajority(i), call'[v].index = i PROVE OnMajority(call[v].index)'
    <3>1. i \in Nat /\ i <= i
      BY <1>0, <2>1
    <3>2. OnMajority(i)'
      BY <2>2, <3>1, MajorityKept
    <3>3. Holders(call[v].index)' = Holders(i)'
      BY <2>2 DEF Holders
    <3> QED BY <3>2, <3>3 DEF OnMajority
  <2>3. CASE call[v].pc = "committed" /\ call'[v].index = i
    BY <2>1, <2>2, <2>3 DEF Backed
  <2>4. CASE Waits(v) /\ commitIndex[call[v].node] >= i /\ call'[v].index = i
    <3>1. PICK n : n = call[v].node
      OBVIOUS
    <3>2. n \in Nodes /\ i \in 1..Len(log[n]) /\ Leads(n)
      BY <2>1, <2>4, <3>1 DEF Calls, Leads
    <3>3. PICK c : c = commitIndex[n]
      OBVIOUS
    <3>4. c \in Nat /\ i \in Nat /\ i <= c /\ c # 0
      <4>1. c \in Nat /\ Len(log[n]) \in Nat /\ c >= i
        BY <1>0, <2>4, <3>1, <3>2, <3>3, WholeLogs DEF Whole
      <4> QED BY <3>2, <4>1
    <3>5. OnMajority(c)
      BY <3>2, <3>3, <3>4 DEF Backed
    <3>6. OnMajority(i)
      BY <3>4, <3>5, MajorityKept
    <3> QED BY <2>2, <2>4, <3>6
  <2>5. CASE CallMoves(v)
    BY <1>2, <2>1, <2>3, <2>4, <2>5 DEF CallMoves
  <2>6. ASSUME NEW q \in Nodes, NEW w \in Commands, Propose(q, w)
        PROVE  call[v].pc = "committed" /\ call'[v].index = i
    <3>1. call'[w].pc = "appended" /\ \A u \in Commands : u # w => call'[u] = call[u]
      BY <2>6, NewCalls
    <3> QED BY <1>2, <2>1, <3>1
  <2> QED BY <1>0, <2>3, <2>5, <2>6, CallsMove
<1> QED BY <1>1, <1>2 DEF Backed

-----------------------------------------------------------------------------
(* The theorems.                                                           *)

LEMMA CInvInit == Init => CInv
<1> SUFFICES ASSUME Init PROVE CommitInv
  BY DEF CInv
<1>0. Len(<<>>) = 0
  BY EmptySeq
<1>1. NeverSnapped /\ Senders /\ NextBound /\ MatchBound /\ CommitBound
  BY <1>0 DEF Init, NeverSnapped, Senders, LockFree, IdleRound, NextBound, MatchBound, CommitBound
<1>2. \A v \in Commands : call[v].node = Nil /\ call[v].pc = "new"
  BY DEF Init, NewCall
<1>3. Calls
  BY <1>2 DEF Calls, Waits
<1>4. Backed
  BY <1>2 DEF Init, Backed
<1>5. Applied
  BY <1>0 DEF Init, Applied
<1> QED BY <1>1, <1>3, <1>4, <1>5 DEF CommitInv

\* The condition holds before a step if it holds after it.
LEMMA FirstLeaderBefore ==
    ASSUME TypeOK, Next, FirstLeader'
    PROVE  FirstLeader /\ RoleStep
<1>1. snapshots = 0
  BY SnapshotsCounted DEF FirstLeader
<1>2. RoleStep
  BY RolesStep
<1>3. OneLeader
  BY <1>2 DEF FirstLeader, OneLeader, RoleStep
<1> QED BY <1>1, <1>2, <1>3 DEF FirstLeader

LEMMA CommitInvStep ==
    ASSUME Base, Base', CommitInv, RoleStep, Next
    PROVE  CommitInv' /\ Grows
<1>1. /\ NeverSnapped /\ Senders /\ NextBound /\ MatchBound
      /\ CommitBound /\ Calls /\ Backed /\ Applied
  BY DEF CommitInv
<1>2. Grows
  BY <1>1, GrowsStep
<1>3. NeverSnapped'
  BY <1>1, NeverSnappedStep
<1>4. NextBound'
  BY <1>1, <1>2, NextBoundStep
<1>5. MatchBound'
  BY <1>1, <1>2, MatchBoundStep
<1>6. Senders'
  BY <1>1, <1>4, SendersStep
<1>7. CommitBound' /\ Applied'
  BY <1>1, <1>2, <1>5, AppliedStep
<1>8. Calls'
  BY <1>1, <1>2, CallsStep
<1>9. Backed'
  BY <1>1, <1>2, <1>5, <1>8, BackedStep
<1> QED BY <1>2, <1>3, <1>4, <1>5, <1>6, <1>7, <1>8, <1>9 DEF CommitInv

LEMMA CInvStep == TypeInv /\ ElectionInv /\ IInv /\ CInv /\ [Next]_vars => CInv'
<1> SUFFICES ASSUME TypeInv, ElectionInv, IInv, CInv, [Next]_vars, FirstLeader'
             PROVE  CommitInv'
  BY DEF CInv
<1>1. TypeInv' /\ IInv'
  BY TypeStep, IInvStep
<1>2. CASE Next
  <2>1. FirstLeader /\ RoleStep
    BY <1>2, FirstLeaderBefore DEF TypeInv
  <2>2. Base /\ CommitInv
    BY <2>1 DEF Base, IInv, CInv, FirstLeader
  <2>3. Base'
    BY <1>1 DEF Base, IInv, FirstLeader
  <2> QED BY <1>2, <2>1, <2>2, <2>3, CommitInvStep
<1>3. CASE UNCHANGED vars
  <2>1. UNCHANGED <<log, state, commitIndex, lastApplied, applied, nextIndex, matchIndex,
                    snapMeta, snapFile, round, call, requests, replies, restarts, snapshots,
                    elected>>
    BY <1>3 DEF vars, diskVars, electVars, leaderVars, commitVars, snapVars, threadVars,
                netVars, boundVars, historyVars
  <2>2. CommitInv
    BY <2>1 DEF CInv, FirstLeader, OneLeader
  <2>3. NeverSnapped' /\ NextBound' /\ MatchBound' /\ CommitBound' /\ Applied'
    BY <2>1, <2>2 DEF CommitInv, NeverSnapped, NextBound, MatchBound, CommitBound, Applied
  <2>4. Senders'
    BY <2>1, <2>2 DEF CommitInv, Senders, FromLeader, WasElected, LockFree
  <2>5. Calls'
    BY <2>1, <2>2 DEF CommitInv, Calls, WasElected, Waits
  <2>6. \A i : OnMajority(i)' <=> OnMajority(i)
    BY <2>1 DEF OnMajority, Holders
  <2>7. Backed'
    <3>1. ASSUME NEW n \in Nodes, Leads(n)'
          PROVE  commitIndex'[n] = 0 \/ OnMajority(commitIndex[n])'
      BY <2>1, <2>2, <3>1 DEF CommitInv, Backed, Leads, Waits, OnMajority, Holders
    <3>2. ASSUME NEW v \in Commands, call'[v].pc = "committed"
          PROVE  OnMajority(call[v].index)'
      BY <2>1, <2>2, <3>2 DEF CommitInv, Backed, OnMajority, Holders
    <3> QED BY <3>1, <3>2 DEF Backed
  <2> QED BY <2>3, <2>4, <2>5, <2>7 DEF CommitInv
<1> QED BY <1>2, <1>3

LEMMA CommitInvariance == Spec => [](TypeInv /\ ElectionInv /\ IInv /\ CInv)
  BY TypeInit, TypeStep, ElectionInit, ElectionStep, IInvInit, IInvStep, CInvInit, CInvStep, PTL
     DEF Spec

\* What the condition gives in a reachable state.
LEMMA UnderFirstLeader == TypeInv /\ IInv /\ CInv /\ FirstLeader => Base /\ CommitInv
  BY DEF Base, IInv, CInv, FirstLeader

\* Holding an index is holding the entry of any log there.
LEMMA HeldByMajority ==
    ASSUME Base, NEW n \in Nodes, NEW i \in Nat, NEW k \in 1..Len(log[n]), k <= i, OnMajority(i),
           NEW S \in SUBSET Nodes,
           \A p \in Nodes : (\E j \in 1..Len(log[p]) : log[p][j] = log[n][k]) => p \in S
    PROVE  Cardinality(S) >= Majority
<1>1. PICK T : T = Holders(i)
  OBVIOUS
<1>2. T \subseteq S
  <2> SUFFICES ASSUME NEW p \in T PROVE p \in S
    OBVIOUS
  <2>1. p \in Nodes /\ Len(log[p]) >= i /\ Len(log[p]) \in Nat /\ Len(log[n]) \in Nat
    BY <1>1, WholeLogs DEF Holders, Whole
  <2>2. k \in 1..Len(log[p])
    BY <2>1
  <2>3. log[p][k] = log[n][k]
    BY <2>1, <2>2, LogsAlike
  <2> QED BY <2>1, <2>2, <2>3
<1>3. /\ Cardinality(T) \in Nat /\ Cardinality(S) \in Nat /\ Cardinality(T) <= Cardinality(S)
  BY <1>2, NodeSets
<1>4. Cardinality(T) >= Majority
  BY <1>1 DEF OnMajority
<1> QED BY <1>3, <1>4, MajorityType

\* Until a second leader is elected or a snapshot taken, what the leader counts
\* as committed is in the log of a majority of the nodes, in a cluster of any
\* size and with any number of late, lost and repeated requests and restarts
\* (AdvanceCommitIndex, HandleAppendEntriesResponse, Propose).
THEOREM CommitsBacked == Spec => [](FirstLeader => CommittedOnMajority)
<1>1. TypeInv /\ IInv /\ CInv => (FirstLeader => CommittedOnMajority)
  <2> SUFFICES ASSUME TypeInv, IInv, CInv, FirstLeader, NEW n \in Nodes,
                      NEW k \in 1..Len(log[n]), state[n] = "LEADER",
                      log[n][k].index <= commitIndex[n]
               PROVE  Cardinality({p \in Nodes :
                         \E j \in 1..Len(log[p]) : log[p][j] = log[n][k]}) >= Majority
    BY DEF CommittedOnMajority
  <2>1. Base /\ CommitInv
    BY UnderFirstLeader
  <2>2. log[n][k].index = k /\ Len(log[n]) \in Nat
    BY <2>1, WholeLogs DEF Base, LogInv, LogContiguous, Whole
  <2>3. PICK c : c = commitIndex[n]
    OBVIOUS
  <2>4. c \in Nat /\ k <= c /\ c # 0
    <3>1. c \in Nat /\ k <= c
      BY <2>1, <2>2, <2>3 DEF Base, TypeInv, TypeOK
    <3> QED BY <2>2, <3>1
  <2>5. OnMajority(c)
    BY <2>1, <2>3, <2>4 DEF CommitInv, Backed, Leads
  <2>6. PICK S : S = {p \in Nodes : \E j \in 1..Len(log[p]) : log[p][j] = log[n][k]}
    OBVIOUS
  <2>7. /\ S \in SUBSET Nodes
        /\ \A p \in Nodes : (\E j \in 1..Len(log[p]) : log[p][j] = log[n][k]) => p \in S
    BY <2>6
  <2>8. Cardinality(S) >= Majority
    BY <2>1, <2>4, <2>5, <2>7, HeldByMajority
  <2> QED BY <2>6, <2>8
<1> QED BY <1>1, CommitInvariance, PTL

\* Under the same condition a write that Propose reports as committed is in the
\* log of a majority of the nodes, also when its leader stepped down or
\* restarted since (Propose, AdvanceCommitIndex).
THEOREM AcksBacked == Spec => [](FirstLeader => AckedOnMajority)
<1>1. TypeInv /\ IInv /\ CInv => (FirstLeader => AckedOnMajority)
  <2> SUFFICES ASSUME TypeInv, IInv, CInv, FirstLeader,
                      NEW v \in Commands, call[v].pc = "committed"
               PROVE  Cardinality({p \in Nodes :
                          \/ \E j \in 1..Len(log[p]) : log[p][j].cmd = v
                          \/ \E j \in 1..Len(applied[p]) : applied[p][j].cmd = v}) >= Majority
    BY DEF AckedOnMajority
  <2>1. Base /\ CommitInv
    BY UnderFirstLeader
  <2>2. PICK n, i : n = call[v].node /\ i = call[v].index
    OBVIOUS
  <2>3. n \in Nodes /\ i \in 1..Len(log[n]) /\ log[n][i].cmd = v /\ OnMajority(i)
    BY <2>1, <2>2 DEF CommitInv, Calls, Backed
  <2>4. i \in Nat /\ i <= i
    BY <2>3, <2>1, WholeLogs DEF Whole
  <2>5. PICK S : S = {p \in Nodes :
                        \/ \E j \in 1..Len(log[p]) : log[p][j].cmd = v
                        \/ \E j \in 1..Len(applied[p]) : applied[p][j].cmd = v}
    OBVIOUS
  <2>6. /\ S \in SUBSET Nodes
        /\ \A p \in Nodes : (\E j \in 1..Len(log[p]) : log[p][j] = log[n][i]) => p \in S
    BY <2>3, <2>5
  <2>7. Cardinality(S) >= Majority
    BY <2>1, <2>3, <2>4, <2>6, HeldByMajority
  <2> QED BY <2>5, <2>7
<1> QED BY <1>1, CommitInvariance, PTL

\* As long as no node restarted either, the state machine was given every entry
\* up to last_applied_; a restart gives it none of the log (RestoreState sets
\* last_applied_ to the end of the log), so there the property ends
\* (ApplyCommitted, HandleAppendEntries).
THEOREM AppliedGiven == Spec => [](FirstLeader /\ restarts = 0 => AppliedReachedStateMachine)
<1>1. TypeInv /\ IInv /\ CInv => (FirstLeader /\ restarts = 0 => AppliedReachedStateMachine)
  <2> SUFFICES ASSUME TypeInv, IInv, CInv, FirstLeader, restarts = 0, NEW n \in Nodes,
                      NEW k \in 1..Len(log[n]), log[n][k].index <= lastApplied[n]
               PROVE  \E j \in 1..Len(applied[n]) : applied[n][j] = log[n][k]
    BY DEF AppliedReachedStateMachine
  <2>1. Base /\ CommitInv
    BY UnderFirstLeader
  <2>2. /\ log[n][k].index = k /\ Len(log[n]) \in Nat /\ lastApplied[n] \in Nat
    BY <2>1, WholeLogs DEF Base, LogInv, LogContiguous, Whole, TypeInv, TypeOK
  <2>3. k \in 1..lastApplied[n]
    BY <2>2
  <2> QED BY <2>1, <2>3 DEF CommitInv, Applied
<1> QED BY <1>1, CommitInvariance, PTL
=============================================================================
