-------------------------- MODULE RaftNode_proofs ---------------------------
(***************************************************************************)
(* Proofs about RaftNode for every cluster, every set of commands and      *)
(* every value of the bounds.                                              *)
(***************************************************************************)
EXTENDS RaftNode, FiniteSetTheorems, SequenceTheorems, TLAPS

-----------------------------------------------------------------------------
(* Operators on logs.                                                      *)

\* The entries up to an index are a prefix length: counting them never leaves
\* the log (GetLogEntry, the loops over log_).
LEMMA CountUpToType ==
    ASSUME NEW l \in Seq(Entry), NEW i \in Int
    PROVE  CountUpTo(l, i) \in 0..Len(l)
<1> DEFINE S == {k \in 1..Len(l) : l[k].index <= i}
<1>0. Len(l) \in Nat
  BY LenProperties
<1>1. IsFiniteSet(1..Len(l)) /\ Cardinality(1..Len(l)) = Len(l)
  <2>1. 1 \in Int /\ Len(l) \in Int
    BY <1>0
  <2>2. Cardinality(1..Len(l)) = IF 1 > Len(l) THEN 0 ELSE Len(l) - 1 + 1
    BY <2>1, FS_Interval
  <2>3. IsFiniteSet(1..Len(l))
    BY <2>1, FS_Interval
  <2> QED BY <1>0, <2>2, <2>3
<1>2. IsFiniteSet(S) /\ Cardinality(S) <= Cardinality(1..Len(l))
  BY <1>1, FS_Subset
<1>3. Cardinality(S) \in Nat
  BY <1>2, FS_CardinalityType
<1> QED BY <1>1, <1>2, <1>3 DEF CountUpTo

\* Cutting a log at an index gives a log.
LEMMA LogCuts ==
    ASSUME NEW l \in Seq(Entry), NEW i \in Int
    PROVE  UpTo(l, i) \in Seq(Entry) /\ Above(l, i) \in Seq(Entry)
<1>1. CountUpTo(l, i) \in 0..Len(l)
  BY CountUpToType
<1>2. Len(l) \in Nat /\ \A k \in 1..Len(l) : l[k] \in Entry
  BY LenProperties, ElementOfSeq
<1> HIDE DEF Entry
<1>3. UpTo(l, i) \in Seq(Entry)
  BY <1>1, <1>2, SubSeqProperties DEF UpTo
<1>4. Above(l, i) \in Seq(Entry)
  BY <1>1, <1>2, SubSeqProperties DEF Above
<1> QED BY <1>3, <1>4

\* The last index, the last term and the term at an index are numbers.
LEMMA LogReads ==
    ASSUME NEW l \in Seq(Entry), NEW i
    PROVE  LastIndex(l) \in Nat /\ LastTerm(l) \in Nat /\ TermAt(l, i) \in Nat
<1>1. \A k \in 1..Len(l) : l[k].index \in Nat /\ l[k].term \in Nat
  <2>1. \A k \in 1..Len(l) : l[k] \in Entry
    BY ElementOfSeq
  <2> QED BY <2>1 DEF Entry
<1>2. l # <<>> => Len(l) \in 1..Len(l)
  BY EmptySeq, LenProperties
<1>3. LastIndex(l) \in Nat /\ LastTerm(l) \in Nat
  BY <1>1, <1>2 DEF LastIndex, LastTerm
<1>4. TermAt(l, i) \in Nat
  BY <1>1 DEF TermAt
<1> QED BY <1>3, <1>4

-----------------------------------------------------------------------------
(* Type correctness.                                                       *)

Requests   == VoteRequest \cup AppendRequest
RoundType  == [todo : SUBSET Nodes, wait : Nodes \cup {Nil}]
BallotType == [phase : {"idle", "begin", "asking", "leading"},
               term : Nat, lastTerm : Nat, lastIndex : Nat,
               todo : SUBSET Nodes, wait : Nodes \cup {Nil}]

TypeInv == TypeOK /\ NextIndexPositive

\* A turn of the loop of SendHeartbeats sends a well-formed request: next_idx - 1
\* does not wrap.
LEMMA ContinueRoundType ==
    ASSUME TypeOK, NEW n \in Nodes,
           NEW todo \in SUBSET Peers(n), NEW sent \in SUBSET Requests,
           currentTerm' \in [Nodes -> Nat], commitIndex' \in [Nodes -> Nat],
           nextIndex' \in [Nodes -> [Nodes -> Nat]],
           \A p \in Peers(n) : nextIndex'[n][p] >= 1,
           \A p \in Nodes : p \notin round[p].todo,
           ContinueRound(n, todo, sent)
    PROVE  /\ requests' \in SUBSET Requests
           /\ round' \in [Nodes -> RoundType]
           /\ \A p \in Nodes : p \notin round'[p].todo
           /\ \A p \in Nodes : p # n => round'[p] = round[p]
<1>1. round \in [Nodes -> RoundType] /\ log[n] \in Seq(Entry)
      /\ snapMeta[n].index \in Nat /\ snapMeta[n].term \in Nat
  BY DEF TypeOK, RoundType
<1>2. Peers(n) \subseteq Nodes /\ n \notin Peers(n)
  BY DEF Peers
<1>3. CASE todo = {} /\ round' = [round EXCEPT ![n] = IdleRound] /\ requests' = sent
  BY <1>1, <1>2, <1>3 DEF IdleRound, RoundType
<1>4. ASSUME NEW p \in todo,
             round' = [round EXCEPT ![n] = [todo |-> todo \ {p}, wait |-> p]],
             requests' = sent \cup {AppendMessage(n, p)}
      PROVE  /\ requests' \in SUBSET Requests
             /\ round' \in [Nodes -> RoundType]
             /\ \A q \in Nodes : q \notin round'[q].todo
             /\ \A q \in Nodes : q # n => round'[q] = round[q]
  <2> DEFINE prev == nextIndex'[n][p] - 1
  <2>1. p \in Nodes /\ prev \in Nat /\ currentTerm'[n] \in Nat /\ commitIndex'[n] \in Nat
    <3>1. p \in Peers(n) /\ p \in Nodes
      BY <1>2
    <3>2. nextIndex'[n][p] \in Nat /\ nextIndex'[n][p] >= 1
      BY <3>1
    <3> QED BY <3>1, <3>2
  <2>2. PrevTerm(n, prev) \in Nat
    BY <1>1, LogReads DEF PrevTerm
  <2>3. Above(log[n], prev) \in Seq(Entry)
    BY <1>1, <2>1, LogCuts
  <2> HIDE DEF prev
  <2>4. AppendMessage(n, p) \in AppendRequest
    BY <2>1, <2>2, <2>3 DEF AppendMessage, AppendRequest, prev
  <2>5. requests' \in SUBSET Requests
    BY <1>4, <2>4 DEF Requests
  <2>6. round' \in [Nodes -> RoundType]
    BY <1>1, <1>2, <1>4, <2>1 DEF RoundType
  <2>7. \A q \in Nodes : q \notin round'[q].todo
    BY <1>1, <1>2, <1>4
  <2>8. \A q \in Nodes : q # n => round'[q] = round[q]
    BY <1>1, <1>4
  <2> QED BY <2>5, <2>6, <2>7, <2>8
<1> QED BY <1>3, <1>4 DEF ContinueRound

\* A turn of the loop of StartElection sends a well-formed request.
LEMMA ContinueBallotType ==
    ASSUME NEW n \in Nodes, NEW b \in BallotType, NEW sent \in SUBSET Requests,
           ballot \in [Nodes -> BallotType], ContinueBallot(n, b, sent)
    PROVE  requests' \in SUBSET Requests /\ ballot' \in [Nodes -> BallotType]
<1>1. CASE b.todo = {} /\ ballot' = [ballot EXCEPT ![n] = [b EXCEPT !.wait = Nil]]
           /\ requests' = sent
  BY <1>1 DEF BallotType
<1>2. ASSUME NEW p \in b.todo,
             ballot' = [ballot EXCEPT ![n] = [b EXCEPT !.todo = @ \ {p}, !.wait = p]],
             requests' = sent \cup
               {[type |-> "RequestVote", src |-> n, dst |-> p, live |-> TRUE,
                 term |-> b.term, lastTerm |-> b.lastTerm, lastIndex |-> b.lastIndex]}
      PROVE  requests' \in SUBSET Requests /\ ballot' \in [Nodes -> BallotType]
  <2>1. p \in Nodes /\ b.term \in Nat /\ b.lastTerm \in Nat /\ b.lastIndex \in Nat
    BY DEF BallotType
  <2> DEFINE m == [type |-> "RequestVote", src |-> n, dst |-> p, live |-> TRUE,
                   term |-> b.term, lastTerm |-> b.lastTerm, lastIndex |-> b.lastIndex]
  <2>4. m \in VoteRequest
    BY <2>1 DEF VoteRequest
  <2>5. requests' = sent \cup {m}
    BY <1>2
  <2> HIDE DEF m
  <2>2. requests' \in SUBSET Requests
    BY <2>4, <2>5 DEF Requests
  <2>3. [b EXCEPT !.todo = @ \ {p}, !.wait = p] \in BallotType
    BY <2>1 DEF BallotType
  <2> QED BY <1>2, <2>2, <2>3
<1> QED BY <1>1, <1>2 DEF ContinueBallot

\* A request whose caller is gone is a request.
LEMMA LateRequest ==
    \A m \in Requests : [m EXCEPT !.live = FALSE] \in Requests
  BY DEF Requests, VoteRequest, AppendRequest

\* What a caller that gives up leaves on the wire is still requests.
LEMMA AbandonedType ==
    ASSUME requests \in SUBSET Requests, NEW n, NEW p, NEW type,
           NEW sent \in Abandoned(n, p, type)
    PROVE  sent \in SUBSET Requests
<1>1. \A m \in requests : [m EXCEPT !.live = FALSE] \in Requests
  BY LateRequest
<1> QED BY <1>1 DEF Abandoned

\* CommitTo keeps the types of the commit variables.
LEMMA CommitToType ==
    ASSUME TypeOK, NEW n \in Nodes, NEW i \in Nat, NEW l \in Seq(Entry),
           CommitTo(n, i, l)
    PROVE  /\ commitIndex' \in [Nodes -> Nat]
           /\ lastApplied' \in [Nodes -> Nat]
           /\ applied' \in [Nodes -> Seq(Entry)]
<1>1. lastApplied[n] \in Nat /\ applied[n] \in Seq(Entry)
  BY DEF TypeOK
<1>2. Above(UpTo(l, i), lastApplied[n]) \in Seq(Entry)
  <2>1. UpTo(l, i) \in Seq(Entry)
    BY LogCuts
  <2>2. lastApplied[n] \in Int
    BY <1>1
  <2> QED BY <2>1, <2>2, LogCuts
<1>3. applied[n] \o Above(UpTo(l, i), lastApplied[n]) \in Seq(Entry)
  BY <1>1, <1>2, ConcatProperties
<1>4. Larger(lastApplied[n], i) \in Nat
  BY <1>1 DEF Larger
<1>5. /\ commitIndex \in [Nodes -> Nat]
      /\ lastApplied \in [Nodes -> Nat]
      /\ applied \in [Nodes -> Seq(Entry)]
  BY DEF TypeOK
<1>6. CASE i > commitIndex[n]
  BY <1>3, <1>4, <1>5, <1>6 DEF CommitTo
<1>7. CASE ~ (i > commitIndex[n])
  BY <1>5, <1>7 DEF CommitTo, commitVars
<1> QED BY <1>6, <1>7

\* So does AdvanceCommitIndex.
LEMMA AdvanceType ==
    ASSUME TypeOK, NEW n \in Nodes, NEW match, AdvanceCommitIndex(n, match)
    PROVE  /\ commitIndex' \in [Nodes -> Nat]
           /\ lastApplied' \in [Nodes -> Nat]
           /\ applied' \in [Nodes -> Seq(Entry)]
<1>1. log[n] \in Seq(Entry) /\ commitIndex[n] \in Nat
  BY DEF TypeOK
<1>2. LastIndex(log[n]) \in Nat
  BY <1>1, LogReads
<1>3. Committable(n, match) \subseteq Nat
  BY <1>1, <1>2 DEF Committable
<1>4. CASE Committable(n, match) = {}
  BY <1>4 DEF AdvanceCommitIndex, TypeOK, commitVars
<1>5. CASE \E i \in Committable(n, match) : CommitTo(n, i, log[n])
  BY <1>1, <1>3, <1>5, CommitToType
<1> QED BY <1>4, <1>5 DEF AdvanceCommitIndex

\* The initial state has the right types.
LEMMA TypeInit == Init => TypeInv
<1> SUFFICES ASSUME Init PROVE TypeInv
  OBVIOUS
<1>1. NoSnapshot \in Snapshot /\ <<>> \in Seq(Entry)
  BY EmptySeq DEF NoSnapshot, Snapshot
<1>2. IdleBallot \in BallotType /\ IdleRound \in RoundType
  BY DEF IdleBallot, IdleRound, BallotType, RoundType
<1>3. TypeOK
  BY <1>1, <1>2 DEF Init, TypeOK, BallotType, RoundType, IdleTaking, NewCall
<1>4. NextIndexPositive
  BY DEF Init, NextIndexPositive, LockFree, IdleRound
<1> QED BY <1>3, <1>4 DEF TypeInv

\* Each action of the timer thread keeps the types (BecomeCandidate to
\* FinishElection and HeartbeatTimeout).
LEMMA TypeElection ==
    ASSUME TypeInv, NEW n \in Nodes
    PROVE  /\ BecomeCandidate(n) => TypeInv'
           /\ StartElection(n) => TypeInv'
           /\ RequestVoteTimeout(n) => TypeInv'
           /\ ResumeElection(n) => TypeInv'
<1> USE DEF TypeInv
<1>1. ASSUME BecomeCandidate(n) PROVE TypeInv'
  <2>3. currentTerm' \in [Nodes -> Nat] /\ votedFor' \in [Nodes -> Nodes \cup {Nil}]
    <3>1. currentTerm \in [Nodes -> Nat] /\ votedFor \in [Nodes -> Nodes \cup {Nil}]
      BY DEF TypeOK
    <3>2. currentTerm' = [currentTerm EXCEPT ![n] = @ + 1]
          /\ votedFor' = [votedFor EXCEPT ![n] = n]
      BY <1>1 DEF BecomeCandidate
    <3> QED BY <3>1, <3>2
  <2>4. state' \in [Nodes -> {"FOLLOWER", "CANDIDATE", "LEADER"}]
        /\ leaderId' \in [Nodes -> Nodes \cup {Nil}] /\ votesReceived' \in [Nodes -> Nat]
    BY <1>1 DEF TypeOK, BecomeCandidate
  <2>5. ballot' \in [Nodes -> BallotType]
    BY <1>1 DEF TypeOK, BecomeCandidate, BallotType, IdleBallot, Peers
  <2>6. votes' \in SUBSET [voter : Nodes, term : Nat, cand : Nodes]
    <3>1. votes \in SUBSET [voter : Nodes, term : Nat, cand : Nodes] /\ currentTerm[n] \in Nat
      BY DEF TypeOK
    <3>2. votes' = votes \cup {[voter |-> n, term |-> currentTerm[n] + 1, cand |-> n]}
      BY <1>1 DEF BecomeCandidate
    <3> QED BY <3>1, <3>2
  <2>1. TypeOK'
    BY <1>1, <2>3, <2>4, <2>5, <2>6
       DEF TypeOK, BecomeCandidate, BallotType, leaderVars, commitVars, snapVars,
           netVars, boundVars
  <2>2. NextIndexPositive'
    BY <1>1 DEF TypeOK, NextIndexPositive, BecomeCandidate, LockFree, leaderVars
  <2> QED BY <2>1, <2>2
<1>2. ASSUME StartElection(n) PROVE TypeInv'
  <2> DEFINE b == [phase |-> "asking", term |-> currentTerm[n],
                   lastTerm |-> LastTerm(log[n]), lastIndex |-> LastIndex(log[n]),
                   todo |-> Peers(n), wait |-> Nil]
  <2>1. b \in BallotType
    BY LogReads DEF TypeOK, BallotType, Peers
  <2>2. ContinueBallot(n, b, requests)
    BY <1>2 DEF StartElection
  <2> HIDE DEF b
  <2>3. requests' \in SUBSET Requests /\ ballot' \in [Nodes -> BallotType]
    BY <2>1, <2>2, ContinueBallotType DEF TypeOK, Requests, BallotType
  <2>4. TypeOK'
    BY <1>2, <2>3 DEF TypeOK, StartElection, Requests, BallotType, diskVars, electVars,
                leaderVars, commitVars, snapVars, boundVars, historyVars
  <2>5. NextIndexPositive'
    BY <1>2 DEF NextIndexPositive, StartElection, LockFree, electVars, leaderVars
  <2> QED BY <2>4, <2>5
<1>3. ASSUME RequestVoteTimeout(n) PROVE TypeInv'
  <2>1. PICK sent \in Abandoned(n, ballot[n].wait, "RequestVote") :
            ContinueBallot(n, ballot[n], sent)
    BY <1>3 DEF RequestVoteTimeout
  <2>2. requests \in SUBSET Requests /\ ballot \in [Nodes -> BallotType]
        /\ ballot[n] \in BallotType
    BY DEF TypeOK, Requests, BallotType
  <2>3. requests' \in SUBSET Requests /\ ballot' \in [Nodes -> BallotType]
    BY <2>1, <2>2, AbandonedType, ContinueBallotType
  <2>6. replies' \in SUBSET (VoteReply \cup AppendReply) /\ failures' \in Nat
    BY <1>3 DEF TypeOK, RequestVoteTimeout, RepliesWithout, RpcFails
  <2>4. TypeOK'
    BY <1>3, <2>3, <2>6
       DEF TypeOK, RequestVoteTimeout, Requests, BallotType, diskVars, electVars,
           leaderVars, commitVars, snapVars, historyVars
  <2>5. NextIndexPositive'
    BY <1>3 DEF NextIndexPositive, RequestVoteTimeout, LockFree, electVars, leaderVars
  <2> QED BY <2>4, <2>5
<1>4. ASSUME ResumeElection(n) PROVE TypeInv'
  <2>1. requests \in SUBSET Requests /\ ballot \in [Nodes -> BallotType]
        /\ ballot[n] \in BallotType
    BY DEF TypeOK, Requests, BallotType
  <2>2. requests' \in SUBSET Requests /\ ballot' \in [Nodes -> BallotType]
    BY <1>4, <2>1, ContinueBallotType DEF ResumeElection
  <2>3. TypeOK'
    BY <1>4, <2>2 DEF TypeOK, ResumeElection, Requests, BallotType, diskVars, electVars,
                leaderVars, commitVars, snapVars, boundVars, historyVars
  <2>4. NextIndexPositive'
    BY <1>4 DEF NextIndexPositive, ResumeElection, LockFree, electVars, leaderVars
  <2> QED BY <2>3, <2>4
<1> QED BY <1>1, <1>2, <1>3, <1>4

\* BecomeLeader starts its round with well-formed requests.
LEMMA BecomeLeaderType ==
    ASSUME TypeInv, NEW n \in Nodes, BecomeLeader(n)
    PROVE  /\ state' \in [Nodes -> {"FOLLOWER", "CANDIDATE", "LEADER"}]
           /\ leaderId' \in [Nodes -> Nodes \cup {Nil}]
           /\ nextIndex' \in [Nodes -> [Nodes -> Nat]]
           /\ matchIndex' \in [Nodes -> [Nodes -> Nat]]
           /\ requests' \in SUBSET Requests
           /\ round' \in [Nodes -> RoundType]
           /\ ballot' \in [Nodes -> BallotType]
           /\ elected' \in SUBSET [node : Nodes, term : Nat]
           /\ NextIndexPositive'
<1> DEFINE first == Larger(LastIndex(log[n]), snapMeta[n].index) + 1
<1>1. first \in Nat /\ first >= 1
  <2>1. LastIndex(log[n]) \in Nat /\ snapMeta[n].index \in Nat
    BY LogReads DEF TypeInv, TypeOK
  <2> QED BY <2>1 DEF Larger
<1>2. nextIndex' = [nextIndex EXCEPT ![n] = [p \in Nodes |-> IF p = n THEN 0 ELSE first]]
  BY DEF BecomeLeader
<1> HIDE DEF first
<1>3. nextIndex \in [Nodes -> [Nodes -> Nat]] /\ matchIndex \in [Nodes -> [Nodes -> Nat]]
  BY DEF TypeInv, TypeOK
<1>4. nextIndex' \in [Nodes -> [Nodes -> Nat]]
  BY <1>1, <1>2, <1>3
<1>5. \A p \in Peers(n) : nextIndex'[n][p] >= 1
  BY <1>1, <1>2, <1>3 DEF Peers
<1>6. matchIndex' \in [Nodes -> [Nodes -> Nat]]
  BY <1>3 DEF BecomeLeader
<1>7. /\ requests' \in SUBSET Requests
      /\ round' \in [Nodes -> RoundType]
      /\ \A p \in Nodes : p \notin round'[p].todo
      /\ \A p \in Nodes : p # n => round'[p] = round[p]
  <2>1. ContinueRound(n, Peers(n), requests)
        /\ currentTerm' \in [Nodes -> Nat] /\ commitIndex' \in [Nodes -> Nat]
    BY DEF BecomeLeader, TypeInv, TypeOK
  <2>2. requests \in SUBSET Requests /\ Peers(n) \in SUBSET Peers(n)
        /\ TypeOK /\ \A p \in Nodes : p \notin round[p].todo
    BY DEF TypeInv, TypeOK, Requests, NextIndexPositive
  <2> QED BY <1>4, <1>5, <2>1, <2>2, ContinueRoundType
<1>8. state' \in [Nodes -> {"FOLLOWER", "CANDIDATE", "LEADER"}]
      /\ leaderId' \in [Nodes -> Nodes \cup {Nil}]
  BY DEF BecomeLeader, TypeInv, TypeOK
<1>9. ballot' \in [Nodes -> BallotType]
  <2>1. ballot \in [Nodes -> BallotType]
    BY DEF TypeInv, TypeOK, BallotType
  <2>2. ballot' = [ballot EXCEPT ![n].wait = Nil,
                                 ![n].phase = IF Peers(n) = {} THEN @ ELSE "leading"]
    BY DEF BecomeLeader
  <2>3. PICK ph : ph = IF Peers(n) = {} THEN ballot[n].phase ELSE "leading"
    OBVIOUS
  <2>4. ballot' = [ballot EXCEPT ![n] = [ballot[n] EXCEPT !.wait = Nil, !.phase = ph]]
    BY <2>1, <2>2, <2>3
  <2>5. ballot[n] \in BallotType
    BY <2>1
  <2>6. ph \in {"idle", "begin", "asking", "leading"}
    BY <2>3, <2>5 DEF BallotType
  <2>7. [ballot[n] EXCEPT !.wait = Nil, !.phase = ph] \in BallotType
    BY <2>5, <2>6 DEF BallotType
  <2> QED BY <2>1, <2>4, <2>7
<1>10. elected' \in SUBSET [node : Nodes, term : Nat]
  <2>1. elected \in SUBSET [node : Nodes, term : Nat] /\ currentTerm[n] \in Nat
    BY DEF TypeInv, TypeOK
  <2>2. elected' = elected \cup {[node |-> n, term |-> currentTerm[n]]}
    BY DEF BecomeLeader
  <2> QED BY <2>1, <2>2
<1>11. NextIndexPositive'
  <2>1. \A p \in Nodes : p # n =>
          nextIndex'[p] = nextIndex[p] /\ state'[p] = state[p] /\ round'[p] = round[p]
    BY <1>2, <1>3, <1>7 DEF BecomeLeader, TypeInv, TypeOK
  <2> QED BY <1>5, <1>7, <2>1 DEF TypeInv, NextIndexPositive, LockFree
<1> QED BY <1>4, <1>6, <1>7, <1>8, <1>9, <1>10, <1>11

\* Stepping down keeps the types.
LEMMA StepDownType ==
    ASSUME TypeOK, NEW n \in Nodes, NEW t \in Nat, StepDown(n, t)
    PROVE  /\ currentTerm' \in [Nodes -> Nat]
           /\ votedFor' \in [Nodes -> Nodes \cup {Nil}]
           /\ state' \in [Nodes -> {"FOLLOWER", "CANDIDATE", "LEADER"}]
           /\ leaderId' \in [Nodes -> Nodes \cup {Nil}]
           /\ \A p \in Nodes : state'[p] = "LEADER" => state[p] = "LEADER"
  BY DEF TypeOK, StepDown

\* The rest of the timer thread: replies to RequestVote and the end of the
\* election (HandleRequestVoteResponse, FinishElection).
LEMMA TypeVoteReply ==
    ASSUME TypeInv, NEW n \in Nodes
    PROVE  /\ \A r \in replies : HandleRequestVoteResponse(n, r) => TypeInv'
           /\ FinishElection(n) => TypeInv'
<1>0. TypeOK /\ NextIndexPositive /\ requests \in SUBSET Requests
      /\ ballot \in [Nodes -> BallotType] /\ ballot[n] \in BallotType
  BY DEF TypeInv, TypeOK, Requests, BallotType
<1>1. ASSUME NEW r \in replies, HandleRequestVoteResponse(n, r) PROVE TypeInv'
  <2>1. replies' \in SUBSET (VoteReply \cup AppendReply) /\ r.term \in Nat
    BY <1>0, <1>1 DEF TypeOK, HandleRequestVoteResponse, VoteReply, AppendReply
  <2>2. UNCHANGED <<log, commitVars, snapVars, call, boundVars, votes>>
    BY <1>1 DEF HandleRequestVoteResponse
  <2>3. CASE /\ StepDown(n, r.term)
             /\ ContinueBallot(n, ballot[n], requests)
             /\ UNCHANGED <<votesReceived, leaderVars, round, elected>>
    <3>1. requests' \in SUBSET Requests /\ ballot' \in [Nodes -> BallotType]
      BY <1>0, <2>3, ContinueBallotType
    <3>2. /\ currentTerm' \in [Nodes -> Nat]
          /\ votedFor' \in [Nodes -> Nodes \cup {Nil}]
          /\ state' \in [Nodes -> {"FOLLOWER", "CANDIDATE", "LEADER"}]
          /\ leaderId' \in [Nodes -> Nodes \cup {Nil}]
          /\ \A p \in Nodes : state'[p] = "LEADER" => state[p] = "LEADER"
      BY <1>0, <2>1, <2>3, StepDownType
    <3>3. TypeOK'
      BY <1>0, <2>1, <2>2, <2>3, <3>1, <3>2
         DEF TypeOK, Requests, BallotType, leaderVars, commitVars, snapVars, boundVars
    <3>4. NextIndexPositive'
      BY <1>0, <2>3, <3>2 DEF NextIndexPositive, LockFree, leaderVars
    <3> QED BY <3>3, <3>4 DEF TypeInv
  <2>4. CASE /\ ContinueBallot(n, ballot[n], requests)
             /\ UNCHANGED <<currentTerm, votedFor, state, leaderId, leaderVars, round,
                            elected>>
             /\ votesReceived' \in [Nodes -> Nat]
    <3>1. requests' \in SUBSET Requests /\ ballot' \in [Nodes -> BallotType]
      BY <1>0, <2>4, ContinueBallotType
    <3>2. TypeOK'
      BY <1>0, <2>1, <2>2, <2>4, <3>1
         DEF TypeOK, Requests, BallotType, leaderVars, commitVars, snapVars, boundVars
    <3>3. NextIndexPositive'
      BY <1>0, <2>4 DEF NextIndexPositive, LockFree, leaderVars
    <3> QED BY <3>2, <3>3 DEF TypeInv
  <2>5. CASE /\ BecomeLeader(n)
             /\ votesReceived' \in [Nodes -> Nat]
             /\ UNCHANGED <<currentTerm, votedFor>>
    <3>1. TypeOK'
      BY <1>0, <2>1, <2>2, <2>5, BecomeLeaderType
         DEF TypeOK, TypeInv, Requests, BallotType, RoundType, commitVars, snapVars,
             boundVars
    <3> QED BY <1>0, <2>5, <3>1, BecomeLeaderType DEF TypeInv
  <2>6. votesReceived \in [Nodes -> Nat]
        /\ [votesReceived EXCEPT ![n] = @ + 1] \in [Nodes -> Nat]
    BY <1>0 DEF TypeOK
  <2> QED
    BY <1>1, <2>3, <2>4, <2>5, <2>6 DEF HandleRequestVoteResponse, electVars
<1>2. ASSUME FinishElection(n) PROVE TypeInv'
  <2>1. UNCHANGED <<diskVars, votesReceived, commitVars, snapVars, call, replies,
                    boundVars, votes>>
    BY <1>2 DEF FinishElection
  <2>2. CASE BecomeLeader(n)
    <3>1. TypeOK'
      BY <1>0, <2>1, <2>2, BecomeLeaderType
         DEF TypeOK, TypeInv, Requests, BallotType, RoundType, diskVars, commitVars,
             snapVars, boundVars
    <3> QED BY <1>0, <2>2, <3>1, BecomeLeaderType DEF TypeInv
  <2>3. CASE /\ ballot' = [ballot EXCEPT ![n] = IdleBallot]
             /\ UNCHANGED <<state, leaderId, leaderVars, round, requests, elected>>
    <3>1. ballot' \in [Nodes -> BallotType]
      BY <1>0, <2>3 DEF IdleBallot, BallotType
    <3>2. TypeOK'
      BY <1>0, <2>1, <2>3, <3>1
         DEF TypeOK, BallotType, diskVars, leaderVars, commitVars, snapVars, boundVars
    <3>3. NextIndexPositive'
      BY <1>0, <2>3 DEF NextIndexPositive, LockFree, leaderVars
    <3> QED BY <3>2, <3>3 DEF TypeInv
  <2> QED BY <1>2, <2>2, <2>3 DEF FinishElection
<1> QED BY <1>1, <1>2

\* The handlers of the RPC loop (HandleRequestVote, HandleAppendEntries).
LEMMA TypeHandlers ==
    ASSUME TypeInv, NEW n \in Nodes, NEW m \in requests
    PROVE  /\ HandleRequestVote(n, m) => TypeInv'
           /\ HandleAppendEntries(n, m) => TypeInv'
<1>0. TypeOK /\ NextIndexPositive /\ requests \in SUBSET Requests /\ m \in Requests
  BY DEF TypeInv, TypeOK, Requests
<1>1. m.term \in Nat /\ m.src \in Nodes /\ m.live \in BOOLEAN
  BY <1>0 DEF Requests, VoteRequest, AppendRequest
<1>2. currentTerm[n] \in Nat /\ votedFor[n] \in Nodes \cup {Nil}
  BY <1>0 DEF TypeOK
<1>3. ASSUME HandleRequestVote(n, m) PROVE TypeInv'
  <2> DEFINE newer == m.term > currentTerm[n]
             vote  == IF newer THEN Nil ELSE votedFor[n]
             grant == m.term >= currentTerm[n] /\ CanVote(n, m, vote)
             term  == IF newer THEN m.term ELSE currentTerm[n]
             reply == [type |-> "RequestVote", src |-> n, dst |-> m.src,
                       term |-> term, granted |-> grant]
  <2>1. term \in Nat /\ vote \in Nodes \cup {Nil} /\ grant \in BOOLEAN
    BY <1>1, <1>2 DEF CanVote
  <2>2. reply \in VoteReply
    BY <1>1, <2>1 DEF VoteReply
  <2>3. /\ currentTerm' = [currentTerm EXCEPT ![n] = term]
        /\ votedFor' = [votedFor EXCEPT ![n] = IF grant THEN m.src ELSE vote]
        /\ state' = [state EXCEPT ![n] = IF newer THEN "FOLLOWER" ELSE @]
        /\ leaderId' = [leaderId EXCEPT ![n] = IF newer THEN Nil ELSE @]
        /\ votes' = IF grant
                    THEN votes \cup {[voter |-> n, term |-> term, cand |-> m.src]}
                    ELSE votes
        /\ Answer(m, reply)
        /\ UNCHANGED <<log, votesReceived, leaderVars, commitVars, snapVars,
                       threadVars, call, boundVars, elected>>
    BY <1>3 DEF HandleRequestVote
  <2> HIDE DEF newer, vote, grant, term, reply
  <2>4. /\ currentTerm' \in [Nodes -> Nat]
        /\ votedFor' \in [Nodes -> Nodes \cup {Nil}]
        /\ state' \in [Nodes -> {"FOLLOWER", "CANDIDATE", "LEADER"}]
        /\ leaderId' \in [Nodes -> Nodes \cup {Nil}]
        /\ \A p \in Nodes : state'[p] = "LEADER" => state[p] = "LEADER"
    BY <1>0, <1>1, <2>1, <2>3 DEF TypeOK
  <2>5. requests' \in SUBSET Requests /\ replies' \in SUBSET (VoteReply \cup AppendReply)
    BY <1>0, <2>2, <2>3 DEF TypeOK, Answer
  <2>6. votes' \in SUBSET [voter : Nodes, term : Nat, cand : Nodes]
    <3> DEFINE v == [voter |-> n, term |-> term, cand |-> m.src]
    <3>1. v \in [voter : Nodes, term : Nat, cand : Nodes]
      BY <1>1, <2>1
    <3>2. votes \in SUBSET [voter : Nodes, term : Nat, cand : Nodes]
      BY <1>0 DEF TypeOK
    <3>3. votes' = IF grant THEN votes \cup {v} ELSE votes
      BY <2>3
    <3> HIDE DEF v
    <3> QED BY <3>1, <3>2, <3>3
  <2>7. TypeOK'
    BY <1>0, <2>3, <2>4, <2>5, <2>6
       DEF TypeOK, Requests, leaderVars, commitVars, snapVars, threadVars, boundVars
  <2>8. NextIndexPositive'
    BY <1>0, <2>3, <2>4 DEF NextIndexPositive, LockFree, leaderVars, threadVars
  <2> QED BY <2>7, <2>8 DEF TypeInv
<1>4. ASSUME HandleAppendEntries(n, m) PROVE TypeInv'
  <2> DEFINE reply(t, ok, match) ==
                [type |-> "AppendEntries", src |-> n, dst |-> m.src,
                 term |-> t, success |-> ok, match |-> match]
  <2>1. /\ m.prevIndex \in Nat /\ m.entries \in Seq(Entry) /\ m.commit \in Nat
    BY <1>0, <1>4 DEF HandleAppendEntries, Requests, VoteRequest, AppendRequest
  <2>2. log[n] \in Seq(Entry) /\ snapMeta[n].index \in Nat
    BY <1>0 DEF TypeOK
  <2>3. \A t \in Nat, ok \in BOOLEAN, match \in Nat : reply(t, ok, match) \in AppendReply
    BY <1>1 DEF AppendReply
  <2>4. ASSUME NEW t \in Nat, NEW ok \in BOOLEAN, NEW match \in Nat,
               Answer(m, reply(t, ok, match))
        PROVE  requests' \in SUBSET Requests
               /\ replies' \in SUBSET (VoteReply \cup AppendReply)
    <3>1. reply(t, ok, match) \in AppendReply
      BY <2>3
    <3> HIDE DEF reply
    <3> QED BY <1>0, <2>4, <3>1 DEF TypeOK, Answer
  <2>5. UNCHANGED <<votesReceived, leaderVars, snapVars, threadVars, call, boundVars,
                    historyVars>>
    BY <1>4 DEF HandleAppendEntries
  <2>6. CASE m.term < currentTerm[n]
    <3>1. Answer(m, reply(currentTerm[n], FALSE, 0))
          /\ UNCHANGED <<diskVars, state, leaderId, commitVars>>
      BY <1>4, <2>6 DEF HandleAppendEntries
    <3>2. requests' \in SUBSET Requests /\ replies' \in SUBSET (VoteReply \cup AppendReply)
      BY <1>2, <2>4, <3>1
    <3>3. TypeOK'
      BY <1>0, <2>5, <3>1, <3>2
         DEF TypeOK, Requests, diskVars, leaderVars, commitVars, snapVars, threadVars,
             boundVars, historyVars
    <3>4. NextIndexPositive'
      BY <1>0, <2>5, <3>1 DEF NextIndexPositive, LockFree, leaderVars, threadVars
    <3> QED BY <3>3, <3>4 DEF TypeInv
  <2>7. CASE ~ (m.term < currentTerm[n])
    <3>1. /\ currentTerm' = [currentTerm EXCEPT ![n] = m.term]
          /\ votedFor' = [votedFor EXCEPT
                        ![n] = IF m.term > currentTerm[n] THEN Nil ELSE @]
          /\ leaderId' = [leaderId EXCEPT ![n] = m.src]
          /\ state' = [state EXCEPT ![n] = "FOLLOWER"]
      BY <1>4, <2>7 DEF HandleAppendEntries
    <3>2. /\ currentTerm' \in [Nodes -> Nat]
          /\ votedFor' \in [Nodes -> Nodes \cup {Nil}]
          /\ state' \in [Nodes -> {"FOLLOWER", "CANDIDATE", "LEADER"}]
          /\ leaderId' \in [Nodes -> Nodes \cup {Nil}]
          /\ \A p \in Nodes : state'[p] = "LEADER" => state[p] = "LEADER"
      BY <1>0, <1>1, <3>1 DEF TypeOK
    <3>3. /\ log' \in [Nodes -> Seq(Entry)]
          /\ commitIndex' \in [Nodes -> Nat]
          /\ lastApplied' \in [Nodes -> Nat]
          /\ applied' \in [Nodes -> Seq(Entry)]
          /\ requests' \in SUBSET Requests
          /\ replies' \in SUBSET (VoteReply \cup AppendReply)
      <4>1. log \in [Nodes -> Seq(Entry)] /\ commitIndex \in [Nodes -> Nat]
            /\ lastApplied \in [Nodes -> Nat] /\ applied \in [Nodes -> Seq(Entry)]
        BY <1>0 DEF TypeOK
      <4>2. CASE \E match \in Nat : /\ Answer(m, reply(m.term, FALSE, match))
                                    /\ UNCHANGED <<log, commitVars>>
        BY <1>1, <2>4, <4>1, <4>2 DEF commitVars
      <4>3. CASE /\ log' = [log EXCEPT ![n] = UpTo(@, m.prevIndex - 1)]
                 /\ Answer(m, reply(m.term, FALSE,
                                    LastIndex(UpTo(log[n], m.prevIndex - 1))))
                 /\ UNCHANGED commitVars
        <5>1. UpTo(log[n], m.prevIndex - 1) \in Seq(Entry)
          <6>1. m.prevIndex - 1 \in Int
            BY <2>1
          <6> QED BY <2>2, <6>1, LogCuts
        <5>2. LastIndex(UpTo(log[n], m.prevIndex - 1)) \in Nat
          BY <5>1, LogReads
        <5>3. requests' \in SUBSET Requests
              /\ replies' \in SUBSET (VoteReply \cup AppendReply)
          BY <1>1, <2>4, <4>3, <5>2
        <5> QED BY <4>1, <4>3, <5>1, <5>3 DEF commitVars
      <4>4. ASSUME NEW l, l = AppendNew(log[n], m.entries),
                   log' = [log EXCEPT ![n] = l],
                   CommitTo(n, Smaller(m.commit, LastIndex(l)), l),
                   Answer(m, reply(m.term, TRUE, LastIndex(l)))
            PROVE  /\ log' \in [Nodes -> Seq(Entry)]
                   /\ commitIndex' \in [Nodes -> Nat]
                   /\ lastApplied' \in [Nodes -> Nat]
                   /\ applied' \in [Nodes -> Seq(Entry)]
                   /\ requests' \in SUBSET Requests
                   /\ replies' \in SUBSET (VoteReply \cup AppendReply)
        <5>1. LastIndex(log[n]) \in Int
          BY <2>2, LogReads
        <5>2. Above(m.entries, LastIndex(log[n])) \in Seq(Entry)
          BY <2>1, <5>1, LogCuts
        <5>3. l \in Seq(Entry)
          BY <2>2, <4>4, <5>2, ConcatProperties DEF AppendNew
        <5>4. LastIndex(l) \in Nat
          BY <5>3, LogReads
        <5>5. Smaller(m.commit, LastIndex(l)) \in Nat
          BY <2>1, <5>4 DEF Smaller
        <5>6. /\ commitIndex' \in [Nodes -> Nat]
              /\ lastApplied' \in [Nodes -> Nat]
              /\ applied' \in [Nodes -> Seq(Entry)]
          BY <1>0, <4>4, <5>3, <5>5, CommitToType
        <5>7. requests' \in SUBSET Requests
              /\ replies' \in SUBSET (VoteReply \cup AppendReply)
          BY <1>1, <2>4, <4>4, <5>4
        <5> QED BY <4>1, <4>4, <5>3, <5>6, <5>7
      <4>5. LastIndex(log[n]) \in Nat
        BY <2>2, LogReads
      <4> HIDE DEF reply
      <4> QED BY <1>4, <2>2, <2>7, <4>2, <4>3, <4>4, <4>5
              DEF HandleAppendEntries, reply
    <3>4. TypeOK'
      BY <1>0, <2>5, <3>2, <3>3
         DEF TypeOK, Requests, leaderVars, snapVars, threadVars, boundVars, historyVars
    <3>5. NextIndexPositive'
      BY <1>0, <2>5, <3>2 DEF NextIndexPositive, LockFree, leaderVars, threadVars
    <3> QED BY <3>4, <3>5 DEF TypeInv
  <2> QED BY <2>6, <2>7
<1> QED BY <1>3, <1>4
\* Coming back from BecomeLeader keeps the type of ballot.
LEMMA ReturnToBallotType ==
    ASSUME NEW n \in Nodes, ballot \in [Nodes -> BallotType], ReturnToBallot(n)
    PROVE  ballot' \in [Nodes -> BallotType]
<1> DEFINE ph == IF ballot[n].phase = "leading" /\ round[n].todo = {} THEN "asking"
                 ELSE ballot[n].phase
<1>1. ph \in {"idle", "begin", "asking", "leading"} /\ ballot[n] \in BallotType
  BY DEF BallotType
<1>2. ballot' = [ballot EXCEPT ![n] = [ballot[n] EXCEPT !.phase = ph]]
  BY DEF ReturnToBallot
<1> HIDE DEF ph
<1>3. [ballot[n] EXCEPT !.phase = ph] \in BallotType
  BY <1>1 DEF BallotType
<1> QED BY <1>2, <1>3

\* The rounds of SendHeartbeats (HeartbeatTimeout, AppendEntriesTimeout,
\* HandleAppendEntriesResponse).
LEMMA TypeRounds ==
    ASSUME TypeInv, NEW n \in Nodes
    PROVE  /\ HeartbeatTimeout(n) => TypeInv'
           /\ AppendEntriesTimeout(n) => TypeInv'
           /\ \A r \in replies : HandleAppendEntriesResponse(n, r) => TypeInv'
<1>0. /\ TypeOK /\ NextIndexPositive /\ requests \in SUBSET Requests
      /\ ballot \in [Nodes -> BallotType]
      /\ nextIndex \in [Nodes -> [Nodes -> Nat]]
      /\ \A p \in Nodes : p \notin round[p].todo
      /\ state[n] = "LEADER" \/ round[n].wait # Nil
            => \A p \in Peers(n) : nextIndex[n][p] >= 1
      /\ round[n].todo \in SUBSET Peers(n) /\ Peers(n) \in SUBSET Peers(n)
  BY DEF TypeInv, TypeOK, Requests, BallotType, NextIndexPositive, LockFree, Peers
<1>1. ASSUME HeartbeatTimeout(n) PROVE TypeInv'
  <2>1. UNCHANGED <<diskVars, electVars, leaderVars, commitVars, snapVars, ballot,
                    call, replies, restarts, failures, historyVars>>
        /\ heartbeats' = heartbeats + 1 /\ state[n] = "LEADER"
        /\ ContinueRound(n, Peers(n), requests)
    BY <1>1 DEF HeartbeatTimeout
  <2>2. /\ currentTerm' \in [Nodes -> Nat] /\ commitIndex' \in [Nodes -> Nat]
        /\ nextIndex' \in [Nodes -> [Nodes -> Nat]]
        /\ \A p \in Peers(n) : nextIndex'[n][p] >= 1
    BY <1>0, <2>1 DEF TypeOK, diskVars, leaderVars, commitVars
  <2>3. /\ requests' \in SUBSET Requests
        /\ round' \in [Nodes -> RoundType]
        /\ \A p \in Nodes : p \notin round'[p].todo
        /\ \A p \in Nodes : p # n => round'[p] = round[p]
    BY <1>0, <2>1, <2>2, ContinueRoundType
  <2>6. heartbeats' \in Nat
    BY <1>0, <2>1 DEF TypeOK
  <2>4. TypeOK'
    BY <1>0, <2>1, <2>3, <2>6
       DEF TypeOK, Requests, RoundType, diskVars, electVars, leaderVars, commitVars,
           snapVars, historyVars
  <2>5. NextIndexPositive'
    BY <1>0, <2>1, <2>2, <2>3
       DEF NextIndexPositive, LockFree, electVars, leaderVars
  <2> QED BY <2>4, <2>5 DEF TypeInv
<1>2. ASSUME AppendEntriesTimeout(n) PROVE TypeInv'
  <2>1. /\ UNCHANGED <<diskVars, electVars, leaderVars, commitVars, snapVars, call,
                       restarts, heartbeats, historyVars>>
        /\ RpcFails /\ ReturnToBallot(n) /\ round[n].wait # Nil
        /\ replies' = RepliesWithout(n, round[n].wait, "AppendEntries")
    BY <1>2 DEF AppendEntriesTimeout
  <2>2. PICK sent \in Abandoned(n, round[n].wait, "AppendEntries") :
            ContinueRound(n, round[n].todo, sent)
    BY <1>2 DEF AppendEntriesTimeout
  <2>3. sent \in SUBSET Requests
    BY <1>0, AbandonedType
  <2>4. /\ currentTerm' \in [Nodes -> Nat] /\ commitIndex' \in [Nodes -> Nat]
        /\ nextIndex' \in [Nodes -> [Nodes -> Nat]]
        /\ \A p \in Peers(n) : nextIndex'[n][p] >= 1
    BY <1>0, <2>1 DEF TypeOK, diskVars, leaderVars, commitVars
  <2>5. /\ requests' \in SUBSET Requests
        /\ round' \in [Nodes -> RoundType]
        /\ \A p \in Nodes : p \notin round'[p].todo
        /\ \A p \in Nodes : p # n => round'[p] = round[p]
    BY <1>0, <2>2, <2>3, <2>4, ContinueRoundType
  <2>6. ballot' \in [Nodes -> BallotType]
    BY <1>0, <2>1, ReturnToBallotType
  <2>7. replies' \in SUBSET (VoteReply \cup AppendReply) /\ failures' \in Nat
    BY <1>0, <2>1 DEF TypeOK, RepliesWithout, RpcFails
  <2>8. TypeOK'
    BY <1>0, <2>1, <2>5, <2>6, <2>7
       DEF TypeOK, Requests, RoundType, BallotType, diskVars, electVars, leaderVars,
           commitVars, snapVars, historyVars
  <2>9. NextIndexPositive'
    BY <1>0, <2>1, <2>4, <2>5
       DEF NextIndexPositive, LockFree, electVars, leaderVars
  <2> QED BY <2>8, <2>9 DEF TypeInv
<1>3. ASSUME NEW r \in replies, HandleAppendEntriesResponse(n, r) PROVE TypeInv'
  <2>1. /\ r \in AppendReply /\ r.src = round[n].wait
        /\ replies' = replies \ {r} /\ ReturnToBallot(n)
        /\ ContinueRound(n, round[n].todo, requests)
        /\ UNCHANGED <<log, votesReceived, snapVars, call, boundVars, historyVars>>
    BY <1>0, <1>3 DEF HandleAppendEntriesResponse, TypeOK, VoteReply, AppendReply
  <2>2. r.src \in Nodes /\ r.term \in Nat /\ r.match \in Nat
    BY <2>1 DEF AppendReply
  <2>3. round[n].wait # Nil /\ \A p \in Peers(n) : nextIndex[n][p] >= 1
    BY <1>0, <2>1, <2>2, NodesAssumption
  <2>4. matchIndex \in [Nodes -> [Nodes -> Nat]] /\ snapMeta[n].index \in Nat
    BY <1>0 DEF TypeOK
  <2>5. /\ currentTerm' \in [Nodes -> Nat]
        /\ votedFor' \in [Nodes -> Nodes \cup {Nil}]
        /\ state' \in [Nodes -> {"FOLLOWER", "CANDIDATE", "LEADER"}]
        /\ leaderId' \in [Nodes -> Nodes \cup {Nil}]
        /\ \A p \in Nodes : state'[p] = "LEADER" => state[p] = "LEADER"
    <3>1. CASE StepDown(n, r.term)
      BY <1>0, <2>2, <3>1, StepDownType
    <3>2. CASE UNCHANGED <<currentTerm, votedFor, state, leaderId>>
      BY <1>0, <3>2 DEF TypeOK
    <3> QED BY <1>3, <3>1, <3>2 DEF HandleAppendEntriesResponse
  <2>6. /\ commitIndex' \in [Nodes -> Nat]
        /\ lastApplied' \in [Nodes -> Nat]
        /\ applied' \in [Nodes -> Seq(Entry)]
    <3>1. CASE UNCHANGED commitVars
      BY <1>0, <3>1 DEF TypeOK, commitVars
    <3>2. CASE AdvanceCommitIndex(n, [matchIndex[n] EXCEPT ![r.src] = r.match])
      BY <1>0, <3>2, AdvanceType
    <3> QED BY <1>3, <3>1, <3>2 DEF HandleAppendEntriesResponse
  <2>7. /\ nextIndex' \in [Nodes -> [Nodes -> Nat]]
        /\ matchIndex' \in [Nodes -> [Nodes -> Nat]]
        /\ \A p \in Peers(n) : nextIndex'[n][p] >= 1
        /\ \A p \in Nodes : p # n => nextIndex'[p] = nextIndex[p]
    <3>1. CASE UNCHANGED leaderVars
      BY <1>0, <2>3, <2>4, <3>1 DEF leaderVars
    <3>2. CASE /\ matchIndex' = [matchIndex EXCEPT ![n][r.src] = r.match]
               /\ nextIndex' = [nextIndex EXCEPT ![n][r.src] = r.match + 1]
      BY <1>0, <2>2, <2>3, <2>4, <3>2 DEF Peers
    <3>3. CASE /\ nextIndex' = [nextIndex EXCEPT
                     ![n][r.src] = IF r.match < @ THEN BackOff(n, r.match) ELSE @]
               /\ UNCHANGED matchIndex
      <4>1. BackOff(n, r.match) \in Nat /\ BackOff(n, r.match) >= 1
        BY <2>2, <2>4 DEF BackOff, Larger
      <4> QED BY <1>0, <2>2, <2>3, <2>4, <3>3, <4>1 DEF Peers
    <3> QED BY <1>3, <3>1, <3>2, <3>3 DEF HandleAppendEntriesResponse
  <2>8. /\ requests' \in SUBSET Requests
        /\ round' \in [Nodes -> RoundType]
        /\ \A p \in Nodes : p \notin round'[p].todo
        /\ \A p \in Nodes : p # n => round'[p] = round[p]
    BY <1>0, <2>1, <2>5, <2>6, <2>7, ContinueRoundType
  <2>9. ballot' \in [Nodes -> BallotType]
    BY <1>0, <2>1, ReturnToBallotType
  <2>10. replies' \in SUBSET (VoteReply \cup AppendReply)
    BY <1>0, <2>1 DEF TypeOK
  <2>11. TypeOK'
    BY <1>0, <2>1, <2>5, <2>6, <2>7, <2>8, <2>9, <2>10
       DEF TypeOK, Requests, RoundType, BallotType, snapVars, boundVars, historyVars
  <2>12. NextIndexPositive'
    BY <1>0, <2>5, <2>7, <2>8 DEF NextIndexPositive, LockFree
  <2> QED BY <2>11, <2>12 DEF TypeInv
<1> QED BY <1>1, <1>2, <1>3
\* Propose and its waiting loop.
LEMMA TypePropose ==
    ASSUME TypeInv, NEW n \in Nodes, NEW v \in Commands
    PROVE  /\ Propose(n, v) => TypeInv'
           /\ ProposeAdvance(n, v) => TypeInv'
           /\ ProposeSend(n, v) => TypeInv'
           /\ ProposeCheck(n, v) => TypeInv'
           /\ ProposeTimeout(n, v) => TypeInv'
<1> DEFINE pcs == {"new", "appended", "advanced", "sent", "asleep", "committed", "failed"}
           CallType == [pc : pcs, node : Nodes \cup {Nil}, index : Nat]
<1>0. /\ TypeOK /\ NextIndexPositive /\ call \in [Commands -> CallType]
      /\ \A c \in pcs : [call EXCEPT ![v].pc = c] \in [Commands -> CallType]
  <2>1. TypeOK /\ NextIndexPositive /\ call \in [Commands -> CallType]
    BY DEF TypeInv, TypeOK
  <2>2. ASSUME NEW c \in pcs PROVE [call EXCEPT ![v].pc = c] \in [Commands -> CallType]
    <3>1. [call[v] EXCEPT !.pc = c] \in CallType
      BY <2>1
    <3> HIDE DEF pcs, CallType
    <3> QED BY <2>1, <3>1
  <2> QED BY <2>1, <2>2
<1>1. ASSUME Propose(n, v) PROVE TypeInv'
  <2> DEFINE entry == [term |-> currentTerm[n], index |-> LastIndex(log[n]) + 1, cmd |-> v]
  <2>1. /\ currentTerm[n] \in Nat /\ log[n] \in Seq(Entry)
        /\ log \in [Nodes -> Seq(Entry)]
        /\ nextIndex \in [Nodes -> [Nodes -> Nat]]
        /\ matchIndex \in [Nodes -> [Nodes -> Nat]]
    BY <1>0 DEF TypeOK
  <2>2. LastIndex(log[n]) + 1 \in Nat
    <3>1. LastIndex(log[n]) \in Nat
      BY <2>1, LogReads
    <3> QED BY <3>1
  <2>3. entry \in Entry /\ entry.index \in Nat /\ entry.index + 1 \in Nat
    BY <2>1, <2>2 DEF Entry
  <2>4. /\ log' = [log EXCEPT ![n] = Append(log[n], entry)]
        /\ nextIndex' = [nextIndex EXCEPT ![n][n] = entry.index + 1]
        /\ matchIndex' = [matchIndex EXCEPT ![n][n] = entry.index]
        /\ call' = [call EXCEPT ![v] = [pc |-> "appended", node |-> n, index |-> entry.index]]
        /\ UNCHANGED <<currentTerm, votedFor, electVars, commitVars, snapVars,
                       threadVars, netVars, boundVars, historyVars>>
    BY <1>1 DEF Propose
  <2> HIDE DEF entry
  <2>5. log' \in [Nodes -> Seq(Entry)]
    BY <2>1, <2>3, <2>4, AppendProperties
  <2>6. nextIndex' \in [Nodes -> [Nodes -> Nat]] /\ matchIndex' \in [Nodes -> [Nodes -> Nat]]
        /\ \A p, q \in Nodes : p # q => nextIndex'[p][q] = nextIndex[p][q]
    BY <2>1, <2>3, <2>4
  <2>7. call' \in [Commands -> CallType]
    BY <1>0, <2>3, <2>4
  <2>8. TypeOK'
    BY <1>0, <2>4, <2>5, <2>6, <2>7
       DEF TypeOK, electVars, commitVars, snapVars, threadVars, netVars, boundVars,
           historyVars
  <2>9. NextIndexPositive'
    BY <1>0, <2>4, <2>6 DEF NextIndexPositive, LockFree, Peers, electVars, threadVars
  <2> QED BY <2>8, <2>9 DEF TypeInv
<1>2. ASSUME ProposeAdvance(n, v) PROVE TypeInv'
  <2>1. /\ AdvanceCommitIndex(n, matchIndex[n])
        /\ call' = [call EXCEPT ![v].pc = "advanced"]
        /\ UNCHANGED <<diskVars, electVars, leaderVars, snapVars, threadVars, netVars,
                       boundVars, historyVars>>
    BY <1>2 DEF ProposeAdvance
  <2>2. /\ commitIndex' \in [Nodes -> Nat]
        /\ lastApplied' \in [Nodes -> Nat]
        /\ applied' \in [Nodes -> Seq(Entry)]
    BY <1>0, <2>1, AdvanceType
  <2>3. call' \in [Commands -> CallType]
    BY <1>0, <2>1
  <2>4. TypeOK'
    BY <1>0, <2>1, <2>2, <2>3
       DEF TypeOK, diskVars, electVars, leaderVars, snapVars, threadVars, netVars,
           boundVars, historyVars
  <2>5. NextIndexPositive'
    BY <1>0, <2>1 DEF NextIndexPositive, LockFree, electVars, leaderVars, threadVars
  <2> QED BY <2>4, <2>5 DEF TypeInv
<1>3. ASSUME ProposeSend(n, v) PROVE TypeInv'
  <2>1. /\ call' = [call EXCEPT ![v].pc = "sent"]
        /\ UNCHANGED <<diskVars, electVars, leaderVars, commitVars, snapVars, ballot,
                       replies, boundVars, historyVars>>
    BY <1>3 DEF ProposeSend
  <2>2. call' \in [Commands -> CallType]
    BY <1>0, <2>1
  <2>3. CASE UNCHANGED <<round, requests>>
    <3>1. TypeOK'
      BY <1>0, <2>1, <2>2, <2>3
         DEF TypeOK, diskVars, electVars, leaderVars, commitVars, snapVars, boundVars,
             historyVars
    <3>2. NextIndexPositive'
      BY <1>0, <2>1, <2>3 DEF NextIndexPositive, LockFree, electVars, leaderVars
    <3> QED BY <3>1, <3>2 DEF TypeInv
  <2>4. CASE state[n] = "LEADER" /\ ContinueRound(n, Peers(n), requests)
    <3>1. /\ currentTerm' \in [Nodes -> Nat] /\ commitIndex' \in [Nodes -> Nat]
          /\ nextIndex' \in [Nodes -> [Nodes -> Nat]]
          /\ \A p \in Peers(n) : nextIndex'[n][p] >= 1
          /\ \A p \in Nodes : p \notin round[p].todo
          /\ requests \in SUBSET Requests /\ Peers(n) \in SUBSET Peers(n)
      BY <1>0, <2>1, <2>4
         DEF TypeOK, NextIndexPositive, Requests, diskVars, leaderVars, commitVars
    <3>2. /\ requests' \in SUBSET Requests
          /\ round' \in [Nodes -> RoundType]
          /\ \A p \in Nodes : p \notin round'[p].todo
          /\ \A p \in Nodes : p # n => round'[p] = round[p]
      BY <1>0, <2>4, <3>1, ContinueRoundType
    <3>3. TypeOK'
      BY <1>0, <2>1, <2>2, <3>2
         DEF TypeOK, Requests, RoundType, diskVars, electVars, leaderVars, commitVars,
             snapVars, boundVars, historyVars
    <3>4. NextIndexPositive'
      BY <1>0, <2>1, <3>1, <3>2 DEF NextIndexPositive, LockFree, electVars, leaderVars
    <3> QED BY <3>3, <3>4 DEF TypeInv
  <2> QED BY <1>3, <2>3, <2>4 DEF ProposeSend
<1>4. ASSUME ProposeCheck(n, v) \/ ProposeTimeout(n, v) PROVE TypeInv'
  <2>1. /\ UNCHANGED <<diskVars, electVars, leaderVars, commitVars, snapVars, threadVars,
                       netVars, boundVars, historyVars>>
        /\ \E c \in pcs : call' = [call EXCEPT ![v].pc = c]
    BY <1>4 DEF ProposeCheck, ProposeTimeout
  <2>2. call' \in [Commands -> CallType]
    BY <1>0, <2>1
  <2>3. TypeOK'
    BY <1>0, <2>1, <2>2
       DEF TypeOK, diskVars, electVars, leaderVars, commitVars, snapVars, threadVars,
           netVars, boundVars, historyVars
  <2>4. NextIndexPositive'
    BY <1>0, <2>1 DEF NextIndexPositive, LockFree, electVars, leaderVars, threadVars
  <2> QED BY <2>3, <2>4 DEF TypeInv
<1> QED BY <1>1, <1>2, <1>3, <1>4

\* The four steps of TakeSnapshot.
LEMMA TypeSnapshots ==
    ASSUME TypeInv, NEW n \in Nodes
    PROVE  /\ SnapshotDecide(n) => TypeInv'
           /\ SnapshotCapture(n) => TypeInv'
           /\ SnapshotPublish(n) => TypeInv'
           /\ SnapshotTrim(n) => TypeInv'
<1> DEFINE TakingType == [pc : {"idle", "decided", "captured", "published"}, snap : Snapshot]
<1>0. /\ TypeOK /\ NextIndexPositive /\ taking \in [Nodes -> TakingType]
      /\ taking[n].snap \in Snapshot
      /\ taking[n].snap.index \in Nat /\ taking[n].snap.term \in Nat
      /\ log \in [Nodes -> Seq(Entry)] /\ log[n] \in Seq(Entry)
      /\ snapFile \in [Nodes -> Snapshot]
      /\ snapMeta \in [Nodes -> [index : Nat, term : Nat]]
  BY DEF TypeInv, TypeOK, Snapshot
<1>4. IdleTaking \in TakingType
  BY EmptySeq DEF IdleTaking, NoSnapshot, Snapshot
<1>1. ASSUME SnapshotDecide(n) \/ SnapshotCapture(n) PROVE TypeInv'
  <2>1. UNCHANGED <<diskVars, electVars, leaderVars, commitVars, snapMeta, snapFile,
                    threadVars, call, netVars, boundVars, historyVars>>
    BY <1>1 DEF SnapshotDecide, SnapshotCapture
  <2>2. taking' \in [Nodes -> TakingType] /\ snapshots' \in Nat
    <3> DEFINE snap == [index |-> lastApplied[n],
                        term |-> IF HasEntry(log[n], lastApplied[n])
                                 THEN TermAt(log[n], lastApplied[n]) ELSE currentTerm[n],
                        data |-> applied[n]]
    <3>1. snapshots \in Nat /\ snap \in Snapshot
      BY <1>0, LogReads DEF TypeOK, Snapshot
    <3>2. CASE taking' = [taking EXCEPT ![n].pc = "decided"] /\ UNCHANGED snapshots
      BY <1>0, <3>1, <3>2
    <3>3. CASE taking' = [taking EXCEPT ![n] = [pc |-> "captured", snap |-> snap]]
               /\ snapshots' = snapshots + 1
      <4> HIDE DEF snap
      <4> QED BY <1>0, <3>1, <3>3
    <3>4. CASE taking' = [taking EXCEPT ![n] = IdleTaking] /\ UNCHANGED snapshots
      BY <1>0, <1>4, <3>1, <3>4
    <3> QED BY <1>1, <3>2, <3>3, <3>4 DEF SnapshotDecide, SnapshotCapture
  <2>3. TypeOK'
    BY <1>0, <2>1, <2>2
       DEF TypeOK, diskVars, electVars, leaderVars, commitVars, threadVars, netVars,
           boundVars, historyVars
  <2>4. NextIndexPositive'
    BY <1>0, <2>1 DEF NextIndexPositive, LockFree, electVars, leaderVars, threadVars
  <2> QED BY <2>3, <2>4 DEF TypeInv
<1>2. ASSUME SnapshotPublish(n) PROVE TypeInv'
  <2>1. /\ snapFile' = [snapFile EXCEPT ![n] = taking[n].snap]
        /\ taking' = [taking EXCEPT ![n].pc = "published"]
        /\ UNCHANGED <<diskVars, electVars, leaderVars, commitVars, snapMeta, snapshots,
                       threadVars, call, netVars, boundVars, historyVars>>
    BY <1>2 DEF SnapshotPublish
  <2>2. taking' \in [Nodes -> TakingType] /\ snapFile' \in [Nodes -> Snapshot]
    BY <1>0, <2>1
  <2>3. TypeOK'
    BY <1>0, <2>1, <2>2
       DEF TypeOK, diskVars, electVars, leaderVars, commitVars, threadVars, netVars,
           boundVars, historyVars
  <2>4. NextIndexPositive'
    BY <1>0, <2>1 DEF NextIndexPositive, LockFree, electVars, leaderVars, threadVars
  <2> QED BY <2>3, <2>4 DEF TypeInv
<1>3. ASSUME SnapshotTrim(n) PROVE TypeInv'
  <2>1. /\ snapMeta' = [snapMeta EXCEPT
              ![n] = [index |-> taking[n].snap.index, term |-> taking[n].snap.term]]
        /\ log' = [log EXCEPT ![n] = Above(log[n], taking[n].snap.index)]
        /\ taking' = [taking EXCEPT ![n] = IdleTaking]
        /\ UNCHANGED <<currentTerm, votedFor, electVars, leaderVars, commitVars, snapFile,
                       snapshots, threadVars, call, netVars, boundVars, historyVars>>
    BY <1>3 DEF SnapshotTrim
  <2>2. log' \in [Nodes -> Seq(Entry)]
    <3>1. taking[n].snap.index \in Int
      BY <1>0
    <3>2. Above(log[n], taking[n].snap.index) \in Seq(Entry)
      BY <1>0, <3>1, LogCuts
    <3> QED BY <1>0, <2>1, <3>2
  <2>4. taking' \in [Nodes -> TakingType] /\ snapMeta' \in [Nodes -> [index : Nat, term : Nat]]
    BY <1>0, <1>4, <2>1
  <2>5. TypeOK'
    BY <1>0, <2>1, <2>2, <2>4
       DEF TypeOK, electVars, leaderVars, commitVars, threadVars, netVars,
           boundVars, historyVars
  <2>6. NextIndexPositive'
    BY <1>0, <2>1 DEF NextIndexPositive, LockFree, electVars, leaderVars, threadVars
  <2> QED BY <2>5, <2>6 DEF TypeInv
<1> QED BY <1>1, <1>2, <1>3
\* A restart keeps the types (RestoreState, RestoreFromSnapshot).
LEMMA TypeRestart ==
    ASSUME TypeInv, NEW n \in Nodes, NEW t \in Nat, NEW vote \in Nodes \cup {Nil},
           NEW l \in Seq(Entry), StartFrom(n, t, vote, l)
    PROVE  TypeInv'
<1>0. TypeOK /\ NextIndexPositive /\ snapFile[n] \in Snapshot
  BY DEF TypeInv, TypeOK
<1>1. snapFile[n].index \in Nat /\ snapFile[n].term \in Nat /\ snapFile[n].data \in Seq(Entry)
  BY <1>0 DEF Snapshot
<1>2. RestoredCommit(n, l) \in Nat
  BY <1>1, LogReads DEF RestoredCommit, Larger
<1>3. /\ currentTerm' \in [Nodes -> Nat]
      /\ votedFor' \in [Nodes -> Nodes \cup {Nil}]
      /\ log' \in [Nodes -> Seq(Entry)]
      /\ state' \in [Nodes -> {"FOLLOWER", "CANDIDATE", "LEADER"}]
      /\ leaderId' \in [Nodes -> Nodes \cup {Nil}]
      /\ votesReceived' \in [Nodes -> Nat]
  BY <1>0 DEF TypeOK, StartFrom
<1>4. /\ commitIndex' \in [Nodes -> Nat]
      /\ lastApplied' \in [Nodes -> Nat]
      /\ applied' \in [Nodes -> Seq(Entry)]
      /\ snapMeta' \in [Nodes -> [index : Nat, term : Nat]]
  <2>1. RestoredSnapshot(n) \in [index : Nat, term : Nat]
    BY <1>1 DEF RestoredSnapshot
  <2> QED BY <1>0, <1>1, <1>2, <2>1 DEF TypeOK, StartFrom
<1>5. /\ nextIndex' \in [Nodes -> [Nodes -> Nat]]
      /\ matchIndex' \in [Nodes -> [Nodes -> Nat]]
  BY <1>0 DEF TypeOK, StartFrom
<1>6. ballot' \in [Nodes -> BallotType] /\ round' \in [Nodes -> RoundType]
  BY <1>0 DEF TypeOK, StartFrom, IdleBallot, IdleRound, BallotType, RoundType
<1>7. taking' \in [Nodes -> [pc : {"idle", "decided", "captured", "published"}, snap : Snapshot]]
  <2>1. IdleTaking \in [pc : {"idle", "decided", "captured", "published"}, snap : Snapshot]
    BY EmptySeq DEF IdleTaking, NoSnapshot, Snapshot
  <2> QED BY <1>0, <2>1 DEF TypeOK, StartFrom
<1>8. call' \in [Commands -> [pc : {"new", "appended", "advanced", "sent", "asleep",
                                   "committed", "failed"},
                             node : Nodes \cup {Nil}, index : Nat]]
  <2> DEFINE CallType == [pc : {"new", "appended", "advanced", "sent", "asleep",
                                "committed", "failed"},
                          node : Nodes \cup {Nil}, index : Nat]
  <2>1. call \in [Commands -> CallType]
    BY <1>0 DEF TypeOK
  <2>2. \A c \in CallType : [c EXCEPT !.pc = "failed"] \in CallType
    OBVIOUS
  <2>3. call' = [v \in Commands |->
                    IF call[v].node = n /\ call[v].pc # "committed"
                    THEN [call[v] EXCEPT !.pc = "failed"] ELSE call[v]]
    BY DEF StartFrom
  <2> HIDE DEF CallType
  <2>4. call' \in [Commands -> CallType]
    BY <2>1, <2>2, <2>3
  <2> QED BY <2>4 DEF CallType
<1>9. requests' \in SUBSET Requests /\ replies' \in SUBSET (VoteReply \cup AppendReply)
  <2>1. requests \in SUBSET Requests /\ replies \in SUBSET (VoteReply \cup AppendReply)
    BY <1>0 DEF TypeOK, Requests
  <2>2. \A m \in requests : [m EXCEPT !.live = FALSE] \in Requests
    BY <2>1, LateRequest
  <2>3. PICK late \in SUBSET {m \in requests : m.src = n /\ m.live} :
            requests' = {m \in requests :
                            m.dst # n /\ m \notin {k \in requests : k.src = n /\ k.live}}
                          \cup {[m EXCEPT !.live = FALSE] : m \in late}
    BY DEF StartFrom
  <2>4. requests' \in SUBSET Requests
    BY <2>1, <2>2, <2>3
  <2> QED BY <2>1, <2>4 DEF StartFrom
<1>12. /\ restarts' \in Nat /\ snapshots' \in Nat /\ failures' \in Nat /\ heartbeats' \in Nat
       /\ snapFile' \in [Nodes -> Snapshot]
       /\ votes' \in SUBSET [voter : Nodes, term : Nat, cand : Nodes]
       /\ elected' \in SUBSET [node : Nodes, term : Nat]
  <2>1. restarts' = restarts + 1
        /\ UNCHANGED <<snapFile, snapshots, failures, heartbeats, votes, elected>>
    BY DEF StartFrom
  <2>2. restarts \in Nat /\ snapshots \in Nat /\ failures \in Nat /\ heartbeats \in Nat
    BY <1>0 DEF TypeOK
  <2>3. /\ snapFile \in [Nodes -> Snapshot]
        /\ votes \in SUBSET [voter : Nodes, term : Nat, cand : Nodes]
        /\ elected \in SUBSET [node : Nodes, term : Nat]
    BY <1>0 DEF TypeOK
  <2>4. restarts' \in Nat
    BY <2>1, <2>2
  <2> QED BY <2>1, <2>2, <2>3, <2>4
<1>10. TypeOK'
  BY <1>3, <1>4, <1>5, <1>6, <1>7, <1>8, <1>9, <1>12
     DEF TypeOK, Requests, BallotType, RoundType
<1>11. NextIndexPositive'
  <2>1. round'[n] = IdleRound /\ state'[n] = "FOLLOWER"
    BY <1>0 DEF TypeOK, StartFrom
  <2>2. \A p \in Nodes : p # n => round'[p] = round[p] /\ state'[p] = state[p]
                                 /\ nextIndex'[p] = nextIndex[p]
    BY <1>0 DEF TypeOK, StartFrom
  <2> QED BY <1>0, <2>1, <2>2 DEF NextIndexPositive, LockFree, IdleRound
<1> QED BY <1>10, <1>11 DEF TypeInv

\* TypeInv is inductive.
LEMMA TypeStep == TypeInv /\ [Next]_vars => TypeInv'
<1> SUFFICES ASSUME TypeInv, [Next]_vars PROVE TypeInv'
  OBVIOUS
<1>1. CASE UNCHANGED vars
  <2>1. TypeOK'
    BY <1>1 DEF TypeInv, TypeOK, vars, diskVars, electVars, leaderVars, commitVars,
          snapVars, threadVars, netVars, boundVars, historyVars
  <2>2. NextIndexPositive'
    BY <1>1 DEF TypeInv, NextIndexPositive, LockFree, vars, electVars, leaderVars,
          threadVars
  <2> QED BY <2>1, <2>2 DEF TypeInv
<1>2. ASSUME NEW n \in Nodes, Restart(n) PROVE TypeInv'
  <2>1. currentTerm[n] \in Nat /\ votedFor[n] \in Nodes \cup {Nil} /\ log[n] \in Seq(Entry)
    BY DEF TypeInv, TypeOK
  <2> QED BY <1>2, <2>1, TypeRestart DEF Restart, RestoredVote
<1>3. CASE Next
  BY <1>2, <1>3, TypeElection, TypeVoteReply, TypeHandlers, TypeRounds, TypePropose,
     TypeSnapshots
     DEF Next
<1> QED BY <1>1, <1>3

\* Every reachable state of every cluster is well typed: no term, index or
\* counter leaves the naturals, and no AppendEntries is built from a
\* next_index_ of zero, which would wrap (SendHeartbeats).
THEOREM TypeCorrect == Spec => []TypeOK
<1>1. TypeInv => TypeOK
  BY DEF TypeInv
<1> QED BY <1>1, TypeInit, TypeStep, PTL DEF Spec

-----------------------------------------------------------------------------
(* What a step gives to the state machine.                                 *)

\* What CommitTo does at n, and that it does nothing elsewhere.
LEMMA CommitEffect ==
    ASSUME TypeOK, NEW n \in Nodes, NEW i, NEW l, CommitTo(n, i, l)
    PROVE  /\ \A p \in Nodes : p # n => /\ commitIndex'[p] = commitIndex[p]
                                        /\ lastApplied'[p] = lastApplied[p]
                                        /\ applied'[p] = applied[p]
           /\ \/ UNCHANGED commitVars
              \/ /\ i > commitIndex[n] /\ commitIndex'[n] = i
                 /\ lastApplied'[n] = Larger(lastApplied[n], i)
                 /\ applied'[n] = applied[n] \o Above(UpTo(l, i), lastApplied[n])
<1>1. CASE i > commitIndex[n]
  BY <1>1 DEF CommitTo, TypeOK
<1>2. CASE ~ (i > commitIndex[n])
  BY <1>2 DEF CommitTo, commitVars
<1> QED BY <1>1, <1>2

\* ApplyCommitted at n, with the log n has then.
Gives(n) == \E i \in Nat : i <= LastIndex(log'[n]) /\ CommitTo(n, i, log'[n])

\* The steps of n that are no part of TakeSnapshot and no restart.
HandlerStep(n) ==
    \/ BecomeCandidate(n) \/ StartElection(n) \/ RequestVoteTimeout(n) \/ ResumeElection(n)
    \/ \E r \in replies : HandleRequestVoteResponse(n, r)
    \/ FinishElection(n)
    \/ \E m \in requests : HandleRequestVote(n, m)
    \/ \E m \in requests : HandleAppendEntries(n, m)
    \/ HeartbeatTimeout(n) \/ AppendEntriesTimeout(n)
    \/ \E r \in replies : HandleAppendEntriesResponse(n, r)
    \/ \E v \in Commands : \/ Propose(n, v) \/ ProposeAdvance(n, v) \/ ProposeSend(n, v)
                           \/ ProposeCheck(n, v) \/ ProposeTimeout(n, v)

LEMMA StepCases ==
    Next => \E n \in Nodes : \/ HandlerStep(n) \/ Restart(n)
                             \/ SnapshotDecide(n) \/ SnapshotCapture(n)
                             \/ SnapshotPublish(n) \/ SnapshotTrim(n)
  BY DEF Next, HandlerStep

LEMMA AdvanceGives ==
    ASSUME TypeOK, NEW n \in Nodes, NEW match, log' = log, AdvanceCommitIndex(n, match)
    PROVE  UNCHANGED commitVars \/ Gives(n)
<1>1. log[n] \in Seq(Entry) /\ commitIndex[n] \in Nat
  BY DEF TypeOK
<1>2. LastIndex(log[n]) \in Nat
  BY <1>1, LogReads
<1>3. \A i \in Committable(n, match) : i \in Nat /\ i <= LastIndex(log'[n])
  BY <1>1, <1>2 DEF Committable
<1> QED BY <1>3 DEF AdvanceCommitIndex, Gives

\* A handler leaves the snapshots alone, and gives the state machine nothing or
\* what ApplyCommitted gives it.
LEMMA HandlerGives ==
    ASSUME TypeOK, TypeOK', NEW n \in Nodes, HandlerStep(n)
    PROVE  UNCHANGED snapVars /\ (UNCHANGED commitVars \/ Gives(n))
<1>1. CASE \/ BecomeCandidate(n) \/ FinishElection(n)
           \/ StartElection(n) \/ RequestVoteTimeout(n) \/ ResumeElection(n)
           \/ HeartbeatTimeout(n) \/ AppendEntriesTimeout(n)
  BY <1>1 DEF BecomeCandidate, FinishElection, StartElection, RequestVoteTimeout, ResumeElection,
       HeartbeatTimeout, AppendEntriesTimeout
<1>2. ASSUME NEW r \in replies, HandleRequestVoteResponse(n, r)
      PROVE  UNCHANGED snapVars /\ UNCHANGED commitVars
  BY <1>2 DEF HandleRequestVoteResponse
<1>3. ASSUME NEW m \in requests, HandleRequestVote(n, m)
      PROVE  UNCHANGED snapVars /\ UNCHANGED commitVars
  BY <1>3 DEF HandleRequestVote
<1>4. ASSUME NEW v \in Commands,
             Propose(n, v) \/ ProposeSend(n, v) \/ ProposeCheck(n, v) \/ ProposeTimeout(n, v)
      PROVE  UNCHANGED snapVars /\ UNCHANGED commitVars
  BY <1>4 DEF Propose, ProposeSend, ProposeCheck, ProposeTimeout
<1>5. ASSUME NEW m \in requests, HandleAppendEntries(n, m)
      PROVE  UNCHANGED snapVars /\ (UNCHANGED commitVars \/ Gives(n))
  <2>1. UNCHANGED snapVars
    BY <1>5 DEF HandleAppendEntries
  <2>2. \/ UNCHANGED commitVars
        \/ /\ log' = [log EXCEPT ![n] = AppendNew(log[n], m.entries)]
           /\ CommitTo(n, Smaller(m.commit, LastIndex(AppendNew(log[n], m.entries))),
                       AppendNew(log[n], m.entries))
    BY <1>5 DEF HandleAppendEntries
  <2>3. ASSUME log' = [log EXCEPT ![n] = AppendNew(log[n], m.entries)],
               CommitTo(n, Smaller(m.commit, LastIndex(AppendNew(log[n], m.entries))),
                        AppendNew(log[n], m.entries))
        PROVE  Gives(n)
    <3>1. log'[n] = AppendNew(log[n], m.entries) /\ log'[n] \in Seq(Entry)
      BY <2>3 DEF TypeOK
    <3>2. LastIndex(log'[n]) \in Nat
      BY <3>1, LogReads
    <3>3. m.commit \in Nat
      <4>1. m \in VoteRequest \cup AppendRequest /\ m.type = "AppendEntries"
        BY <1>5 DEF TypeOK, HandleAppendEntries
      <4>2. m \notin VoteRequest
        BY <4>1 DEF VoteRequest
      <4> QED BY <4>1, <4>2 DEF AppendRequest
    <3>4. PICK i : i = Smaller(m.commit, LastIndex(log'[n]))
      OBVIOUS
    <3>5. i \in Nat /\ i <= LastIndex(log'[n]) /\ CommitTo(n, i, log'[n])
      BY <2>3, <3>1, <3>2, <3>3, <3>4 DEF Smaller
    <3> QED BY <3>5 DEF Gives
  <2> QED BY <2>1, <2>2, <2>3
<1>6. ASSUME NEW r \in replies, HandleAppendEntriesResponse(n, r)
      PROVE  UNCHANGED snapVars /\ (UNCHANGED commitVars \/ Gives(n))
  <2>1. /\ UNCHANGED snapVars /\ log' = log
        /\ \/ UNCHANGED commitVars
           \/ AdvanceCommitIndex(n, [matchIndex[n] EXCEPT ![r.src] = r.match])
    BY <1>6 DEF HandleAppendEntriesResponse
  <2> QED BY <2>1, AdvanceGives
<1>7. ASSUME NEW v \in Commands, ProposeAdvance(n, v)
      PROVE  UNCHANGED snapVars /\ (UNCHANGED commitVars \/ Gives(n))
  <2>1. UNCHANGED snapVars /\ log' = log /\ AdvanceCommitIndex(n, matchIndex[n])
    BY <1>7 DEF ProposeAdvance, diskVars
  <2> QED BY <2>1, AdvanceGives
<1> QED BY <1>1, <1>2, <1>3, <1>4, <1>5, <1>6, <1>7 DEF HandlerStep

-----------------------------------------------------------------------------
(***************************************************************************)
(* Election safety: at most one leader per term, one vote per node and     *)
(* term, and no vote or term is ever taken back.  The inductive invariant  *)
(* is ElectionInv.                                                         *)
(***************************************************************************)

-----------------------------------------------------------------------------
(* Counting.                                                               *)

\* Sets of nodes are finite, and a larger one has at least as many members.
LEMMA NodeSets ==
    ASSUME NEW S, NEW T, S \subseteq T, T \subseteq Nodes
    PROVE  /\ IsFiniteSet(S) /\ IsFiniteSet(T)
           /\ Cardinality(S) \in Nat /\ Cardinality(T) \in Nat
           /\ Cardinality(S) <= Cardinality(T)
<1>1. IsFiniteSet(Nodes)
  BY NodesAssumption
<1>2. IsFiniteSet(T)
  BY <1>1, FS_Subset
<1>3. IsFiniteSet(S) /\ Cardinality(S) <= Cardinality(T)
  BY <1>2, FS_Subset
<1> QED BY <1>2, <1>3, FS_CardinalityType

\* Majority is a number.
LEMMA MajorityType == Majority \in Nat
<1>1. Cardinality(Nodes) \in Nat
  BY NodesAssumption, FS_CardinalityType
<1> QED BY <1>1 DEF Majority

\* Majority is more than half of the cluster, so two majorities share a node.
LEMMA QuorumsMeet ==
    ASSUME NEW S, NEW T, S \subseteq Nodes, T \subseteq Nodes,
           Cardinality(S) >= Majority, Cardinality(T) >= Majority
    PROVE  S \cap T # {}
<1>1. IsFiniteSet(Nodes) /\ Cardinality(Nodes) \in Nat
  BY NodesAssumption, FS_CardinalityType
<1>2. Cardinality(S) \in Nat /\ Cardinality(T) \in Nat
  BY NodeSets
<1>3. Cardinality(S) + Cardinality(T) > Cardinality(Nodes)
  BY <1>1, <1>2 DEF Majority
<1> QED BY <1>1, <1>3, FS_MajoritiesIntersect

-----------------------------------------------------------------------------
(* What a step must satisfy to keep each part of ElectionInv.              *)

\* Votes are only added, each as the current vote of its voter.
LEMMA VoteStep ==
    ASSUME TypeOK, TypeOK', ElectionInv, VoteStays,
           votes \subseteq votes',
           \A v \in votes' : v \in votes \/ ( /\ v.term = currentTerm'[v.voter]
                                             /\ votedFor'[v.voter] = v.cand ),
           \A r \in replies' : r.type = "RequestVote" /\ r.granted
              => r \in replies
                 \/ [voter |-> r.src, term |-> r.term, cand |-> r.dst] \in votes'
    PROVE  OneVotePerTerm' /\ VotesAreRecorded' /\ GrantsAreVotes'
<1>1. /\ OneVotePerTerm /\ VotesAreRecorded /\ GrantsAreVotes
  BY DEF ElectionInv
<1>2. \A v \in votes' : v.voter \in Nodes /\ v.term \in Nat /\ v.cand \in Nodes
  <2>1. votes' \in SUBSET [voter : Nodes, term : Nat, cand : Nodes]
    BY DEF TypeOK
  <2> QED BY <2>1
<1>3. \A n \in Nodes : currentTerm[n] \in Nat /\ currentTerm'[n] \in Nat
  BY DEF TypeOK
<1>4. VotesAreRecorded'
  <2> SUFFICES ASSUME NEW v \in votes'
               PROVE  /\ v.term <= currentTerm'[v.voter]
                      /\ v.term = currentTerm'[v.voter] => votedFor'[v.voter] = v.cand
    BY DEF VotesAreRecorded
  <2>1. CASE v \in votes
    <3>1. /\ v.term <= currentTerm[v.voter]
          /\ v.term = currentTerm[v.voter] => votedFor[v.voter] = v.cand
      BY <1>1, <2>1 DEF VotesAreRecorded
    <3>2. /\ currentTerm[v.voter] <= currentTerm'[v.voter]
          /\ currentTerm[v.voter] = currentTerm'[v.voter] /\ votedFor[v.voter] # Nil
               => votedFor'[v.voter] = votedFor[v.voter]
      BY <1>2 DEF VoteStays
    <3>3. v.cand # Nil
      BY <1>2, NodesAssumption
    <3> QED BY <1>2, <1>3, <3>1, <3>2, <3>3
  <2>2. CASE v.term = currentTerm'[v.voter] /\ votedFor'[v.voter] = v.cand
    BY <1>2, <1>3, <2>2
  <2> QED BY <2>1, <2>2
<1>5. OneVotePerTerm'
  <2> SUFFICES ASSUME NEW a \in votes', NEW b \in votes',
                      a.voter = b.voter, a.term = b.term
               PROVE  a.cand = b.cand
    BY DEF OneVotePerTerm
  <2>1. CASE a \in votes /\ b \in votes
    BY <1>1, <2>1 DEF OneVotePerTerm
  <2>2. CASE a.term = currentTerm'[a.voter]
    BY <1>4, <2>2 DEF VotesAreRecorded
  <2>3. CASE b.term = currentTerm'[b.voter]
    BY <1>4, <2>3 DEF VotesAreRecorded
  <2> QED BY <2>1, <2>2, <2>3
<1>6. GrantsAreVotes'
  BY <1>1 DEF GrantsAreVotes
<1> QED BY <1>4, <1>5, <1>6

\* A candidate that goes on keeps its count, and no peer it no longer waits for
\* is asked again.
LEMMA CountStep ==
    ASSUME TypeOK, TypeOK', ElectionInv, votes \subseteq votes', NEW n \in Nodes,
           state[n] = "CANDIDATE", currentTerm'[n] = currentTerm[n],
           votesReceived'[n] = votesReceived[n],
           \A q \in Nodes : q \in ballot'[n].todo \/ q = ballot'[n].wait
              => q \in ballot[n].todo \/ q = ballot[n].wait
    PROVE  votesReceived'[n] <= Cardinality(Supporters(n)')
<1>1. votesReceived[n] <= Cardinality(Supporters(n)) /\ votesReceived[n] \in Nat
  BY DEF ElectionInv, CountIsBacked, TypeOK
<1>2. Supporters(n) \subseteq Supporters(n)' /\ Supporters(n)' \subseteq Nodes
  BY DEF Supporters
<1>3. /\ Cardinality(Supporters(n)) \in Nat /\ Cardinality(Supporters(n)') \in Nat
      /\ Cardinality(Supporters(n)) <= Cardinality(Supporters(n)')
  BY <1>2, NodeSets
<1> QED BY <1>1, <1>3

\* The votes that elected a leader are never lost.
LEMMA ElectedStep ==
    ASSUME TypeOK, TypeOK', ElectionInv, votes \subseteq votes',
           \A e \in elected' : e \in elected \/ Cardinality(VotersOf(e)') >= Majority
    PROVE  ElectedByMajority'
<1>1. Majority \in Nat
  BY MajorityType
<1>2. ASSUME NEW e \in elected PROVE Cardinality(VotersOf(e)') >= Majority
  <2>1. Cardinality(VotersOf(e)) >= Majority
    BY DEF ElectionInv, ElectedByMajority
  <2>2. VotersOf(e) \subseteq VotersOf(e)' /\ VotersOf(e)' \subseteq Nodes
    BY DEF VotersOf
  <2> QED BY <1>1, <2>1, <2>2, NodeSets
<1> QED BY <1>2 DEF ElectedByMajority

\* A turn of the loop of StartElection asks one more peer, and none twice.
LEMMA BallotStep ==
    ASSUME NEW n \in Nodes, NEW b \in BallotType, NEW sent,
           ballot \in [Nodes -> BallotType], BallotShape,
           b.phase = "asking", b.wait \notin b.todo, ContinueBallot(n, b, sent)
    PROVE  /\ BallotShape'
           /\ \A p \in Nodes : p # n => ballot'[p] = ballot[p]
           /\ \A q \in Nodes : q \in ballot'[n].todo \/ q = ballot'[n].wait => q \in b.todo
<1>1. CASE b.todo = {} /\ ballot' = [ballot EXCEPT ![n] = [b EXCEPT !.wait = Nil]]
  <2>1. ballot'[n] = [b EXCEPT !.wait = Nil] /\ \A p \in Nodes : p # n => ballot'[p] = ballot[p]
    BY <1>1
  <2>2. ballot'[n].wait = Nil /\ ballot'[n].todo = {} /\ ballot'[n].phase = "asking"
    BY <1>1, <2>1 DEF BallotType
  <2>3. BallotShape'
    BY <2>1, <2>2 DEF BallotShape
  <2> QED BY <2>1, <2>2, <2>3, NodesAssumption
<1>2. ASSUME NEW p \in b.todo,
             ballot' = [ballot EXCEPT ![n] = [b EXCEPT !.todo = @ \ {p}, !.wait = p]]
      PROVE  /\ BallotShape'
             /\ \A q \in Nodes : q # n => ballot'[q] = ballot[q]
             /\ \A q \in Nodes : q \in ballot'[n].todo \/ q = ballot'[n].wait => q \in b.todo
  <2>1. ballot'[n] = [b EXCEPT !.todo = @ \ {p}, !.wait = p]
        /\ \A q \in Nodes : q # n => ballot'[q] = ballot[q]
    BY <1>2
  <2>2. ballot'[n].wait = p /\ ballot'[n].todo = b.todo \ {p} /\ ballot'[n].phase = "asking"
    BY <2>1 DEF BallotType
  <2>3. BallotShape'
    BY <2>1, <2>2 DEF BallotShape
  <2> QED BY <2>1, <2>2, <2>3
<1> QED BY <1>1, <1>2 DEF ContinueBallot

\* BecomeLeader waits for no vote any more.
LEMMA LeaderBallot ==
    ASSUME NEW n \in Nodes, ballot \in [Nodes -> BallotType], BallotShape, BecomeLeader(n),
           ballot[n].phase = "asking"
    PROVE  BallotShape' /\ \A p \in Nodes : p # n => ballot'[p] = ballot[p]
<1>1. /\ ballot'[n].wait = Nil /\ ballot'[n].todo = ballot[n].todo
      /\ ballot'[n].phase # "begin"
      /\ \A p \in Nodes : p # n => ballot'[p] = ballot[p]
  BY DEF BecomeLeader, BallotType
<1>2. Nil \notin ballot[n].todo
  BY NodesAssumption DEF BallotType
<1> QED BY <1>1, <1>2 DEF BallotShape

\* A step that casts no vote, elects nobody and lets no candidate gain.
LEMMA QuietStep ==
    ASSUME TypeOK, TypeOK', ElectionInv, VoteStays, BallotShape',
           UNCHANGED <<votes, elected>>,
           \A r \in replies' : r.type = "RequestVote" /\ r.granted => r \in replies,
           \A n \in Nodes : state'[n] = "CANDIDATE"
              => /\ state[n] = "CANDIDATE"
                 /\ currentTerm'[n] = currentTerm[n]
                 /\ votesReceived'[n] = votesReceived[n]
                 /\ \A q \in Nodes : q \in ballot'[n].todo \/ q = ballot'[n].wait
                       => q \in ballot[n].todo \/ q = ballot[n].wait
    PROVE  ElectionInv'
<1>1. OneVotePerTerm' /\ VotesAreRecorded' /\ GrantsAreVotes'
  BY VoteStep
<1>2. CountIsBacked'
  BY CountStep DEF CountIsBacked
<1>3. ElectedByMajority'
  BY ElectedStep
<1> QED BY <1>1, <1>2, <1>3 DEF ElectionInv
-----------------------------------------------------------------------------
(* No step takes a term or a vote back.                                    *)

\* Every action keeps the term and the vote, or moves to a higher term.
LEMMA VoteStaysStep ==
    ASSUME TypeInv, Next
    PROVE  VoteStays
<1>0. /\ currentTerm \in [Nodes -> Nat] /\ votedFor \in [Nodes -> Nodes \cup {Nil}]
      /\ \A m \in requests : m.term \in Nat
      /\ \A r \in replies : r.term \in Nat
  BY DEF TypeInv, TypeOK, VoteRequest, AppendRequest, VoteReply, AppendReply
<1>1. CASE UNCHANGED <<currentTerm, votedFor>>
  BY <1>0, <1>1 DEF VoteStays
<1>2. ASSUME NEW n \in Nodes, NEW t \in Nat, t > currentTerm[n],
             currentTerm' = [currentTerm EXCEPT ![n] = t],
             NEW v, votedFor' = [votedFor EXCEPT ![n] = v]
      PROVE  VoteStays
  BY <1>0, <1>2 DEF VoteStays
<1>3. ASSUME NEW n \in Nodes, BecomeCandidate(n) PROVE VoteStays
  <2>1. currentTerm[n] + 1 \in Nat /\ currentTerm[n] + 1 > currentTerm[n]
    BY <1>0
  <2>2. currentTerm' = [currentTerm EXCEPT ![n] = currentTerm[n] + 1]
        /\ votedFor' = [votedFor EXCEPT ![n] = n]
    BY <1>3 DEF BecomeCandidate
  <2> QED BY <1>2, <2>1, <2>2
<1>4. ASSUME NEW n \in Nodes, NEW r \in replies, StepDown(n, r.term), r.term > currentTerm[n]
      PROVE  VoteStays
  BY <1>0, <1>2, <1>4 DEF StepDown
<1>5. ASSUME NEW n \in Nodes, NEW m \in requests, HandleRequestVote(n, m) PROVE VoteStays
  <2>1. CASE m.term > currentTerm[n]
    <3>1. \E v : votedFor' = [votedFor EXCEPT ![n] = v]
      BY <1>5 DEF HandleRequestVote
    <3>2. currentTerm' = [currentTerm EXCEPT ![n] = m.term]
      BY <1>5, <2>1 DEF HandleRequestVote
    <3> QED BY <1>0, <1>2, <2>1, <3>1, <3>2
  <2>2. CASE ~ (m.term > currentTerm[n])
    <3>1. currentTerm' = currentTerm
      BY <1>0, <1>5, <2>2 DEF HandleRequestVote
    <3>2. \/ votedFor' = votedFor
          \/ votedFor[n] \in {Nil, m.src} /\ votedFor' = [votedFor EXCEPT ![n] = m.src]
      BY <1>0, <1>5, <2>2 DEF HandleRequestVote, CanVote
    <3> QED BY <1>0, <3>1, <3>2 DEF VoteStays
  <2> QED BY <2>1, <2>2
<1>6. ASSUME NEW n \in Nodes, NEW m \in requests, HandleAppendEntries(n, m) PROVE VoteStays
  <2>1. CASE m.term < currentTerm[n]
    BY <1>1, <1>6, <2>1 DEF HandleAppendEntries, diskVars
  <2>2. CASE ~ (m.term < currentTerm[n])
    <3>1. currentTerm' = [currentTerm EXCEPT ![n] = m.term]
          /\ votedFor' = [votedFor EXCEPT ![n] = IF m.term > currentTerm[n] THEN Nil ELSE @]
      BY <1>6, <2>2 DEF HandleAppendEntries
    <3> QED BY <1>0, <2>2, <3>1 DEF VoteStays
  <2> QED BY <2>1, <2>2
<1>7. ASSUME NEW n \in Nodes, Restart(n) PROVE VoteStays
  BY <1>0, <1>7 DEF Restart, StartFrom, RestoredVote, VoteStays
<1>8. ASSUME NEW n \in Nodes, NEW r \in replies, HandleRequestVoteResponse(n, r)
      PROVE  VoteStays
  BY <1>1, <1>4, <1>8 DEF HandleRequestVoteResponse
<1>9. ASSUME NEW n \in Nodes, NEW r \in replies, HandleAppendEntriesResponse(n, r)
      PROVE  VoteStays
  BY <1>1, <1>4, <1>9 DEF HandleAppendEntriesResponse
<1>10. ASSUME NEW n \in Nodes,
              \/ StartElection(n) \/ RequestVoteTimeout(n) \/ ResumeElection(n)
              \/ FinishElection(n) \/ HeartbeatTimeout(n) \/ AppendEntriesTimeout(n)
              \/ SnapshotDecide(n) \/ SnapshotCapture(n)
              \/ SnapshotPublish(n) \/ SnapshotTrim(n)
       PROVE  VoteStays
  BY <1>1, <1>10 DEF StartElection, RequestVoteTimeout, ResumeElection, FinishElection,
       HeartbeatTimeout, AppendEntriesTimeout, SnapshotDecide, SnapshotCapture,
       SnapshotPublish, SnapshotTrim, diskVars
<1>11. ASSUME NEW n \in Nodes, NEW v \in Commands,
              \/ Propose(n, v) \/ ProposeAdvance(n, v) \/ ProposeSend(n, v)
              \/ ProposeCheck(n, v) \/ ProposeTimeout(n, v)
       PROVE  VoteStays
  BY <1>1, <1>11 DEF Propose, ProposeAdvance, ProposeSend, ProposeCheck, ProposeTimeout,
       diskVars
<1> QED BY <1>3, <1>5, <1>6, <1>7, <1>8, <1>9, <1>10, <1>11 DEF Next

\* A term or a vote, once persisted, is never taken back by a handler, a timer
\* or a restart (HandleRequestVote, HandleAppendEntries, RestoreState).
THEOREM VoteFinal == Spec => VoteIsFinal
<1>1. TypeInv /\ [Next]_vars => [VoteStays]_<<currentTerm, votedFor>>
  BY VoteStaysStep DEF vars, diskVars
<1> QED BY <1>1, TypeInit, TypeStep, PTL DEF Spec, VoteIsFinal
-----------------------------------------------------------------------------
(* ElectionInv is inductive: one lemma per kind of step.                   *)

\* The initial state satisfies it.
LEMMA ElectionInit == Init => ElectionInv
<1> SUFFICES ASSUME Init PROVE ElectionInv
  OBVIOUS
<1>1. OneVotePerTerm /\ VotesAreRecorded /\ GrantsAreVotes /\ ElectedByMajority
  BY DEF Init, OneVotePerTerm, VotesAreRecorded, GrantsAreVotes, ElectedByMajority
<1>2. BallotShape /\ CountIsBacked
  BY DEF Init, BallotShape, CountIsBacked, IdleBallot
<1> QED BY <1>1, <1>2 DEF ElectionInv

\* A candidate starts with its own vote (BecomeCandidate).
LEMMA ElectionCandidate ==
    ASSUME TypeOK, TypeOK', ElectionInv, VoteStays, NEW n \in Nodes, BecomeCandidate(n)
    PROVE  ElectionInv'
<1> DEFINE own == [voter |-> n, term |-> currentTerm[n] + 1, cand |-> n]
<1>1. /\ votes' = votes \cup {own}
      /\ currentTerm' = [currentTerm EXCEPT ![n] = currentTerm[n] + 1]
      /\ votedFor' = [votedFor EXCEPT ![n] = n]
      /\ state' = [state EXCEPT ![n] = "CANDIDATE"]
      /\ votesReceived' = [votesReceived EXCEPT ![n] = 1]
      /\ ballot' = [ballot EXCEPT ![n] =
                      [IdleBallot EXCEPT !.phase = "begin", !.todo = Peers(n)]]
      /\ UNCHANGED <<replies, elected>>
  BY DEF BecomeCandidate, netVars
<1>2. /\ currentTerm \in [Nodes -> Nat] /\ votedFor \in [Nodes -> Nodes \cup {Nil}]
      /\ state \in [Nodes -> {"FOLLOWER", "CANDIDATE", "LEADER"}]
      /\ votesReceived \in [Nodes -> Nat] /\ ballot \in [Nodes -> BallotType]
  BY DEF TypeOK, BallotType
<1>3. /\ currentTerm'[n] = currentTerm[n] + 1 /\ votedFor'[n] = n
      /\ votesReceived'[n] = 1
      /\ ballot'[n] = [IdleBallot EXCEPT !.phase = "begin", !.todo = Peers(n)]
  BY <1>1, <1>2
<1>4. \A p \in Nodes : p # n =>
        /\ currentTerm'[p] = currentTerm[p] /\ state'[p] = state[p]
        /\ votesReceived'[p] = votesReceived[p] /\ ballot'[p] = ballot[p]
  BY <1>1, <1>2
<1>5. ballot'[n].wait = Nil /\ ballot'[n].todo = Peers(n)
  BY <1>3 DEF IdleBallot
<1>6. OneVotePerTerm' /\ VotesAreRecorded' /\ GrantsAreVotes'
  <2>1. \A v \in votes' : v \in votes \/ ( /\ v.term = currentTerm'[v.voter]
                                          /\ votedFor'[v.voter] = v.cand )
    BY <1>1, <1>3
  <2>2. votes \subseteq votes' /\ \A r \in replies' : r \in replies
    BY <1>1
  <2> HIDE DEF own
  <2> QED BY <2>1, <2>2, VoteStep
<1>7. BallotShape'
  BY <1>4, <1>5, NodesAssumption DEF ElectionInv, BallotShape, Peers
<1>8. CountIsBacked'
  <2>1. votesReceived'[n] <= Cardinality(Supporters(n)')
    <3>1. own \in votes' /\ own = [voter |-> n, term |-> currentTerm'[n], cand |-> n]
      BY <1>1, <1>3
    <3>2. {n} \subseteq Supporters(n)' /\ Supporters(n)' \subseteq Nodes
      BY <1>5, <3>1, NodesAssumption DEF Supporters, Peers
    <3>3. Cardinality({n}) <= Cardinality(Supporters(n)')
      BY <3>2, NodeSets
    <3>4. Cardinality({n}) = 1
      BY FS_Singleton
    <3> QED BY <1>3, <3>3, <3>4
  <2>2. ASSUME NEW p \in Nodes, p # n, state'[p] = "CANDIDATE"
        PROVE  votesReceived'[p] <= Cardinality(Supporters(p)')
    BY <1>1, <1>4, <2>2, CountStep
  <2> QED BY <2>1, <2>2 DEF CountIsBacked
<1>9. ElectedByMajority'
  BY <1>1, ElectedStep
<1> QED BY <1>6, <1>7, <1>8, <1>9 DEF ElectionInv

\* A vote is cast and its reply stands for it (HandleRequestVote).
LEMMA ElectionVote ==
    ASSUME TypeOK, TypeOK', ElectionInv, VoteStays,
           NEW n \in Nodes, NEW m \in requests, HandleRequestVote(n, m)
    PROVE  ElectionInv'
<1> DEFINE newer == m.term > currentTerm[n]
           vote  == IF newer THEN Nil ELSE votedFor[n]
           grant == m.term >= currentTerm[n] /\ CanVote(n, m, vote)
           term  == IF newer THEN m.term ELSE currentTerm[n]
           cast  == [voter |-> n, term |-> term, cand |-> m.src]
           reply == [type |-> "RequestVote", src |-> n, dst |-> m.src,
                     term |-> term, granted |-> grant]
<1>1. /\ currentTerm' = [currentTerm EXCEPT ![n] = term]
      /\ votedFor' = [votedFor EXCEPT ![n] = IF grant THEN m.src ELSE vote]
      /\ state' = [state EXCEPT ![n] = IF newer THEN "FOLLOWER" ELSE @]
      /\ votes' = IF grant THEN votes \cup {cast} ELSE votes
      /\ replies' = IF m.live THEN replies \cup {reply} ELSE replies
      /\ UNCHANGED <<votesReceived, ballot, elected>>
  BY DEF HandleRequestVote, Answer, threadVars
<1>2. /\ currentTerm \in [Nodes -> Nat] /\ votedFor \in [Nodes -> Nodes \cup {Nil}]
      /\ state \in [Nodes -> {"FOLLOWER", "CANDIDATE", "LEADER"}]
  BY DEF TypeOK
<1>3. /\ currentTerm'[n] = term /\ (grant => votedFor'[n] = m.src)
      /\ votes \subseteq votes'
  BY <1>1, <1>2
<1>4. OneVotePerTerm' /\ VotesAreRecorded' /\ GrantsAreVotes'
  <2>1. \A v \in votes' : v \in votes \/ ( /\ v.term = currentTerm'[v.voter]
                                          /\ votedFor'[v.voter] = v.cand )
    <3>1. grant => cast.term = currentTerm'[cast.voter] /\ votedFor'[cast.voter] = cast.cand
      BY <1>3
    <3> HIDE DEF grant, cast
    <3> QED BY <1>1, <3>1
  <2>2. \A r \in replies' : r.type = "RequestVote" /\ r.granted
            => r \in replies
               \/ [voter |-> r.src, term |-> r.term, cand |-> r.dst] \in votes'
    <3>1. reply.granted = grant
          /\ [voter |-> reply.src, term |-> reply.term, cand |-> reply.dst] = cast
      OBVIOUS
    <3>2. grant => cast \in votes'
      BY <1>1
    <3> HIDE DEF reply, cast, grant
    <3> QED BY <1>1, <3>1, <3>2
  <2> HIDE DEF newer, vote, grant, term, cast, reply
  <2> QED BY <1>3, <2>1, <2>2, VoteStep
<1>5. BallotShape'
  BY <1>1 DEF ElectionInv, BallotShape
<1>6. CountIsBacked'
  <2> SUFFICES ASSUME NEW p \in Nodes, state'[p] = "CANDIDATE"
               PROVE  votesReceived'[p] <= Cardinality(Supporters(p)')
    BY DEF CountIsBacked
  <2>1. state[p] = "CANDIDATE" /\ currentTerm'[p] = currentTerm[p]
    BY <1>1, <1>2
  <2> HIDE DEF newer, vote, grant, term, cast, reply
  <2> QED BY <1>1, <1>3, <2>1, CountStep
<1>7. ElectedByMajority'
  <2> HIDE DEF newer, vote, grant, term, cast, reply
  <2> QED BY <1>1, <1>3, ElectedStep
<1> QED BY <1>4, <1>5, <1>6, <1>7 DEF ElectionInv
\* A counted reply adds a voter that was not counted before
\* (HandleRequestVoteResponse).
LEMMA NewSupporter ==
    ASSUME TypeOK, ElectionInv, NEW n \in Nodes, NEW r \in replies,
           r \in VoteReply, r.dst = n, ballot[n].wait = r.src,
           r.term = currentTerm[n], r.granted
    PROVE  /\ r.src \in Nodes
           /\ [voter |-> r.src, term |-> currentTerm[n], cand |-> n] \in votes
           /\ Cardinality(Supporters(n) \cup {r.src}) = Cardinality(Supporters(n)) + 1
           /\ Cardinality(Supporters(n)) \in Nat
<1>1. r.src \in Nodes /\ r.type = "RequestVote"
  BY DEF VoteReply
<1>2. [voter |-> r.src, term |-> currentTerm[n], cand |-> n] \in votes
  BY <1>1 DEF ElectionInv, GrantsAreVotes
<1>3. Supporters(n) \subseteq Nodes /\ r.src \notin Supporters(n)
  BY DEF Supporters
<1>4. IsFiniteSet(Supporters(n)) /\ Cardinality(Supporters(n)) \in Nat
  BY <1>3, NodeSets
<1> QED BY <1>1, <1>2, <1>3, <1>4, FS_AddElement

\* Replies to RequestVote (HandleRequestVoteResponse).
LEMMA ElectionReply ==
    ASSUME TypeOK, TypeOK', ElectionInv, VoteStays,
           NEW n \in Nodes, NEW r \in replies, HandleRequestVoteResponse(n, r)
    PROVE  ElectionInv'
<1>0. /\ r \in VoteReply /\ r.dst = n /\ r.term \in Nat /\ r.src \in Nodes
      /\ ballot[n].phase = "asking" /\ ballot[n].wait = r.src
      /\ replies' = replies \ {r} /\ votes' = votes
  BY DEF HandleRequestVoteResponse, TypeOK, VoteReply, AppendReply
<1>1. /\ ballot \in [Nodes -> BallotType] /\ ballot[n] \in BallotType
      /\ currentTerm \in [Nodes -> Nat] /\ currentTerm[n] \in Nat
      /\ state \in [Nodes -> {"FOLLOWER", "CANDIDATE", "LEADER"}]
      /\ votesReceived \in [Nodes -> Nat]
      /\ BallotShape /\ ballot[n].wait \notin ballot[n].todo
  BY DEF TypeOK, BallotType, ElectionInv, BallotShape
<1>2. CASE ContinueBallot(n, ballot[n], requests) /\ StepDown(n, r.term)
           /\ UNCHANGED <<votesReceived, elected>>
  <2>1. /\ BallotShape'
        /\ \A p \in Nodes : p # n => ballot'[p] = ballot[p]
    BY <1>0, <1>1, <1>2, BallotStep
  <2>2. \A p \in Nodes : state'[p] = "CANDIDATE"
          => p # n /\ state[p] = "CANDIDATE" /\ currentTerm'[p] = currentTerm[p]
    BY <1>1, <1>2 DEF StepDown
  <2> QED BY <1>0, <1>2, <2>1, <2>2, QuietStep
<1>3. CASE ContinueBallot(n, ballot[n], requests)
           /\ UNCHANGED <<currentTerm, state, votesReceived, elected>>
  <2>1. /\ BallotShape'
        /\ \A p \in Nodes : p # n => ballot'[p] = ballot[p]
        /\ \A q \in Nodes : q \in ballot'[n].todo \/ q = ballot'[n].wait
              => q \in ballot[n].todo
    BY <1>0, <1>1, <1>3, BallotStep
  <2> QED BY <1>0, <1>3, <2>1, QuietStep
<1>4. ASSUME VoteCounts(n, r), r.term <= currentTerm[n]
      PROVE  /\ r.term = currentTerm[n] /\ state[n] = "CANDIDATE" /\ r.granted
             /\ [voter |-> r.src, term |-> currentTerm[n], cand |-> n] \in votes
             /\ votesReceived[n] + 1 <= Cardinality(Supporters(n) \cup {r.src})
  <2>1. r.term = currentTerm[n] /\ state[n] = "CANDIDATE" /\ r.granted
    BY <1>0, <1>1, <1>4 DEF VoteCounts
  <2>2. votesReceived[n] <= Cardinality(Supporters(n)) /\ votesReceived[n] \in Nat
    BY <1>1, <2>1 DEF ElectionInv, CountIsBacked
  <2> QED BY <1>0, <2>1, <2>2, NewSupporter
<1>5. ASSUME VoteCounts(n, r), r.term <= currentTerm[n],
             votesReceived' = [votesReceived EXCEPT ![n] = @ + 1],
             UNCHANGED <<currentTerm, votedFor>>
      PROVE  OneVotePerTerm' /\ VotesAreRecorded' /\ GrantsAreVotes'
             /\ \A p \in Nodes : p # n => votesReceived'[p] = votesReceived[p]
             /\ votesReceived'[n] = votesReceived[n] + 1
  <2>1. OneVotePerTerm' /\ VotesAreRecorded' /\ GrantsAreVotes'
    BY <1>0, VoteStep
  <2> QED BY <1>1, <1>5, <2>1
<1>6. ASSUME VoteCounts(n, r), r.term <= currentTerm[n],
             votesReceived' = [votesReceived EXCEPT ![n] = @ + 1],
             ContinueBallot(n, ballot[n], requests),
             UNCHANGED <<currentTerm, votedFor, state, elected>>
      PROVE  ElectionInv'
  <2>1. /\ BallotShape'
        /\ \A p \in Nodes : p # n => ballot'[p] = ballot[p]
        /\ \A q \in Nodes : q \in ballot'[n].todo \/ q = ballot'[n].wait
              => q \in ballot[n].todo
    BY <1>0, <1>1, <1>6, BallotStep
  <2>2. CountIsBacked'
    <3>1. votesReceived'[n] <= Cardinality(Supporters(n)')
      <4>1. Supporters(n) \cup {r.src} \subseteq Supporters(n)' /\ Supporters(n)' \subseteq Nodes
        BY <1>0, <1>1, <1>4, <1>6, <2>1 DEF Supporters
      <4>2. /\ Cardinality(Supporters(n) \cup {r.src}) <= Cardinality(Supporters(n)')
            /\ Cardinality(Supporters(n) \cup {r.src}) \in Nat
            /\ Cardinality(Supporters(n)') \in Nat
        BY <4>1, NodeSets
      <4>3. votesReceived[n] \in Nat
        BY <1>1
      <4> QED BY <1>4, <1>5, <1>6, <4>2, <4>3
    <3>2. ASSUME NEW p \in Nodes, p # n, state'[p] = "CANDIDATE"
          PROVE  votesReceived'[p] <= Cardinality(Supporters(p)')
      BY <1>0, <1>5, <1>6, <2>1, <3>2, CountStep
    <3> QED BY <3>1, <3>2 DEF CountIsBacked
  <2>3. ElectedByMajority'
    BY <1>0, <1>6, ElectedStep
  <2> QED BY <1>5, <1>6, <2>1, <2>2, <2>3 DEF ElectionInv
<1>7. ASSUME VoteCounts(n, r), r.term <= currentTerm[n],
             votesReceived' = [votesReceived EXCEPT ![n] = @ + 1],
             votesReceived[n] + 1 >= Majority,
             BecomeLeader(n), UNCHANGED <<currentTerm, votedFor>>
      PROVE  ElectionInv'
  <2>0. PICK e : e = [node |-> n, term |-> currentTerm[n]]
    OBVIOUS
  <2>1. /\ state' = [state EXCEPT ![n] = "LEADER"]
        /\ elected' = elected \cup {e}
    BY <1>7, <2>0 DEF BecomeLeader
  <2>2. BallotShape' /\ \A p \in Nodes : p # n => ballot'[p] = ballot[p]
    BY <1>0, <1>1, <1>7, LeaderBallot
  <2>3. CountIsBacked'
    <3>1. ASSUME NEW p \in Nodes, state'[p] = "CANDIDATE"
          PROVE  votesReceived'[p] <= Cardinality(Supporters(p)')
      <4>1. p # n /\ state[p] = "CANDIDATE"
        BY <1>1, <2>1, <3>1
      <4> QED BY <1>0, <1>5, <1>7, <2>2, <4>1, CountStep
    <3> QED BY <3>1 DEF CountIsBacked
  <2>4. ElectedByMajority'
    <3>1. Supporters(n) \cup {r.src} \subseteq VotersOf(e)' /\ VotersOf(e)' \subseteq Nodes
      BY <1>0, <1>4, <1>7, <2>0 DEF Supporters, VotersOf
    <3>2. /\ Cardinality(Supporters(n) \cup {r.src}) <= Cardinality(VotersOf(e)')
          /\ Cardinality(Supporters(n) \cup {r.src}) \in Nat
          /\ Cardinality(VotersOf(e)') \in Nat
      BY <3>1, NodeSets
    <3>3. votesReceived[n] \in Nat /\ Majority \in Nat
      BY <1>1, MajorityType
    <3>4. Cardinality(VotersOf(e)') >= Majority
      BY <1>4, <1>7, <3>2, <3>3
    <3> QED BY <1>0, <2>1, <3>4, ElectedStep
  <2> QED BY <1>5, <1>7, <2>2, <2>3, <2>4 DEF ElectionInv
<1> QED BY <1>2, <1>3, <1>6, <1>7 DEF HandleRequestVoteResponse, electVars

\* The end of StartElection (FinishElection).
LEMMA ElectionFinish ==
    ASSUME TypeOK, TypeOK', ElectionInv, VoteStays, NEW n \in Nodes, FinishElection(n)
    PROVE  ElectionInv'
<1>0. UNCHANGED <<currentTerm, votesReceived, votes, replies>> /\ ballot[n].phase = "asking"
  BY DEF FinishElection, diskVars
<1>1. /\ ballot \in [Nodes -> BallotType]
      /\ state \in [Nodes -> {"FOLLOWER", "CANDIDATE", "LEADER"}]
      /\ votesReceived \in [Nodes -> Nat] /\ BallotShape
  BY DEF TypeOK, BallotType, ElectionInv
<1>2. CASE /\ ballot' = [ballot EXCEPT ![n] = IdleBallot]
           /\ UNCHANGED <<state, elected>>
  <2>1. /\ ballot'[n].todo = {} /\ ballot'[n].wait = Nil /\ ballot'[n].phase = "idle"
        /\ \A p \in Nodes : p # n => ballot'[p] = ballot[p]
    BY <1>1, <1>2 DEF IdleBallot
  <2>2. BallotShape'
    BY <1>1, <2>1 DEF BallotShape
  <2> QED BY <1>0, <1>2, <2>1, <2>2, NodesAssumption, QuietStep
<1>3. CASE state[n] = "CANDIDATE" /\ votesReceived[n] >= Majority /\ BecomeLeader(n)
  <2>0. PICK e : e = [node |-> n, term |-> currentTerm[n]]
    OBVIOUS
  <2>1. /\ state' = [state EXCEPT ![n] = "LEADER"]
        /\ elected' = elected \cup {e}
    BY <1>3, <2>0 DEF BecomeLeader
  <2>2. BallotShape' /\ \A p \in Nodes : p # n => ballot'[p] = ballot[p]
    BY <1>0, <1>1, <1>3, LeaderBallot
  <2>3. CountIsBacked'
    <3>1. ASSUME NEW p \in Nodes, state'[p] = "CANDIDATE"
          PROVE  votesReceived'[p] <= Cardinality(Supporters(p)')
      <4>1. p # n /\ state[p] = "CANDIDATE"
        BY <1>1, <2>1, <3>1
      <4> QED BY <1>0, <2>2, <4>1, CountStep
    <3> QED BY <3>1 DEF CountIsBacked
  <2>4. ElectedByMajority'
    <3>1. Supporters(n) \subseteq VotersOf(e)' /\ VotersOf(e)' \subseteq Nodes
      BY <1>0, <2>0 DEF Supporters, VotersOf
    <3>2. /\ Cardinality(Supporters(n)) <= Cardinality(VotersOf(e)')
          /\ Cardinality(Supporters(n)) \in Nat
          /\ Cardinality(VotersOf(e)') \in Nat
      BY <3>1, NodeSets
    <3>3. votesReceived[n] \in Nat /\ Majority \in Nat
          /\ votesReceived[n] <= Cardinality(Supporters(n))
      BY <1>1, <1>3, MajorityType DEF ElectionInv, CountIsBacked
    <3>4. Cardinality(VotersOf(e)') >= Majority
      BY <1>3, <3>2, <3>3
    <3> QED BY <1>0, <2>1, <3>4, ElectedStep
  <2>5. OneVotePerTerm' /\ VotesAreRecorded' /\ GrantsAreVotes'
    BY <1>0, VoteStep
  <2> QED BY <2>2, <2>3, <2>4, <2>5 DEF ElectionInv
<1> QED BY <1>2, <1>3 DEF FinishElection
\* The steps that leave votes, candidates and their ballots alone.
LEMMA ElectionFrozen ==
    ASSUME TypeOK, TypeOK', ElectionInv,
           UNCHANGED <<currentTerm, votedFor, state, votesReceived, ballot, votes, elected,
                       replies>>
    PROVE  ElectionInv'
<1>1. VoteStays
  BY DEF TypeOK, VoteStays
<1>2. BallotShape'
  BY DEF ElectionInv, BallotShape
<1> QED BY <1>1, <1>2, QuietStep

\* The loop of StartElection (StartElection, RequestVoteTimeout, ResumeElection).
LEMMA ElectionLoop ==
    ASSUME TypeOK, TypeOK', ElectionInv, VoteStays, NEW n \in Nodes,
           StartElection(n) \/ RequestVoteTimeout(n) \/ ResumeElection(n)
    PROVE  ElectionInv'
<1>1. /\ ballot \in [Nodes -> BallotType] /\ ballot[n] \in BallotType
      /\ BallotShape /\ ballot[n].wait \notin ballot[n].todo
  BY DEF TypeOK, BallotType, ElectionInv, BallotShape
<1>2. UNCHANGED <<currentTerm, state, votesReceived, votes, elected>>
      /\ replies' \subseteq replies
  BY DEF StartElection, RequestVoteTimeout, ResumeElection, RepliesWithout, diskVars,
         electVars, historyVars
<1>3. ASSUME NEW b \in BallotType, NEW sent, ContinueBallot(n, b, sent),
             b.phase = "asking", b.wait \notin b.todo, b.todo \subseteq ballot[n].todo
      PROVE  ElectionInv'
  <2>1. /\ BallotShape'
        /\ \A p \in Nodes : p # n => ballot'[p] = ballot[p]
        /\ \A q \in Nodes : q \in ballot'[n].todo \/ q = ballot'[n].wait => q \in b.todo
    BY <1>1, <1>3, BallotStep
  <2> QED BY <1>2, <1>3, <2>1, QuietStep
<1>4. CASE StartElection(n)
  <2>1. PICK b : b = [phase |-> "asking", term |-> currentTerm[n],
                      lastTerm |-> LastTerm(log[n]), lastIndex |-> LastIndex(log[n]),
                      todo |-> Peers(n), wait |-> Nil]
    OBVIOUS
  <2>2. b \in BallotType /\ b.phase = "asking" /\ b.todo = Peers(n) /\ b.wait = Nil
    BY <2>1, LogReads DEF TypeOK, BallotType, Peers
  <2>3. b.wait \notin b.todo
    BY <2>2, NodesAssumption DEF Peers
  <2>4. b.todo \subseteq ballot[n].todo
    BY <1>1, <1>4, <2>2 DEF StartElection, BallotShape
  <2>5. ContinueBallot(n, b, requests)
    BY <1>4, <2>1 DEF StartElection
  <2> QED BY <1>3, <2>2, <2>3, <2>4, <2>5
<1>5. CASE RequestVoteTimeout(n) \/ ResumeElection(n)
  BY <1>1, <1>3, <1>5 DEF RequestVoteTimeout, ResumeElection
<1> QED BY <1>4, <1>5

\* A round of heartbeats that ends, and the requests of a leader
\* (AppendEntriesTimeout, HandleAppendEntriesResponse, HandleAppendEntries).
LEMMA ElectionRounds ==
    ASSUME TypeOK, TypeOK', ElectionInv, VoteStays, NEW n \in Nodes
    PROVE  /\ AppendEntriesTimeout(n) => ElectionInv'
           /\ \A r \in replies : HandleAppendEntriesResponse(n, r) => ElectionInv'
           /\ \A m \in requests : HandleAppendEntries(n, m) => ElectionInv'
<1>1. /\ ballot \in [Nodes -> BallotType]
      /\ state \in [Nodes -> {"FOLLOWER", "CANDIDATE", "LEADER"}]
      /\ currentTerm \in [Nodes -> Nat] /\ BallotShape
  BY DEF TypeOK, BallotType, ElectionInv
<1>2. ASSUME ReturnToBallot(n)
      PROVE  /\ BallotShape'
             /\ \A p \in Nodes : /\ ballot'[p].todo = ballot[p].todo
                                  /\ ballot'[p].wait = ballot[p].wait
  <2>1. \A p \in Nodes : /\ ballot'[p].todo = ballot[p].todo
                         /\ ballot'[p].wait = ballot[p].wait
                         /\ ballot'[p].phase = "begin" => ballot[p].phase = "begin"
    BY <1>1, <1>2 DEF ReturnToBallot, BallotType
  <2> QED BY <1>1, <2>1 DEF BallotShape
<1>3. ASSUME AppendEntriesTimeout(n) PROVE ElectionInv'
  <2>1. UNCHANGED <<currentTerm, state, votesReceived, votes, elected>>
        /\ replies' \subseteq replies /\ ReturnToBallot(n)
    BY <1>3 DEF AppendEntriesTimeout, RepliesWithout, diskVars, electVars, historyVars
  <2> QED BY <1>2, <2>1, QuietStep
<1>4. ASSUME NEW r \in replies, HandleAppendEntriesResponse(n, r) PROVE ElectionInv'
  <2>1. UNCHANGED <<votesReceived, votes, elected>> /\ replies' \subseteq replies
        /\ ReturnToBallot(n)
    BY <1>4 DEF HandleAppendEntriesResponse, historyVars
  <2>2. StepDown(n, r.term) \/ UNCHANGED <<currentTerm, state>>
    BY <1>4 DEF HandleAppendEntriesResponse
  <2>3. \A p \in Nodes : state'[p] = "CANDIDATE"
          => state[p] = "CANDIDATE" /\ currentTerm'[p] = currentTerm[p]
    BY <1>1, <2>2 DEF StepDown
  <2> QED BY <1>2, <2>1, <2>3, QuietStep
<1>5. ASSUME NEW m \in requests, HandleAppendEntries(n, m) PROVE ElectionInv'
  <2>1. UNCHANGED <<votesReceived, ballot, votes, elected>>
    BY <1>5 DEF HandleAppendEntries, threadVars, historyVars
  <2>2. \A r \in replies' : r \in replies \/ r.type = "AppendEntries"
    BY <1>5 DEF HandleAppendEntries, Answer
  <2>3. \A p \in Nodes : state'[p] = "CANDIDATE"
          => state[p] = "CANDIDATE" /\ currentTerm'[p] = currentTerm[p]
    <3>1. \/ UNCHANGED <<currentTerm, state>>
          \/ /\ state' = [state EXCEPT ![n] = "FOLLOWER"]
             /\ currentTerm' = [currentTerm EXCEPT ![n] = m.term]
      BY <1>5 DEF HandleAppendEntries, diskVars
    <3> QED BY <1>1, <3>1
  <2>4. BallotShape'
    BY <1>1, <2>1 DEF BallotShape
  <2> QED BY <2>1, <2>2, <2>3, <2>4, QuietStep
<1> QED BY <1>3, <1>4, <1>5

\* A restarted node is a follower with the vote it had (Restart).
LEMMA ElectionRestart ==
    ASSUME TypeOK, TypeOK', ElectionInv, VoteStays, NEW n \in Nodes, Restart(n)
    PROVE  ElectionInv'
<1>1. /\ ballot \in [Nodes -> BallotType]
      /\ state \in [Nodes -> {"FOLLOWER", "CANDIDATE", "LEADER"}]
      /\ currentTerm \in [Nodes -> Nat] /\ votesReceived \in [Nodes -> Nat] /\ BallotShape
  BY DEF TypeOK, BallotType, ElectionInv
<1>2. /\ ballot' = [ballot EXCEPT ![n] = IdleBallot]
      /\ state' = [state EXCEPT ![n] = "FOLLOWER"]
      /\ currentTerm' = [currentTerm EXCEPT ![n] = currentTerm[n]]
      /\ votesReceived' = [votesReceived EXCEPT ![n] = 0]
      /\ UNCHANGED <<votes, elected>> /\ replies' \subseteq replies
  BY DEF Restart, StartFrom
<1>3. /\ ballot'[n].todo = {} /\ ballot'[n].phase = "idle" /\ state'[n] = "FOLLOWER"
      /\ \A p \in Nodes : p # n =>
            /\ ballot'[p] = ballot[p] /\ state'[p] = state[p]
            /\ currentTerm'[p] = currentTerm[p] /\ votesReceived'[p] = votesReceived[p]
  BY <1>1, <1>2 DEF IdleBallot
<1>4. BallotShape'
  BY <1>1, <1>3 DEF BallotShape
<1> QED BY <1>2, <1>3, <1>4, QuietStep

\* ElectionInv is inductive, given TypeInv.
LEMMA ElectionStep == TypeInv /\ ElectionInv /\ [Next]_vars => ElectionInv'
<1> SUFFICES ASSUME TypeInv, ElectionInv, [Next]_vars PROVE ElectionInv'
  OBVIOUS
<1>1. TypeOK /\ TypeOK'
  BY TypeStep DEF TypeInv
<1>2. CASE UNCHANGED vars
  BY <1>1, <1>2, ElectionFrozen
     DEF vars, diskVars, electVars, threadVars, netVars, historyVars
<1>3. CASE Next
  <2>1. VoteStays
    BY <1>3, VoteStaysStep
  <2>2. ASSUME NEW n \in Nodes,
               \/ HeartbeatTimeout(n) \/ SnapshotDecide(n)
               \/ SnapshotCapture(n) \/ SnapshotPublish(n) \/ SnapshotTrim(n)
        PROVE  ElectionInv'
    BY <1>1, <2>2, ElectionFrozen
       DEF HeartbeatTimeout, SnapshotDecide, SnapshotCapture, SnapshotPublish,
           SnapshotTrim, diskVars, electVars, threadVars, netVars, historyVars
  <2>3. ASSUME NEW n \in Nodes, NEW v \in Commands,
               \/ Propose(n, v) \/ ProposeAdvance(n, v) \/ ProposeSend(n, v)
               \/ ProposeCheck(n, v) \/ ProposeTimeout(n, v)
        PROVE  ElectionInv'
    BY <1>1, <2>3, ElectionFrozen
       DEF Propose, ProposeAdvance, ProposeSend, ProposeCheck, ProposeTimeout, diskVars,
           electVars, threadVars, netVars, historyVars
  <2> QED BY <1>1, <1>3, <2>1, <2>2, <2>3, ElectionCandidate, ElectionVote, ElectionReply,
             ElectionFinish, ElectionLoop, ElectionRounds, ElectionRestart
          DEF Next
<1> QED BY <1>2, <1>3

\* The inductive invariant of the elections holds in every cluster: every vote
\* that a candidate counted was cast for it, is counted once, and a leader had a
\* majority of them (HandleRequestVoteResponse, StartElection, BecomeLeader).
THEOREM VotesCounted == Spec => []ElectionInv
  BY TypeInit, TypeStep, ElectionInit, ElectionStep, PTL DEF Spec

\* A node never votes for two candidates in one term, whatever is lost, late or
\* restarted (HandleRequestVote, BecomeCandidate, RestoreState).
THEOREM OneVote == Spec => []OneVotePerTerm
<1>1. ElectionInv => OneVotePerTerm
  BY DEF ElectionInv
<1> QED BY <1>1, TypeInit, TypeStep, ElectionInit, ElectionStep, PTL DEF Spec

\* Two leaders of one term would each have a majority, and the node both
\* majorities share would have voted twice.
LEMMA InvImpliesSafety == TypeOK /\ ElectionInv => ElectionSafety
<1> SUFFICES ASSUME TypeOK, ElectionInv,
                    NEW a \in elected, NEW b \in elected, a.term = b.term
             PROVE  a.node = b.node
  BY DEF ElectionSafety
<1>1. Cardinality(VotersOf(a)) >= Majority /\ Cardinality(VotersOf(b)) >= Majority
  BY DEF ElectionInv, ElectedByMajority
<1>2. VotersOf(a) \subseteq Nodes /\ VotersOf(b) \subseteq Nodes
  BY DEF VotersOf
<1>3. PICK q \in Nodes : q \in VotersOf(a) /\ q \in VotersOf(b)
  BY <1>1, <1>2, QuorumsMeet
<1>4. /\ [voter |-> q, term |-> a.term, cand |-> a.node] \in votes
      /\ [voter |-> q, term |-> b.term, cand |-> b.node] \in votes
  BY <1>3 DEF VotersOf
<1> QED BY <1>4 DEF ElectionInv, OneVotePerTerm

\* At most one node becomes leader of a term (BecomeLeader), in a cluster of any
\* size and with any number of elections, failures, late requests and restarts.
THEOREM ElectionSafe == Spec => []ElectionSafety
  BY InvImpliesSafety, TypeInit, TypeStep, ElectionInit, ElectionStep, PTL
     DEF Spec, TypeInv
=============================================================================
