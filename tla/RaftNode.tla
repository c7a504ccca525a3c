------------------------------ MODULE RaftNode ------------------------------
(***************************************************************************)
(* The Raft replica of the HA NameNode (src/src/raft/raft_node.cc) and the *)
(* synchronous RPC it uses (src/src/raft/raft_rpc.cc).                     *)
(*                                                                         *)
(* Threads of one node.  The timer thread runs elections and leader        *)
(* heartbeats, one RPC loop thread runs the request handlers, each client  *)
(* worker runs a Propose call and the health thread takes snapshots.  All  *)
(* shared state is guarded by state_mutex_: an action here is one critical *)
(* section of that mutex.  SendHeartbeats keeps the mutex for a whole      *)
(* round of RPCs, which is what "round" records; StartElection calls its   *)
(* peers without the mutex, which is what "ballot" records.                *)
(*                                                                         *)
(* Every critical section that changes the term, the vote or the log calls *)
(* PersistState before it ends, so currentTerm, votedFor and log are also  *)
(* the contents of raft_state.dat between two actions.                     *)
(*                                                                         *)
(* log_ is the sequence log[n]; its sentinel (term 0, index 0) is implied. *)
(* An entry keeps its own index, as in the code: after a snapshot the      *)
(* position of an entry is no longer its index.                            *)
(***************************************************************************)
EXTENDS Integers, Sequences, FiniteSets

CONSTANTS
    Nodes,              \* config_.peers, which includes the node itself
    Commands,           \* serialized write requests, each proposed at most once
    Nil,                \* the empty string in voted_for_ and leader_id_
    SnapshotThreshold,  \* log entries above which the leader takes a snapshot
    MaxElections,       \* bound: elections started, over all nodes
    MaxRestarts,        \* bound: crashes and restarts in a behaviour
    MaxFailures,        \* bound: RPCs that end without a reply
    MaxLate,            \* bound: requests still in flight after their caller gave up
    MaxHeartbeats,      \* bound: rounds the heartbeat timer starts
    MaxSnapshots        \* bound: snapshots taken in a behaviour

ASSUME NodesAssumption == IsFiniteSet(Nodes) /\ Nodes # {} /\ Nil \notin Nodes
ASSUME BoundsAssumption ==
    /\ SnapshotThreshold \in Nat
    /\ MaxElections \in Nat
    /\ MaxRestarts \in Nat
    /\ MaxFailures \in Nat
    /\ MaxLate \in Nat
    /\ MaxHeartbeats \in Nat
    /\ MaxSnapshots \in Nat

VARIABLES
    \* raft_state.dat and its copy in memory
    currentTerm, votedFor, log,
    \* memory only
    state, leaderId, commitIndex, lastApplied, nextIndex, matchIndex,
    votesReceived,
    snapMeta,       \* snapshot_last_index_, snapshot_last_term_
    applied,        \* what apply_cb_ and restore_cb_ gave the state machine
    \* raft_snapshot.dat
    snapFile,
    \* progress of the threads of a node
    ballot,         \* the timer thread inside StartElection
    round,          \* the thread inside SendHeartbeats, which holds state_mutex_
    taking,         \* the health thread inside TakeSnapshot
    call,           \* the client worker inside Propose, one per command
    \* sockets
    requests, replies,
    \* bounds
    restarts, snapshots, failures, heartbeats,
    \* history: votes ever cast, leaders ever elected
    votes, elected

diskVars    == <<currentTerm, votedFor, log>>
electVars   == <<state, leaderId, votesReceived>>
leaderVars  == <<nextIndex, matchIndex>>
commitVars  == <<commitIndex, lastApplied, applied>>
snapVars    == <<snapMeta, snapFile, taking, snapshots>>
threadVars  == <<ballot, round>>
netVars     == <<requests, replies>>
boundVars   == <<restarts, failures, heartbeats>>
historyVars == <<votes, elected>>

vars == <<diskVars, electVars, leaderVars, commitVars, snapVars, threadVars,
          call, netVars, boundVars, historyVars>>

-----------------------------------------------------------------------------
(* Log entries and sequences of entries with increasing index.             *)

Entry == [term : Nat, index : Nat, cmd : Commands]

LastIndex(l) == IF l = <<>> THEN 0 ELSE l[Len(l)].index
LastTerm(l)  == IF l = <<>> THEN 0 ELSE l[Len(l)].term

\* How many entries of l have an index up to i: they are the first ones.
CountUpTo(l, i) == Cardinality({k \in 1..Len(l) : l[k].index <= i})

UpTo(l, i)  == SubSeq(l, 1, CountUpTo(l, i))
Above(l, i) == SubSeq(l, CountUpTo(l, i) + 1, Len(l))

\* GetLogEntry(i), with the sentinel at index 0.
HasEntry(l, i) == i = 0 \/ \E k \in 1..Len(l) : l[k].index = i
TermAt(l, i)   == IF \E k \in 1..Len(l) : l[k].index = i
                  THEN l[CHOOSE k \in 1..Len(l) : l[k].index = i].term
                  ELSE 0

Larger(a, b)  == IF a < b THEN b ELSE a
Smaller(a, b) == IF a < b THEN a ELSE b

\* Mutant of Majority: half of the cluster is enough.
MajorityHalf  == Cardinality(Nodes) \div 2

Majority      == Cardinality(Nodes) \div 2 + 1
Peers(n)      == Nodes \ {n}

-----------------------------------------------------------------------------
(* What the sockets carry.  A request is live while its caller waits for   *)
(* the reply; SendMessage closes the socket when it gives up, and a        *)
(* request already in the peer's socket buffer may still be handled.       *)

VoteRequest == [type : {"RequestVote"}, src : Nodes, dst : Nodes, live : BOOLEAN,
                term : Nat, lastTerm : Nat, lastIndex : Nat]
AppendRequest == [type : {"AppendEntries"}, src : Nodes, dst : Nodes, live : BOOLEAN,
                  term : Nat, prevIndex : Nat, prevTerm : Nat,
                  entries : Seq(Entry), commit : Nat]
VoteReply == [type : {"RequestVote"}, src : Nodes, dst : Nodes,
              term : Nat, granted : BOOLEAN]
AppendReply == [type : {"AppendEntries"}, src : Nodes, dst : Nodes,
                term : Nat, success : BOOLEAN, match : Nat]

\* The handler of m is done: its reply goes out if the caller still waits.
Answer(m, r) ==
    /\ requests' = requests \ {m}
    /\ replies' = IF m.live THEN replies \cup {r} ELSE replies

\* SendMessage to p ends without a reply: connection refused, lost, or the
\* three second timeout.  The request is gone, or still on its way.
Abandoned(n, p, type) ==
    LET mine == {m \in requests : m.live /\ m.type = type /\ m.src = n /\ m.dst = p}
        late == {[m EXCEPT !.live = FALSE] : m \in mine}
    IN  {requests \ mine} \cup
        IF mine # {} /\ Cardinality({m \in requests : ~ m.live}) < MaxLate
        THEN {(requests \ mine) \cup late} ELSE {}

RpcFails == failures < MaxFailures /\ failures' = failures + 1

\* A reply that comes after that meets a closed socket.
RepliesWithout(n, p, type) ==
    {r \in replies : ~ (r.type = type /\ r.src = p /\ r.dst = n)}

-----------------------------------------------------------------------------
Snapshot    == [index : Nat, term : Nat, data : Seq(Entry)]
NoSnapshot  == [index |-> 0, term |-> 0, data |-> <<>>]
IdleBallot  == [phase |-> "idle", term |-> 0, lastTerm |-> 0, lastIndex |-> 0,
                todo |-> {}, wait |-> Nil]
IdleRound   == [todo |-> {}, wait |-> Nil]
IdleTaking  == [pc |-> "idle", snap |-> NoSnapshot]
NewCall     == [pc |-> "new", node |-> Nil, index |-> 0]

Init ==
    /\ currentTerm = [n \in Nodes |-> 0]
    /\ votedFor = [n \in Nodes |-> Nil]
    /\ log = [n \in Nodes |-> <<>>]
    /\ state = [n \in Nodes |-> "FOLLOWER"]
    /\ leaderId = [n \in Nodes |-> Nil]
    /\ commitIndex = [n \in Nodes |-> 0]
    /\ lastApplied = [n \in Nodes |-> 0]
    /\ applied = [n \in Nodes |-> <<>>]
    /\ nextIndex = [n \in Nodes |-> [p \in Nodes |-> 0]]
    /\ matchIndex = [n \in Nodes |-> [p \in Nodes |-> 0]]
    /\ votesReceived = [n \in Nodes |-> 0]
    /\ snapMeta = [n \in Nodes |-> [index |-> 0, term |-> 0]]
    /\ snapFile = [n \in Nodes |-> NoSnapshot]
    /\ ballot = [n \in Nodes |-> IdleBallot]
    /\ round = [n \in Nodes |-> IdleRound]
    /\ taking = [n \in Nodes |-> IdleTaking]
    /\ call = [v \in Commands |-> NewCall]
    /\ requests = {}
    /\ replies = {}
    /\ restarts = 0
    /\ failures = 0
    /\ heartbeats = 0
    /\ snapshots = 0
    /\ votes = {}
    /\ elected = {}

\* state_mutex_ of n is free: no round of SendHeartbeats is under way.
LockFree(n) == round[n].wait = Nil

-----------------------------------------------------------------------------
(* Committing and applying.                                                *)

\* Mutant of Committable: match_index_ is compared with one entry less.
CommittableEarly(n, match) ==
    {i \in (commitIndex[n] + 1)..LastIndex(log[n]) :
        /\ HasEntry(log[n], i)
        /\ TermAt(log[n], i) = currentTerm[n]
        /\ Cardinality({p \in Peers(n) : match[p] + 1 >= i}) + 1 >= Majority}

\* The log indexes AdvanceCommitIndex may commit, given the replication progress
\* match: a majority holds an entry of the current term there.
Committable(n, match) ==
    {i \in (commitIndex[n] + 1)..LastIndex(log[n]) :
        /\ HasEntry(log[n], i)
        /\ TermAt(log[n], i) = currentTerm[n]
        /\ Cardinality({p \in Peers(n) : match[p] >= i}) + 1 >= Majority}

\* Mutant of CommitTo: last_applied_ moves before the loop that applies.
CommitToSkips(n, i, l) ==
    IF i > commitIndex[n]
    THEN /\ commitIndex' = [commitIndex EXCEPT ![n] = i]
         /\ lastApplied' = [lastApplied EXCEPT ![n] = Larger(@, i)]
         /\ applied' = [applied EXCEPT
                            ![n] = @ \o Above(UpTo(l, i), lastApplied[n] + 1)]
    ELSE UNCHANGED commitVars

\* ApplyCommitted(i): the entries above last_applied_ go to the state machine.
CommitTo(n, i, l) ==
    IF i > commitIndex[n]
    THEN /\ commitIndex' = [commitIndex EXCEPT ![n] = i]
         /\ lastApplied' = [lastApplied EXCEPT ![n] = Larger(@, i)]
         /\ applied' = [applied EXCEPT
                            ![n] = @ \o Above(UpTo(l, i), lastApplied[n])]
    ELSE UNCHANGED commitVars

\* It commits the highest of them.
AdvanceCommitIndex(n, match) ==
    LET now == Committable(n, match)
    IN  IF now = {} THEN UNCHANGED commitVars
        ELSE \E i \in now : /\ \A j \in now : j <= i
                            /\ CommitTo(n, i, log[n])

-----------------------------------------------------------------------------
(* SendHeartbeats, called by the timer thread, by BecomeLeader and by      *)
(* Propose.  The lock is held from the first peer to the last, so a step   *)
(* that starts the round or ends one call also sends the next request.     *)

\* The term of the entry before the new ones, as far as the leader has it.
PrevTerm(n, i) ==
    IF i > snapMeta[n].index THEN TermAt(log[n], i)
    ELSE IF i = snapMeta[n].index THEN snapMeta[n].term ELSE 0

\* The request to p.  The role was checked when the loop began; the term and
\* the progress of p are read again for every peer, after the last reply.
AppendMessage(n, p) ==
    LET prev == nextIndex'[n][p] - 1
    IN  [type |-> "AppendEntries", src |-> n, dst |-> p, live |-> TRUE,
         term |-> currentTerm'[n], prevIndex |-> prev, prevTerm |-> PrevTerm(n, prev),
         entries |-> Above(log[n], prev), commit |-> commitIndex'[n]]

\* The next peer of the loop, or its end, which releases the lock.
ContinueRound(n, todo, sent) ==
    \/ /\ todo = {}
       /\ round' = [round EXCEPT ![n] = IdleRound]
       /\ requests' = sent
    \/ \E p \in todo :
       /\ round' = [round EXCEPT ![n] = [todo |-> todo \ {p}, wait |-> p]]
       /\ requests' = sent \cup {AppendMessage(n, p)}

-----------------------------------------------------------------------------
(* Elections: the timer thread.                                            *)

\* OnElectionTimeout of a node that is not the leader, up to the end of
\* BecomeCandidate.  Only this thread can make the node a leader, so the role
\* it read before BecomeCandidate took the lock is still not LEADER.
BecomeCandidate(n) ==
    /\ ballot[n].phase = "idle"
    /\ LockFree(n)
    /\ state[n] # "LEADER"
    /\ Cardinality({v \in votes : v.voter = v.cand}) < MaxElections
    /\ state' = [state EXCEPT ![n] = "CANDIDATE"]
    /\ currentTerm' = [currentTerm EXCEPT ![n] = @ + 1]
    /\ votedFor' = [votedFor EXCEPT ![n] = n]
    /\ leaderId' = [leaderId EXCEPT ![n] = Nil]
    /\ votesReceived' = [votesReceived EXCEPT ![n] = 1]
    /\ ballot' = [ballot EXCEPT ![n] = [IdleBallot EXCEPT !.phase = "begin", !.todo = Peers(n)]]
    /\ votes' = votes \cup {[voter |-> n, term |-> currentTerm[n] + 1, cand |-> n]}
    /\ UNCHANGED <<log, leaderVars, commitVars, snapVars, round, call, netVars,
                   boundVars, elected>>

\* One turn of the loop of StartElection, which runs without the lock: the
\* request to the next peer goes out, or the loop is over.
ContinueBallot(n, b, sent) ==
    \/ /\ b.todo = {}
       /\ ballot' = [ballot EXCEPT ![n] = [b EXCEPT !.wait = Nil]]
       /\ requests' = sent
    \/ \E p \in b.todo :
       /\ ballot' = [ballot EXCEPT ![n] = [b EXCEPT !.todo = @ \ {p}, !.wait = p]]
       /\ requests' = sent \cup
             {[type |-> "RequestVote", src |-> n, dst |-> p, live |-> TRUE,
               term |-> b.term, lastTerm |-> b.lastTerm, lastIndex |-> b.lastIndex]}

\* StartElection takes the lock again and reads the term and the end of the
\* log; a request handled since BecomeCandidate may have changed them.
StartElection(n) ==
    /\ ballot[n].phase = "begin"
    /\ LockFree(n)
    /\ ContinueBallot(n, [phase |-> "asking", term |-> currentTerm[n],
                          lastTerm |-> LastTerm(log[n]), lastIndex |-> LastIndex(log[n]),
                          todo |-> Peers(n), wait |-> Nil],
                      requests)
    /\ UNCHANGED <<diskVars, electVars, leaderVars, commitVars, snapVars, round,
                   call, replies, boundVars, historyVars>>

RequestVoteTimeout(n) ==
    /\ ballot[n].phase = "asking" /\ ballot[n].wait # Nil
    /\ \E sent \in Abandoned(n, ballot[n].wait, "RequestVote") :
          ContinueBallot(n, ballot[n], sent)
    /\ replies' = RepliesWithout(n, ballot[n].wait, "RequestVote")
    /\ RpcFails
    /\ UNCHANGED <<diskVars, electVars, leaderVars, commitVars, snapVars, round,
                   call, restarts, heartbeats, historyVars>>

\* The peers left when BecomeLeader interrupted the loop are asked after it.
ResumeElection(n) ==
    /\ ballot[n].phase = "asking" /\ ballot[n].wait = Nil /\ ballot[n].todo # {}
    /\ ContinueBallot(n, ballot[n], requests)
    /\ UNCHANGED <<diskVars, electVars, leaderVars, commitVars, snapVars, round,
                   call, replies, boundVars, historyVars>>

\* BecomeLeader, which goes straight into a round of SendHeartbeats: the
\* recursive mutex is kept from here to the end of the round.
BecomeLeader(n) ==
    /\ state' = [state EXCEPT ![n] = "LEADER"]
    /\ leaderId' = [leaderId EXCEPT ![n] = n]
    /\ nextIndex' = [nextIndex EXCEPT
            ![n] = [p \in Nodes |->
                      IF p = n THEN 0
                      ELSE Larger(LastIndex(log[n]), snapMeta[n].index) + 1]]
    /\ matchIndex' = [matchIndex EXCEPT ![n] = [p \in Nodes |-> 0]]
    /\ UNCHANGED <<currentTerm, commitIndex>>
    /\ ContinueRound(n, Peers(n), requests)
    /\ ballot' = [ballot EXCEPT ![n].wait = Nil,
                                ![n].phase = IF Peers(n) = {} THEN @ ELSE "leading"]
    /\ elected' = elected \cup {[node |-> n, term |-> currentTerm[n]]}

\* A higher term in a reply: every role becomes follower of that term.
StepDown(n, term) ==
    /\ currentTerm' = [currentTerm EXCEPT ![n] = term]
    /\ state' = [state EXCEPT ![n] = "FOLLOWER"]
    /\ votedFor' = [votedFor EXCEPT ![n] = Nil]
    /\ leaderId' = [leaderId EXCEPT ![n] = Nil]

\* A vote that counts: asked as a candidate, and for the term still current.
VoteCounts(n, r) ==
    /\ state[n] = "CANDIDATE"
    /\ r.term >= currentTerm[n]
    /\ r.granted

HandleRequestVoteResponse(n, r) ==
    /\ r \in replies /\ r.type = "RequestVote" /\ r.dst = n
    /\ ballot[n].phase = "asking" /\ ballot[n].wait = r.src
    /\ LockFree(n)
    /\ replies' = replies \ {r}
    /\ \/ /\ r.term > currentTerm[n]
          /\ StepDown(n, r.term)
          /\ ContinueBallot(n, ballot[n], requests)
          /\ UNCHANGED <<votesReceived, leaderVars, round, elected>>
       \/ /\ r.term <= currentTerm[n]
          /\ ~ VoteCounts(n, r)
          /\ ContinueBallot(n, ballot[n], requests)
          /\ UNCHANGED <<currentTerm, votedFor, electVars, leaderVars, round,
                         elected>>
       \/ /\ r.term <= currentTerm[n]
          /\ VoteCounts(n, r)
          /\ votesReceived' = [votesReceived EXCEPT ![n] = @ + 1]
          /\ IF votesReceived[n] + 1 >= Majority
             THEN BecomeLeader(n)
             ELSE /\ ContinueBallot(n, ballot[n], requests)
                  /\ UNCHANGED <<state, leaderId, leaderVars, round, elected>>
          /\ UNCHANGED <<currentTerm, votedFor>>
    /\ UNCHANGED <<log, commitVars, snapVars, call, boundVars, votes>>

\* The end of StartElection: a cluster of one node becomes leader here.
FinishElection(n) ==
    /\ ballot[n].phase = "asking" /\ ballot[n].wait = Nil /\ ballot[n].todo = {}
    /\ LockFree(n)
    /\ IF state[n] = "CANDIDATE" /\ votesReceived[n] >= Majority
       THEN BecomeLeader(n)
       ELSE /\ ballot' = [ballot EXCEPT ![n] = IdleBallot]
            /\ UNCHANGED <<state, leaderId, leaderVars, round, requests, elected>>
    /\ UNCHANGED <<diskVars, votesReceived, commitVars, snapVars, call, replies,
                   boundVars, votes>>

-----------------------------------------------------------------------------
(* The RPC loop thread: requests of other nodes.                           *)

\* Mutant of CanVote: voted_for_ is not looked at.
CanVoteTwice(n, m, vote) ==
    \/ m.lastTerm > LastTerm(log[n])
    \/ m.lastTerm = LastTerm(log[n]) /\ m.lastIndex >= LastIndex(log[n])

\* The vote is still free, or already this candidate's, and the candidate's
\* log is not behind; the log of a voter is judged by log_ alone.
CanVote(n, m, vote) ==
    /\ vote \in {Nil, m.src}
    /\ \/ m.lastTerm > LastTerm(log[n])
       \/ m.lastTerm = LastTerm(log[n]) /\ m.lastIndex >= LastIndex(log[n])

HandleRequestVote(n, m) ==
    LET newer == m.term > currentTerm[n]
        vote  == IF newer THEN Nil ELSE votedFor[n]
        grant == m.term >= currentTerm[n] /\ CanVote(n, m, vote)
        term  == IF newer THEN m.term ELSE currentTerm[n]
    IN  /\ m \in requests /\ m.type = "RequestVote" /\ m.dst = n
        /\ LockFree(n)
        /\ currentTerm' = [currentTerm EXCEPT ![n] = term]
        /\ votedFor' = [votedFor EXCEPT ![n] = IF grant THEN m.src ELSE vote]
        /\ state' = [state EXCEPT ![n] = IF newer THEN "FOLLOWER" ELSE @]
        /\ leaderId' = [leaderId EXCEPT ![n] = IF newer THEN Nil ELSE @]
        /\ votes' = IF grant
                    THEN votes \cup {[voter |-> n, term |-> term, cand |-> m.src]}
                    ELSE votes
        /\ Answer(m, [type |-> "RequestVote", src |-> n, dst |-> m.src,
                      term |-> term, granted |-> grant])
        /\ UNCHANGED <<log, votesReceived, leaderVars, commitVars, snapVars,
                       threadVars, call, boundVars, elected>>

\* The follower's log does not reach the entry before the new ones.
PrevMissing(n, m) == m.prevIndex > LastIndex(log[n])

\* It has another entry there.
PrevConflict(n, m) ==
    /\ m.prevIndex >= snapMeta[n].index
    /\ HasEntry(log[n], m.prevIndex)
    /\ TermAt(log[n], m.prevIndex) # m.prevTerm

\* It has compacted that entry into its snapshot.
PrevCompacted(n, m) == m.prevIndex < snapMeta[n].index

\* Mutant of AppendNew: entries the log already has are appended again.
AppendNewTwice(l, entries) == l \o entries

\* An entry is appended only beyond the end of the log: one that is already
\* there under the same index stays, whatever its term.
AppendNew(l, entries) == l \o Above(entries, LastIndex(l))

\* HandleAppendEntries: stale request, missing entry, conflict, compacted
\* entry, success.  The reply to a stale request repeats the match_index of the
\* reply before it; 0 stands for it, since a caller that reads the higher term
\* of this reply looks at nothing else.
HandleAppendEntries(n, m) ==
    LET reply(t, ok, match) ==
            [type |-> "AppendEntries", src |-> n, dst |-> m.src,
             term |-> t, success |-> ok, match |-> match]
    IN  /\ m \in requests /\ m.type = "AppendEntries" /\ m.dst = n
        /\ LockFree(n)
        /\ IF m.term < currentTerm[n]
           THEN /\ Answer(m, reply(currentTerm[n], FALSE, 0))
                /\ UNCHANGED <<diskVars, state, leaderId, commitVars>>
           ELSE /\ currentTerm' = [currentTerm EXCEPT ![n] = m.term]
                /\ votedFor' = [votedFor EXCEPT
                        ![n] = IF m.term > currentTerm[n] THEN Nil ELSE @]
                /\ leaderId' = [leaderId EXCEPT ![n] = m.src]
                /\ state' = [state EXCEPT ![n] = "FOLLOWER"]
                /\ \/ /\ PrevMissing(n, m)
                      /\ Answer(m, reply(m.term, FALSE, LastIndex(log[n])))
                      /\ UNCHANGED <<log, commitVars>>
                   \/ /\ ~ PrevMissing(n, m)
                      /\ PrevConflict(n, m)
                      /\ log' = [log EXCEPT ![n] = UpTo(@, m.prevIndex - 1)]
                      /\ Answer(m, reply(m.term, FALSE,
                                         LastIndex(UpTo(log[n], m.prevIndex - 1))))
                      /\ UNCHANGED commitVars
                   \/ /\ ~ PrevMissing(n, m)
                      /\ PrevCompacted(n, m)
                      /\ Answer(m, reply(m.term, FALSE, snapMeta[n].index))
                      /\ UNCHANGED <<log, commitVars>>
                   \/ /\ ~ PrevMissing(n, m)
                      /\ ~ PrevConflict(n, m)
                      /\ ~ PrevCompacted(n, m)
                      /\ LET l == AppendNew(log[n], m.entries)
                         IN  /\ log' = [log EXCEPT ![n] = l]
                             /\ CommitTo(n, Smaller(m.commit, LastIndex(l)), l)
                             /\ Answer(m, reply(m.term, TRUE, LastIndex(l)))
        /\ UNCHANGED <<votesReceived, leaderVars, snapVars, threadVars, call,
                       boundVars, historyVars>>

-----------------------------------------------------------------------------
(* Replication: the rest of SendHeartbeats.                                *)

\* OnElectionTimeout of a leader.
HeartbeatTimeout(n) ==
    /\ ballot[n].phase = "idle"
    /\ LockFree(n)
    /\ state[n] = "LEADER"
    /\ heartbeats < MaxHeartbeats
    /\ heartbeats' = heartbeats + 1
    /\ UNCHANGED <<diskVars, electVars, leaderVars, commitVars, snapVars, ballot,
                   call, replies, restarts, failures, historyVars>>
    /\ ContinueRound(n, Peers(n), requests)

\* When the round that BecomeLeader started is over, its thread is back in the
\* loop of StartElection.
ReturnToBallot(n) ==
    ballot' = [ballot EXCEPT
        ![n].phase = IF @ = "leading" /\ round[n].todo = {} THEN "asking" ELSE @]

\* Mutant of AppendEntriesTimeout: the socket has no timeout.
AppendEntriesTimeoutMissing(n) == FALSE /\ UNCHANGED vars

AppendEntriesTimeout(n) ==
    /\ round[n].wait # Nil
    /\ replies' = RepliesWithout(n, round[n].wait, "AppendEntries")
    /\ ReturnToBallot(n)
    /\ RpcFails
    /\ UNCHANGED <<diskVars, electVars, leaderVars, commitVars, snapVars, call,
                   restarts, heartbeats, historyVars>>
    /\ \E sent \in Abandoned(n, round[n].wait, "AppendEntries") :
          ContinueRound(n, round[n].todo, sent)

\* Mutant of BackOff: one entry before the reported match, unbounded.
BackOffTooFar(n, match) == Larger(match - 1, snapMeta[n].index - 1)

\* Where the leader resumes after a refusal: not before its own snapshot.
BackOff(n, match) == Larger(match + 1, snapMeta[n].index + 1)

HandleAppendEntriesResponse(n, r) ==
    /\ r \in replies /\ r.type = "AppendEntries" /\ r.dst = n
    /\ round[n].wait = r.src
    /\ replies' = replies \ {r}
    /\ ReturnToBallot(n)
    /\ \/ /\ r.term > currentTerm[n]
          /\ StepDown(n, r.term)
          /\ UNCHANGED <<leaderVars, commitVars>>
       \/ /\ r.term <= currentTerm[n]
          /\ state[n] # "LEADER"
          /\ UNCHANGED <<currentTerm, votedFor, state, leaderId, leaderVars, commitVars>>
       \/ /\ r.term <= currentTerm[n]
          /\ state[n] = "LEADER"
          /\ r.success
          /\ matchIndex' = [matchIndex EXCEPT ![n][r.src] = r.match]
          /\ nextIndex' = [nextIndex EXCEPT ![n][r.src] = r.match + 1]
          /\ AdvanceCommitIndex(n, [matchIndex[n] EXCEPT ![r.src] = r.match])
          /\ UNCHANGED <<currentTerm, votedFor, state, leaderId>>
       \/ /\ r.term <= currentTerm[n]
          /\ state[n] = "LEADER"
          /\ ~ r.success
          /\ nextIndex' = [nextIndex EXCEPT
                ![n][r.src] = IF r.match < @ THEN BackOff(n, r.match) ELSE @]
          /\ UNCHANGED <<currentTerm, votedFor, state, leaderId, matchIndex, commitVars>>
    /\ UNCHANGED <<log, votesReceived, snapVars, call, boundVars, historyVars>>
    /\ ContinueRound(n, round[n].todo, requests)

-----------------------------------------------------------------------------
(* Propose: one client worker per command.                                 *)

CallAt(v, n, pc) == call[v].node = n /\ call[v].pc = pc

\* Mutant of MayPropose: the role is not checked.
MayProposeAlways(n) == TRUE

\* Only a leader takes a write; any other role names the leader it knows and
\* changes nothing, and the client may ask another node.
MayPropose(n) == state[n] = "LEADER"

Propose(n, v) ==
    LET entry == [term |-> currentTerm[n], index |-> LastIndex(log[n]) + 1, cmd |-> v]
    IN  /\ call[v].pc = "new"
        /\ LockFree(n)
        /\ MayPropose(n)
        /\ log' = [log EXCEPT ![n] = Append(@, entry)]
        /\ nextIndex' = [nextIndex EXCEPT ![n][n] = entry.index + 1]
        /\ matchIndex' = [matchIndex EXCEPT ![n][n] = entry.index]
        /\ call' = [call EXCEPT
                ![v] = [pc |-> "appended", node |-> n, index |-> entry.index]]
        /\ UNCHANGED <<currentTerm, votedFor, electVars, commitVars, snapVars,
                       threadVars, netVars, boundVars, historyVars>>

\* The second critical section of Propose does not look at the role again.
ProposeAdvance(n, v) ==
    /\ CallAt(v, n, "appended")
    /\ LockFree(n)
    /\ AdvanceCommitIndex(n, matchIndex[n])
    /\ call' = [call EXCEPT ![v].pc = "advanced"]
    /\ UNCHANGED <<diskVars, electVars, leaderVars, snapVars, threadVars, netVars,
                   boundVars, historyVars>>

\* SendHeartbeats returns at once if the node is no longer the leader.
ProposeSend(n, v) ==
    /\ CallAt(v, n, "advanced")
    /\ LockFree(n)
    /\ call' = [call EXCEPT ![v].pc = "sent"]
    /\ UNCHANGED <<diskVars, electVars, leaderVars, commitVars, snapVars, ballot,
                   replies, boundVars, historyVars>>
    /\ IF state[n] = "LEADER" THEN ContinueRound(n, Peers(n), requests)
                              ELSE UNCHANGED <<round, requests>>

\* One turn of the waiting loop: committed, deposed, or to sleep.
ProposeCheck(n, v) ==
    /\ CallAt(v, n, "sent") \/ CallAt(v, n, "asleep")
    /\ LockFree(n)
    /\ call' = [call EXCEPT
            ![v].pc = IF commitIndex[n] >= call[v].index THEN "committed"
                      ELSE IF state[n] # "LEADER" THEN "failed" ELSE "asleep"]
    /\ UNCHANGED <<diskVars, electVars, leaderVars, commitVars, snapVars, threadVars,
                   netVars, boundVars, historyVars>>

\* wait_until reaches the deadline: the call fails without another look.
ProposeTimeout(n, v) ==
    /\ CallAt(v, n, "asleep")
    /\ call' = [call EXCEPT ![v].pc = "failed"]
    /\ UNCHANGED <<diskVars, electVars, leaderVars, commitVars, snapVars, threadVars,
                   netVars, boundVars, historyVars>>

-----------------------------------------------------------------------------
(* TakeSnapshot: the health thread, in four steps.                         *)

\* The health thread asks for the role first; nothing checks it again.
SnapshotDecide(n) ==
    /\ taking[n].pc = "idle"
    /\ snapshots < MaxSnapshots
    /\ LockFree(n)
    /\ state[n] = "LEADER"
    /\ taking' = [taking EXCEPT ![n].pc = "decided"]
    /\ UNCHANGED <<diskVars, electVars, leaderVars, commitVars, snapMeta, snapFile,
                   snapshots, threadVars, call, netVars, boundVars, historyVars>>

\* Under the lock: what the state machine holds and the index it reflects, if
\* the log is long enough and something was applied since the last snapshot.
SnapshotCapture(n) ==
    /\ taking[n].pc = "decided"
    /\ LockFree(n)
    /\ IF Len(log[n]) > SnapshotThreshold /\ lastApplied[n] > snapMeta[n].index
       THEN /\ taking' = [taking EXCEPT
                 ![n] = [pc |-> "captured",
                         snap |-> [index |-> lastApplied[n],
                                   term |-> IF HasEntry(log[n], lastApplied[n])
                                            THEN TermAt(log[n], lastApplied[n])
                                            ELSE currentTerm[n],
                                   data |-> applied[n]]]]
            /\ snapshots' = snapshots + 1
       ELSE /\ taking' = [taking EXCEPT ![n] = IdleTaking]
            /\ UNCHANGED snapshots
    /\ UNCHANGED <<diskVars, electVars, leaderVars, commitVars, snapMeta, snapFile,
                   threadVars, call, netVars, boundVars, historyVars>>

\* Mutant of SnapshotPublish: the temporary file is not renamed.
SnapshotPublishTmp(n) ==
    /\ taking[n].pc = "captured"
    /\ taking' = [taking EXCEPT ![n].pc = "published"]
    /\ UNCHANGED <<diskVars, electVars, leaderVars, commitVars, snapMeta, snapFile, snapshots,
                   threadVars, call, netVars, boundVars, historyVars>>

\* Without the lock: the temporary file is renamed over raft_snapshot.dat.
SnapshotPublish(n) ==
    /\ taking[n].pc = "captured"
    /\ snapFile' = [snapFile EXCEPT ![n] = taking[n].snap]
    /\ taking' = [taking EXCEPT ![n].pc = "published"]
    /\ UNCHANGED <<diskVars, electVars, leaderVars, commitVars, snapMeta, snapshots,
                   threadVars, call, netVars, boundVars, historyVars>>

\* Under the lock again: the entries the snapshot covers leave the log.
SnapshotTrim(n) ==
    /\ taking[n].pc = "published"
    /\ LockFree(n)
    /\ snapMeta' = [snapMeta EXCEPT
            ![n] = [index |-> taking[n].snap.index, term |-> taking[n].snap.term]]
    /\ log' = [log EXCEPT ![n] = Above(@, taking[n].snap.index)]
    /\ taking' = [taking EXCEPT ![n] = IdleTaking]
    /\ UNCHANGED <<currentTerm, votedFor, electVars, leaderVars, commitVars, snapFile,
                   snapshots, threadVars, call, netVars, boundVars, historyVars>>

-----------------------------------------------------------------------------
(* Crash and restart: Start with RestoreState and RestoreFromSnapshot.     *)

\* Mutant of RestoredVote: voted_for_ is not restored.
RestoredVoteForgotten(n) == Nil

\* raft_state.dat as RestoreState reads it back.
RestoredVote(n) == votedFor[n]

\* commit_index_ and last_applied_ are set to the end of the log, or to the
\* snapshot if that is further; the state machine gets the snapshot only.
RestoredCommit(n, l) == Larger(LastIndex(l), snapFile[n].index)

RestoredSnapshot(n) == [index |-> snapFile[n].index, term |-> snapFile[n].term]

\* Everything a process that restarts with the given raft_state.dat forgets.
StartFrom(n, term, vote, l) ==
    LET mine == {m \in requests : m.src = n /\ m.live}
    IN  /\ restarts < MaxRestarts
        /\ restarts' = restarts + 1
        /\ currentTerm' = [currentTerm EXCEPT ![n] = term]
        /\ votedFor' = [votedFor EXCEPT ![n] = vote]
        /\ log' = [log EXCEPT ![n] = l]
        /\ state' = [state EXCEPT ![n] = "FOLLOWER"]
        /\ leaderId' = [leaderId EXCEPT ![n] = Nil]
        /\ votesReceived' = [votesReceived EXCEPT ![n] = 0]
        /\ commitIndex' = [commitIndex EXCEPT ![n] = RestoredCommit(n, l)]
        /\ lastApplied' = [lastApplied EXCEPT ![n] = RestoredCommit(n, l)]
        /\ applied' = [applied EXCEPT ![n] = snapFile[n].data]
        /\ nextIndex' = [nextIndex EXCEPT ![n] = [p \in Nodes |-> 0]]
        /\ matchIndex' = [matchIndex EXCEPT ![n] = [p \in Nodes |-> 0]]
        /\ snapMeta' = [snapMeta EXCEPT ![n] = RestoredSnapshot(n)]
        /\ ballot' = [ballot EXCEPT ![n] = IdleBallot]
        /\ round' = [round EXCEPT ![n] = IdleRound]
        /\ taking' = [taking EXCEPT ![n] = IdleTaking]
        /\ call' = [v \in Commands |->
                IF call[v].node = n /\ call[v].pc # "committed"
                THEN [call[v] EXCEPT !.pc = "failed"] ELSE call[v]]
        /\ replies' = {r \in replies : r.dst # n /\ r.src # n}
        /\ \E late \in SUBSET mine :
              /\ Cardinality({m \in requests : ~ m.live}) + Cardinality(late) <= MaxLate
              /\ requests' = {m \in requests : m.dst # n /\ m \notin mine}
                                \cup {[m EXCEPT !.live = FALSE] : m \in late}
        /\ UNCHANGED <<snapFile, snapshots, failures, heartbeats, votes, elected>>

\* The crash comes between two calls of PersistState, whose write is taken as atomic.
Restart(n) == StartFrom(n, currentTerm[n], RestoredVote(n), log[n])

-----------------------------------------------------------------------------
Next ==
    \/ \E n \in Nodes :
        \/ BecomeCandidate(n)
        \/ StartElection(n)
        \/ RequestVoteTimeout(n)
        \/ ResumeElection(n)
        \/ \E r \in replies : HandleRequestVoteResponse(n, r)
        \/ FinishElection(n)
        \/ \E m \in requests : HandleRequestVote(n, m)
        \/ \E m \in requests : HandleAppendEntries(n, m)
        \/ HeartbeatTimeout(n)
        \/ AppendEntriesTimeout(n)
        \/ \E r \in replies : HandleAppendEntriesResponse(n, r)
        \/ SnapshotDecide(n)
        \/ SnapshotCapture(n)
        \/ SnapshotPublish(n)
        \/ SnapshotTrim(n)
        \/ Restart(n)
    \/ \E n \in Nodes, v \in Commands :
        \/ Propose(n, v)
        \/ ProposeAdvance(n, v)
        \/ ProposeSend(n, v)
        \/ ProposeCheck(n, v)
        \/ ProposeTimeout(n, v)

Spec == Init /\ [][Next]_vars

\* The timer thread is scheduled, gets state_mutex_ when that is free, and a
\* SendMessage ends within its three second socket timeout.  Nothing is assumed
\* of the peers: they may never answer.
TimerFairness(n) ==
    /\ WF_vars(StartElection(n))
    /\ WF_vars(RequestVoteTimeout(n))
    /\ WF_vars(ResumeElection(n))
    /\ WF_vars(FinishElection(n))
    /\ WF_vars(AppendEntriesTimeout(n))

FairSpec == Spec /\ \A n \in Nodes : TimerFairness(n)

-----------------------------------------------------------------------------
(* Properties.                                                             *)

\* Every variable keeps its type; prevIndex of a request is a natural number,
\* so next_idx - 1 in SendHeartbeats never wraps below zero.
TypeOK ==
    /\ currentTerm \in [Nodes -> Nat]
    /\ votedFor \in [Nodes -> Nodes \cup {Nil}]
    /\ log \in [Nodes -> Seq(Entry)]
    /\ state \in [Nodes -> {"FOLLOWER", "CANDIDATE", "LEADER"}]
    /\ leaderId \in [Nodes -> Nodes \cup {Nil}]
    /\ commitIndex \in [Nodes -> Nat]
    /\ lastApplied \in [Nodes -> Nat]
    /\ applied \in [Nodes -> Seq(Entry)]
    /\ nextIndex \in [Nodes -> [Nodes -> Nat]]
    /\ matchIndex \in [Nodes -> [Nodes -> Nat]]
    /\ votesReceived \in [Nodes -> Nat]
    /\ snapMeta \in [Nodes -> [index : Nat, term : Nat]]
    /\ snapFile \in [Nodes -> Snapshot]
    /\ ballot \in [Nodes -> [phase : {"idle", "begin", "asking", "leading"},
                             term : Nat, lastTerm : Nat, lastIndex : Nat,
                             todo : SUBSET Nodes, wait : Nodes \cup {Nil}]]
    /\ round \in [Nodes -> [todo : SUBSET Nodes, wait : Nodes \cup {Nil}]]
    /\ taking \in [Nodes -> [pc : {"idle", "decided", "captured", "published"}, snap : Snapshot]]
    /\ call \in [Commands -> [pc : {"new", "appended", "advanced", "sent", "asleep",
                                    "committed", "failed"},
                              node : Nodes \cup {Nil}, index : Nat]]
    /\ requests \in SUBSET (VoteRequest \cup AppendRequest)
    /\ replies \in SUBSET (VoteReply \cup AppendReply)
    /\ restarts \in Nat
    /\ failures \in Nat
    /\ heartbeats \in Nat
    /\ snapshots \in Nat
    /\ votes \in SUBSET [voter : Nodes, term : Nat, cand : Nodes]
    /\ elected \in SUBSET [node : Nodes, term : Nat]

\* No two nodes ever become leader of the same term (BecomeLeader), across
\* lost, late and repeated requests and restarts.
ElectionSafety ==
    \A a, b \in elected : a.term = b.term => a.node = b.node

\* A node votes for at most one candidate in a term, even across a restart
\* (HandleRequestVote, BecomeCandidate, PersistState).
OneVotePerTerm ==
    \A a, b \in votes : a.voter = b.voter /\ a.term = b.term => a.cand = b.cand

\* The persisted term never goes back, and a vote once cast stays for as long
\* as the term does.
VoteStays ==
    \A n \in Nodes :
        /\ currentTerm[n] <= currentTerm'[n]
        /\ currentTerm[n] = currentTerm'[n] /\ votedFor[n] # Nil
              => votedFor'[n] = votedFor[n]

\* No step of any handler, timer or restart takes a term or a vote back
\* (HandleRequestVote, HandleAppendEntries, RestoreState).
VoteIsFinal == [][VoteStays]_<<currentTerm, votedFor>>

\* Two logs never hold different commands under one term and index: only the
\* one leader of a term numbers the entries of that term (Propose).
OneCommandPerSlot ==
    \A n, p \in Nodes :
        \A j \in 1..Len(log[n]), k \in 1..Len(log[p]) :
            log[n][j].term = log[p][k].term /\ log[n][j].index = log[p][k].index
                => log[n][j].cmd = log[p][k].cmd

\* Without snapshots a log has no hole and no repeated index, whatever late or
\* refused AppendEntries it received.
LogContiguous ==
    \A n \in Nodes : \A k \in 1..Len(log[n]) : log[n][k].index = k

\* The timer thread always comes back from an election, and state_mutex_ from a
\* round of heartbeats, even when nodes inside SendHeartbeats call each other
\* and none can run the handler the other one waits for.
ElectionReturns ==
    \A n \in Nodes : /\ ballot[n].phase # "idle" ~> ballot[n].phase = "idle"
                     /\ ~ LockFree(n) ~> LockFree(n)

\* commit_index_ of a leader is confirmed by a majority: the entry it committed
\* in its own term is in the log of a majority of the nodes.
CommittedOnMajority ==
    \A n \in Nodes : \A k \in 1..Len(log[n]) :
        LET e == log[n][k]
        IN  state[n] = "LEADER" /\ e.index <= commitIndex[n] /\ e.term = currentTerm[n]
              => Cardinality({p \in Nodes :
                    \E j \in 1..Len(log[p]) : log[p][j] = e}) >= Majority

\* last_applied_ is the highest entry the state machine was really given.
AppliedReachedStateMachine ==
    \A n \in Nodes : \A k \in 1..Len(log[n]) :
        log[n][k].index <= lastApplied[n]
            => \E j \in 1..Len(applied[n]) : applied[n][j] = log[n][k]

\* What the state machine was given can be recovered: an applied entry is in the
\* log on disk or in raft_snapshot.dat, between any two steps of TakeSnapshot,
\* under changes of leader and after a restart (TakeSnapshot, RestoreFromSnapshot).
AppliedIsDurable ==
    \A n \in Nodes : \A j \in 1..Len(applied[n]) :
        \/ \E k \in 1..Len(log[n]) : log[n][k] = applied[n][j]
        \/ \E k \in 1..Len(snapFile[n].data) : snapFile[n].data[k] = applied[n][j]

\* A write reported as committed is on a majority of the nodes, in the log or
\* in the state machine.
AckedOnMajority ==
    \A v \in Commands :
        call[v].pc = "committed"
            => Cardinality({p \in Nodes :
                    \/ \E j \in 1..Len(log[p]) : log[p][j].cmd = v
                    \/ \E j \in 1..Len(applied[p]) : applied[p][j].cmd = v}) >= Majority

-----------------------------------------------------------------------------
(* The inductive invariant behind ElectionSafety.                          *)

\* A vote is for a term the voter has reached, and votedFor is the vote of the
\* current term.
VotesAreRecorded ==
    \A v \in votes :
        /\ v.term <= currentTerm[v.voter]
        /\ v.term = currentTerm[v.voter] => votedFor[v.voter] = v.cand

\* A reply that grants a vote stands for a vote that was cast.
GrantsAreVotes ==
    \A r \in replies :
        r.type = "RequestVote" /\ r.granted
            => [voter |-> r.src, term |-> r.term, cand |-> r.dst] \in votes

\* The voters of n in its current term whose reply is no longer outstanding.
Supporters(n) ==
    {q \in Nodes : /\ q \notin ballot[n].todo
                   /\ q # ballot[n].wait
                   /\ [voter |-> q, term |-> currentTerm[n], cand |-> n] \in votes}

\* votes_received_ of a candidate counts no vote twice.
CountIsBacked ==
    \A n \in Nodes :
        state[n] = "CANDIDATE" => votesReceived[n] <= Cardinality(Supporters(n))

\* The peer the loop of StartElection waits for is not asked again, and no peer
\* was asked before the loop began.
BallotShape ==
    \A n \in Nodes :
        /\ ballot[n].wait \notin ballot[n].todo
        /\ ballot[n].phase = "begin" => Peers(n) \subseteq ballot[n].todo

VotersOf(e) == {q \in Nodes : [voter |-> q, term |-> e.term, cand |-> e.node] \in votes}

\* A leader was elected by a majority.
ElectedByMajority == \A e \in elected : Cardinality(VotersOf(e)) >= Majority

\* A leader's next_index_ for every peer is at least 1, also while the loop of
\* SendHeartbeats goes on after a step-down.
NextIndexPositive ==
    \A n \in Nodes :
        /\ n \notin round[n].todo
        /\ state[n] = "LEADER" \/ ~ LockFree(n)
              => \A p \in Peers(n) : nextIndex[n][p] >= 1

ElectionInv ==
    /\ OneVotePerTerm
    /\ VotesAreRecorded
    /\ GrantsAreVotes
    /\ BallotShape
    /\ CountIsBacked
    /\ ElectedByMajority
=============================================================================
