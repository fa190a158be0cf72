------------------------------ MODULE RaftNode ------------------------------
(***************************************************************************)
(* A cluster of RaftNode objects (raft/node.py): elections, log            *)
(* replication, commitment and client commands, over RPCs that are lost,   *)
(* reordered or answered after their caller gave up (raft/rpc.py), with    *)
(* nodes that are stopped, brought back and added (tests/harness.py,       *)
(* monitor.py).                                                            *)
(*                                                                         *)
(* asyncio runs one callback at a time, so a stretch of code between two   *)
(* awaits is one action: the handlers, which never await, are atomic, and  *)
(* a coroutine that awaits an RPC continues in the action that takes the   *)
(* reply.  One RPC is one TCP connection.  It is a request record, whose   *)
(* field awaited says that the caller still waits; then, if it does, a     *)
(* reply record; and it ends when the caller continues.                    *)
(***************************************************************************)
EXTENDS RaftLog, FiniteSetsExt

CONSTANTS
    Node,           \* the node ids, those that may be added included
    Initial,        \* the node sets a cluster may be started with
    None,           \* voted_for and leader_id when there is none
    Contenders,     \* bound: the nodes whose election timer may expire
    Killable,       \* bound: the nodes that may be stopped
    MaxTerm,        \* bound: no election is started beyond this term
    MaxLogLength,   \* bound: no command is accepted beyond this index
    MaxCommands,    \* bound: execute_command calls in progress
    MaxLate,        \* bound: requests in flight whose caller has timed out
    MaxInFlight,    \* bound: requests and replies in flight whose caller
                    \* still waits
    MaxAdds         \* bound: add_node calls

ASSUME NodeAssumption == IsFiniteSet(Node) /\ None \notin Node

ASSUME BoundAssumption ==
    /\ Contenders \subseteq Node /\ Killable \subseteq Node
    /\ MaxTerm \in Nat /\ MaxLogLength \in Nat
    /\ MaxCommands \in Nat /\ MaxLate \in Nat /\ MaxInFlight \in Nat
    /\ MaxAdds \in Nat

ASSUME InitialAssumption == Initial \subseteq SUBSET Node

Follower == "FOLLOWER"
Candidate == "CANDIDATE"
Leader == "LEADER"
Role == {Follower, Candidate, Leader}

\* The coroutine an AppendEntries call belongs to: the heartbeat loop of a
\* term, or the execute_command call named by the entry it submitted.
HeartbeatTask(term) == LogEntry(0, term)

VARIABLES
    members,        \* node_ids of the cluster: a node's peers are the others
    running,        \* _is_running of the node's object
    role, leaderId,
    currentTerm, votedFor, log,             \* the persistent RaftState
    commitIndex, lastApplied,
    applied,        \* the entries applied to kv_store, in order
    nextIndex, matchIndex,
    votesGranted,   \* votes_granted of the node's latest start_election
    electorate,     \* the members it counted total_nodes and quorum from
    commands,       \* the execute_command calls in progress
    voteRequests, voteReplies, appendRequests, appendReplies,
    \* History, read by properties only (and by the bound on add_node).
    memberships,    \* all that members has been
    voters,         \* whom votesGranted counts
    votesCast,      \* <<voter, term, candidate>> of every vote given
    elected,        \* <<term, node>> of every become_leader
    accepted,       \* <<node, entry>>: stored while in the entry's own term
    acked           \* the entries of the commands that returned True

clusterVars == <<members, memberships, running>>
roleVars == <<clusterVars, role, leaderId>>
termVars == <<currentTerm, votedFor>>
commitVars == <<commitIndex, lastApplied, applied>>
leaderVars == <<nextIndex, matchIndex>>
tallyVars == <<votesGranted, electorate, voters>>
clientVars == <<commands, acked>>
voteCalls == <<voteRequests, voteReplies>>
appendCalls == <<appendRequests, appendReplies>>
logVars == <<log, accepted>>
historyVars == <<votesCast, elected>>
nodeVars == <<roleVars, termVars, logVars, commitVars, leaderVars, tallyVars>>

vars == <<nodeVars, clientVars, voteCalls, appendCalls, historyVars>>

Peers(n) == members \ {n}
Quorum == QuorumSize(members)

-----------------------------------------------------------------------------
\* The RPCs

VoteRequest == [from : Node, to : Node, term : Nat, lastLogIndex : Nat,
                lastLogTerm : Nat, awaited : BOOLEAN]

\* callTerm is the election_term of the coroutine that awaits the reply.
VoteReply == [from : Node, to : Node, callTerm : Nat, term : Nat,
              voteGranted : BOOLEAN]

AppendRequest == [from : Node, to : Node, task : Entry, term : Nat,
                  prevLogIndex : Nat, prevLogTerm : Nat,
                  entries : Seq(Entry), leaderCommit : Nat, awaited : BOOLEAN]

AppendReply == [from : Node, to : Node, task : Entry, callTerm : Nat,
                term : Nat, success : BOOLEAN, matchIndex : Nat]

AnswerVote(m, term, granted) ==
    /\ voteRequests' = voteRequests \ {m}
    /\ voteReplies' = voteReplies \cup
         {r \in {[from |-> m.to, to |-> m.from, callTerm |-> m.term,
                  term |-> term, voteGranted |-> granted]} : m.awaited}

AnswerAppend(m, term, success, match) ==
    /\ appendRequests' = appendRequests \ {m}
    /\ appendReplies' = appendReplies \cup
         {r \in {[from |-> m.to, to |-> m.from, task |-> m.task,
                  callTerm |-> m.term, term |-> term, success |-> success,
                  matchIndex |-> match]} : m.awaited}

\* next_index.get(peer, last_log_index + 1): 0 stands for a missing key.
NextIndex(n, p, l) ==
    IF nextIndex[n][p] = 0 THEN LastLogIndex(l) + 1 ELSE nextIndex[n][p]

\* replicate_to_peer for every peer, up to its await.
Replicate(n, task, l) ==
    {[from |-> n, to |-> p, task |-> task, term |-> currentTerm[n],
      prevLogIndex |-> NextIndex(n, p, l) - 1,
      prevLogTerm |-> PrevTerm(l, NextIndex(n, p, l) - 1),
      entries |-> EntriesAfter(l, NextIndex(n, p, l) - 1),
      leaderCommit |-> commitIndex[n], awaited |-> TRUE] : p \in Peers(n)}

\* gather has not yet returned in start_election, or in the broadcast of task.
ElectionInProgress(n) ==
    \/ \E m \in voteRequests : m.from = n /\ m.awaited
    \/ \E r \in voteReplies : r.to = n

Broadcasting(n, task) ==
    \/ \E m \in appendRequests : m.from = n /\ m.task = task /\ m.awaited
    \/ \E r \in appendReplies : r.to = n /\ r.task = task

Late == {m \in voteRequests : ~m.awaited}
            \cup {m \in appendRequests : ~m.awaited}

Awaited == {m \in voteRequests : m.awaited} \cup voteReplies
             \cup {m \in appendRequests : m.awaited} \cup appendReplies

\* A node sends to all its peers at once.
RoomToSend(n) ==
    Cardinality(Awaited) + Cardinality(Peers(n)) <= MaxInFlight

GiveUp(S, m) == (S \ {m}) \cup {[m EXCEPT !.awaited = FALSE]}

-----------------------------------------------------------------------------
Init ==
    /\ members \in Initial
    /\ memberships = {members}
    /\ running = [n \in Node |-> n \in members]
    /\ role = [n \in Node |-> Follower]
    /\ leaderId = [n \in Node |-> None]
    /\ currentTerm = [n \in Node |-> 0]
    /\ votedFor = [n \in Node |-> None]
    /\ log = [n \in Node |-> NoEntries]
    /\ commitIndex = [n \in Node |-> 0]
    /\ lastApplied = [n \in Node |-> 0]
    /\ applied = [n \in Node |-> NoEntries]
    /\ nextIndex = [n \in Node |-> [p \in Node |-> 0]]
    /\ matchIndex = [n \in Node |-> [p \in Node |-> 0]]
    /\ votesGranted = [n \in Node |-> 0]
    /\ electorate = [n \in Node |-> {}]
    /\ voters = [n \in Node |-> {}]
    /\ commands = {} /\ acked = {}
    /\ voteRequests = {} /\ voteReplies = {}
    /\ appendRequests = {} /\ appendReplies = {}
    /\ votesCast = {} /\ elected = {} /\ accepted = {}

-----------------------------------------------------------------------------
\* Role changes and commitment

\* Mutant: become_follower forgets to change the role.
BecomeFollowerKeepingRole(n, term) ==
    /\ currentTerm' = [currentTerm EXCEPT ![n] = term]
    /\ votedFor' = [votedFor EXCEPT ![n] =
                      IF term > currentTerm[n] THEN None ELSE @]
    /\ role' = role

BecomeFollower(n, term) ==
    /\ currentTerm' = [currentTerm EXCEPT ![n] = term]
    /\ votedFor' = [votedFor EXCEPT ![n] =
                      IF term > currentTerm[n] THEN None ELSE @]
    /\ role' = [role EXCEPT ![n] = Follower]

\* Mutant: become_candidate forgets voted_for.
BecomeCandidateNotVoting(n) ==
    /\ currentTerm' = [currentTerm EXCEPT ![n] = @ + 1]
    /\ votedFor' = [votedFor EXCEPT ![n] = None]
    /\ votesCast' = votesCast \cup {<<n, currentTerm[n] + 1, n>>}
    /\ votesGranted' = [votesGranted EXCEPT ![n] = 1]
    /\ electorate' = [electorate EXCEPT ![n] = members]
    /\ voters' = [voters EXCEPT ![n] = {n}]

BecomeCandidate(n) ==
    /\ currentTerm' = [currentTerm EXCEPT ![n] = @ + 1]
    /\ votedFor' = [votedFor EXCEPT ![n] = n]
    /\ votesCast' = votesCast \cup {<<n, currentTerm[n] + 1, n>>}
    /\ votesGranted' = [votesGranted EXCEPT ![n] = 1]
    /\ electorate' = [electorate EXCEPT ![n] = members]
    /\ voters' = [voters EXCEPT ![n] = {n}]

\* Mutant: match_index starts below every index, at -1.
BecomeLeaderMatchingNone(n, term) ==
    /\ role' = [role EXCEPT ![n] = Leader]
    /\ leaderId' = [leaderId EXCEPT ![n] = n]
    /\ nextIndex' = [nextIndex EXCEPT ![n] =
                       [p \in Node |-> IF p \in Peers(n)
                                       THEN LastLogIndex(log[n]) + 1 ELSE 0]]
    /\ matchIndex' = [matchIndex EXCEPT ![n] = [p \in Node |-> -1]]
    /\ elected' = elected \cup {<<term, n>>}

BecomeLeader(n, term) ==
    /\ role' = [role EXCEPT ![n] = Leader]
    /\ leaderId' = [leaderId EXCEPT ![n] = n]
    /\ nextIndex' = [nextIndex EXCEPT ![n] =
                       [p \in Node |-> IF p \in Peers(n)
                                       THEN LastLogIndex(log[n]) + 1 ELSE 0]]
    /\ matchIndex' = [matchIndex EXCEPT ![n] = [p \in Node |-> 0]]
    /\ elected' = elected \cup {<<term, n>>}

\* Mutant: the apply loop takes the last place for one beyond the log.
CommitAndApplyNotLast(n, l, c) ==
    /\ commitIndex' = [commitIndex EXCEPT ![n] = c]
    /\ lastApplied' = [lastApplied EXCEPT ![n] = IF c > @ THEN c ELSE @]
    /\ applied' = [applied EXCEPT ![n] =
                     @ \o SubSeq(l, lastApplied[n] + 1,
                                 IF c < Len(l) THEN c ELSE Len(l) - 1)]

\* Assign commit_index and apply up to it, reading the log l.
CommitAndApply(n, l, c) ==
    /\ commitIndex' = [commitIndex EXCEPT ![n] = c]
    /\ lastApplied' = [lastApplied EXCEPT ![n] = IF c > @ THEN c ELSE @]
    /\ applied' = [applied EXCEPT ![n] =
                     @ \o SubSeq(l, lastApplied[n] + 1,
                                 IF c <= Len(l) THEN c ELSE Len(l))]

\* Mutant: without the term check of Section 5.4.2.
CommittableOfAnyTerm(n, match) ==
    {i \in (commitIndex[n] + 1) .. LastLogIndex(log[n]) :
        Cardinality({p \in Peers(n) : match[p] >= i}) + 1 >= Quorum}

\* The indices check_advance_commit_index accepts with the given match_index.
Committable(n, match) ==
    {i \in (commitIndex[n] + 1) .. LastLogIndex(log[n]) :
        /\ log[n][i].term = currentTerm[n]
        /\ Cardinality({p \in Peers(n) : match[p] >= i}) + 1 >= Quorum}

AdvancedCommit(n, match) ==
    IF Committable(n, match) = {} THEN commitIndex[n]
                                  ELSE Max(Committable(n, match))

-----------------------------------------------------------------------------
\* Elections

CanStartElection(n) ==
    /\ n \in Contenders
    /\ running[n] /\ role[n] # Leader
    /\ ~ElectionInProgress(n)
    /\ currentTerm[n] < MaxTerm

\* The election timer expires: start_election up to its await.
StartElection(n) ==
    /\ CanStartElection(n)
    /\ Quorum > 1
    /\ RoomToSend(n)
    /\ BecomeCandidate(n)
    /\ role' = [role EXCEPT ![n] = Candidate]
    /\ leaderId' = [leaderId EXCEPT ![n] = None]
    /\ voteRequests' = voteRequests \cup
         {[from |-> n, to |-> p, term |-> currentTerm[n] + 1,
           lastLogIndex |-> LastLogIndex(log[n]),
           lastLogTerm |-> LastLogTerm(log[n]), awaited |-> TRUE]
          : p \in Peers(n)}
    /\ UNCHANGED <<clusterVars, logVars, commitVars, leaderVars, clientVars,
                   voteReplies, appendCalls, elected>>

\* Single-node cluster: the candidate's own vote is a quorum.
StartElectionAlone(n) ==
    /\ CanStartElection(n)
    /\ Quorum <= 1
    /\ BecomeCandidate(n)
    /\ BecomeLeader(n, currentTerm[n] + 1)
    /\ UNCHANGED <<clusterVars, logVars, commitVars, clientVars, voteCalls,
                   appendCalls>>

HandleRequestVote(m) ==
    LET n == m.to
        term == IF m.term > currentTerm[n] THEN m.term ELSE currentTerm[n]
        vote == IF m.term > currentTerm[n] THEN None ELSE votedFor[n]
        granted == /\ m.term = term
                   /\ vote \in {None, m.from}
                   /\ IsLogUpToDate(m.lastLogTerm, m.lastLogIndex, log[n])
    IN  /\ running[n]
        /\ currentTerm' = [currentTerm EXCEPT ![n] = term]
        /\ role' = [role EXCEPT ![n] =
                      IF m.term > currentTerm[n] THEN Follower ELSE @]
        /\ votedFor' = [votedFor EXCEPT ![n] =
                          IF granted THEN m.from ELSE vote]
        /\ votesCast' = IF granted THEN votesCast \cup {<<n, term, m.from>>}
                                   ELSE votesCast
        /\ AnswerVote(m, term, granted)
        /\ UNCHANGED <<clusterVars, leaderId, logVars, commitVars, leaderVars,
                       tallyVars, clientVars, appendCalls, elected>>

\* request_vote_from_peer continues only while this election is on.
ElectionGoesOn(r) ==
    running[r.to] /\ role[r.to] = Candidate /\ currentTerm[r.to] = r.callTerm

GrantsVote(r) == r.term = r.callTerm /\ r.voteGranted

VoteReplyIgnored(r) ==
    /\ ElectionGoesOn(r) => r.term <= currentTerm[r.to] /\ ~GrantsVote(r)
    /\ voteReplies' = voteReplies \ {r}
    /\ UNCHANGED <<nodeVars, clientVars, voteRequests, appendCalls, historyVars>>

VoteReplyStepDown(r) ==
    /\ ElectionGoesOn(r)
    /\ r.term > currentTerm[r.to]
    /\ BecomeFollower(r.to, r.term)
    /\ voteReplies' = voteReplies \ {r}
    /\ UNCHANGED <<clusterVars, leaderId, logVars, commitVars, leaderVars, tallyVars,
                   clientVars, voteRequests, appendCalls, historyVars>>

VoteReplyCounted(r) ==
    LET n == r.to
    IN  /\ ElectionGoesOn(r)
        /\ GrantsVote(r)
        /\ votesGranted' = [votesGranted EXCEPT ![n] = @ + 1]
        /\ voters' = [voters EXCEPT ![n] = @ \cup {r.from}]
        /\ IF votesGranted[n] + 1 >= QuorumSize(electorate[n])
           THEN BecomeLeader(n, currentTerm[n])
           ELSE UNCHANGED <<role, leaderId, leaderVars, elected>>
        /\ voteReplies' = voteReplies \ {r}
        /\ UNCHANGED <<clusterVars, electorate, termVars, logVars, commitVars, clientVars,
                       voteRequests, appendCalls, votesCast>>

-----------------------------------------------------------------------------
\* Replication

\* One round of the heartbeat loop.
Heartbeat(n) ==
    /\ running[n] /\ role[n] = Leader
    /\ RoomToSend(n)
    /\ ~Broadcasting(n, HeartbeatTask(currentTerm[n]))
    /\ appendRequests' = appendRequests \cup
         Replicate(n, HeartbeatTask(currentTerm[n]), log[n])
    /\ UNCHANGED <<nodeVars, clientVars, voteCalls, appendReplies, historyVars>>

RejectStaleAppend(m) ==
    /\ running[m.to]
    /\ m.term < currentTerm[m.to]
    /\ AnswerAppend(m, currentTerm[m.to], FALSE, LastLogIndex(log[m.to]))
    /\ UNCHANGED <<nodeVars, clientVars, voteCalls, historyVars>>

\* What an AppendEntries of the current or a higher term always does.
FollowLeader(m) ==
    /\ running[m.to]
    /\ m.term >= currentTerm[m.to]
    /\ BecomeFollower(m.to, m.term)
    /\ leaderId' = [leaderId EXCEPT ![m.to] = m.from]
    /\ UNCHANGED <<clusterVars, leaderVars, tallyVars, clientVars, voteCalls,
                   historyVars>>

RejectAppend(m) ==
    /\ FollowLeader(m)
    /\ ~MatchesPrev(log[m.to], m.prevLogIndex, m.prevLogTerm)
    /\ AnswerAppend(m, m.term, FALSE, LastLogIndex(log[m.to]))
    /\ UNCHANGED <<logVars, commitVars>>

\* Mutant: cuts the log at the request's start before it appends.
LogAfterCuttingFirst(m) ==
    SubSeq(log[m.to], 1, m.prevLogIndex) \o m.entries

\* What an accepted request leaves in the log.
LogAfter(m) == AppendLoop(log[m.to], m.entries)

AcceptAppend(m) ==
    LET n == m.to
        newLog == LogAfter(m)
        last == LastLogIndex(newLog)
    IN  /\ FollowLeader(m)
        /\ MatchesPrev(log[n], m.prevLogIndex, m.prevLogTerm)
        /\ log' = [log EXCEPT ![n] = newLog]
        /\ accepted' = accepted \cup
             {<<n, e>> : e \in {x \in Range(m.entries) : x.term = m.term}}
        /\ IF m.leaderCommit > commitIndex[n]
           THEN CommitAndApply(n, newLog, IF m.leaderCommit <= last
                                          THEN m.leaderCommit ELSE last)
           ELSE UNCHANGED commitVars
        /\ AnswerAppend(m, m.term, TRUE, last)

\* replicate_to_peer continues only while it speaks for the leader.
StillLeading(r) ==
    running[r.to] /\ role[r.to] = Leader /\ currentTerm[r.to] = r.callTerm

AppendReplyIgnored(r) ==
    /\ ~StillLeading(r)
    /\ appendReplies' = appendReplies \ {r}
    /\ UNCHANGED <<nodeVars, clientVars, voteCalls, appendRequests, historyVars>>

AppendReplyStepDown(r) ==
    /\ StillLeading(r)
    /\ r.term > currentTerm[r.to]
    /\ BecomeFollower(r.to, r.term)
    /\ appendReplies' = appendReplies \ {r}
    /\ UNCHANGED <<clusterVars, leaderId, logVars, commitVars, leaderVars, tallyVars,
                   clientVars, voteCalls, appendRequests, historyVars>>

AppendReplySuccess(r) ==
    LET n == r.to
        p == r.from
        match == [matchIndex[n] EXCEPT ![p] =
                    IF r.matchIndex > @ THEN r.matchIndex ELSE @]
    IN  /\ StillLeading(r)
        /\ r.term <= currentTerm[n]
        /\ r.success
        /\ matchIndex' = [matchIndex EXCEPT ![n] = match]
        /\ nextIndex' = [nextIndex EXCEPT ![n][p] = match[p] + 1]
        /\ CommitAndApply(n, log[n], AdvancedCommit(n, match))
        /\ appendReplies' = appendReplies \ {r}
        /\ UNCHANGED <<roleVars, termVars, logVars, tallyVars, clientVars,
                       voteCalls, appendRequests, historyVars>>

\* Mutant: next_index stays where the follower rejected it.
AppendReplyFailureKeepingNext(r) ==
    /\ StillLeading(r)
    /\ r.term <= currentTerm[r.to]
    /\ ~r.success
    /\ appendReplies' = appendReplies \ {r}
    /\ UNCHANGED <<nodeVars, clientVars, voteCalls, appendRequests, historyVars>>

AppendReplyFailure(r) ==
    /\ StillLeading(r)
    /\ r.term <= currentTerm[r.to]
    /\ ~r.success
    /\ nextIndex' = [nextIndex EXCEPT ![r.to][r.from] =
                       IF @ > 1 THEN @ - 1 ELSE 1]
    /\ appendReplies' = appendReplies \ {r}
    /\ UNCHANGED <<roleVars, termVars, logVars, commitVars, matchIndex, tallyVars,
                   clientVars, voteCalls, appendRequests, historyVars>>

-----------------------------------------------------------------------------
\* Client commands: execute_command

\* A call in progress: phase is the await it is suspended at ("replicate"
\* and "announce" for the broadcasts before and after the commit, "sleep"
\* between two rounds); live is FALSE once its node object was stopped.
Command == [node : Node, entry : Entry, live : BOOLEAN,
            phase : {"replicate", "sleep", "announce"}]

AcceptsCommand(n) ==
    /\ running[n] /\ role[n] = Leader
    /\ LastLogIndex(log[n]) < MaxLogLength
    /\ Cardinality(commands) < MaxCommands

\* Mutant: numbers a command after the committed ones.
NewEntryAfterCommitted(n) == LogEntry(commitIndex[n] + 1, currentTerm[n])

NewEntry(n) == LogEntry(LastLogIndex(log[n]) + 1, currentTerm[n])

\* execute_command up to its first await.
ExecuteCommand(n) ==
    /\ AcceptsCommand(n)
    /\ Peers(n) # {}
    /\ RoomToSend(n)
    /\ log' = [log EXCEPT ![n] = Append(@, NewEntry(n))]
    /\ accepted' = accepted \cup {<<n, NewEntry(n)>>}
    /\ commands' = commands \cup {[node |-> n, entry |-> NewEntry(n),
                                   phase |-> "replicate", live |-> TRUE]}
    /\ appendRequests' = appendRequests
                            \cup Replicate(n, NewEntry(n), log'[n])
    /\ UNCHANGED <<roleVars, termVars, commitVars, leaderVars, tallyVars,
                   acked, voteCalls, appendReplies, historyVars>>

\* Standalone cluster (0 peers): committed and answered at once.
ExecuteCommandAlone(n) ==
    /\ AcceptsCommand(n)
    /\ Peers(n) = {}
    /\ log' = [log EXCEPT ![n] = Append(@, NewEntry(n))]
    /\ accepted' = accepted \cup {<<n, NewEntry(n)>>}
    /\ CommitAndApply(n, log'[n], NewEntry(n).index)
    /\ acked' = acked \cup {NewEntry(n)}
    /\ UNCHANGED <<roleVars, termVars, leaderVars, tallyVars, commands,
                   voteCalls, appendCalls, historyVars>>

Leads(c) == c.live /\ running[c.node] /\ role[c.node] = Leader

BroadcastDone(c) == ~Broadcasting(c.node, c.entry)

MoveCommand(c, phase) ==
    commands' = (commands \ {c}) \cup {[c EXCEPT !.phase = phase]}

\* broadcast_append_entries on behalf of c, a no-op unless c's node leads.
BroadcastFor(c) ==
    appendRequests' = appendRequests \cup
        {m \in Replicate(c.node, c.entry, log[c.node]) : Leads(c)}

\* The loop's test of its deadline and role, and one more broadcast.
CommandRetry(c) ==
    /\ c.phase = "sleep"
    /\ Leads(c)
    /\ RoomToSend(c.node)
    /\ MoveCommand(c, "replicate")
    /\ BroadcastFor(c)
    /\ UNCHANGED <<nodeVars, acked, voteCalls, appendReplies, historyVars>>

\* The broadcast returned and the commit index covers the command's index.
CommandCommitted(c) ==
    /\ c.phase = "replicate"
    /\ BroadcastDone(c)
    /\ commitIndex[c.node] >= c.entry.index
    /\ Leads(c) => RoomToSend(c.node)
    /\ MoveCommand(c, "announce")
    /\ BroadcastFor(c)
    /\ UNCHANGED <<nodeVars, acked, voteCalls, appendReplies, historyVars>>

CommandPending(c) ==
    /\ c.phase = "replicate"
    /\ BroadcastDone(c)
    /\ commitIndex[c.node] < c.entry.index
    /\ MoveCommand(c, "sleep")
    /\ UNCHANGED <<nodeVars, acked, voteCalls, appendCalls, historyVars>>

\* The call returns True, and False: the deadline passed, or the node no
\* longer leads.
ReturnTrue(c) ==
    /\ c.phase = "announce"
    /\ BroadcastDone(c)
    /\ commands' = commands \ {c}
    /\ acked' = acked \cup {c.entry}

\* Mutant: without the test of the deadline.
ReturnFalseIfDeposed(c) ==
    /\ c.phase = "sleep"
    /\ ~Leads(c)
    /\ commands' = commands \ {c}
    /\ UNCHANGED acked

ReturnFalse(c) ==
    /\ c.phase = "sleep"
    /\ commands' = commands \ {c}
    /\ UNCHANGED acked

CommandReturns(c) ==
    /\ ReturnTrue(c) \/ ReturnFalse(c)
    /\ UNCHANGED <<nodeVars, voteCalls, appendCalls, historyVars>>

-----------------------------------------------------------------------------
\* The network: call_rpc returns None

\* The request never arrives: connection refused, severed link, timeout.
LoseVoteRequest(m) ==
    /\ voteRequests' = voteRequests \ {m}
    /\ UNCHANGED <<nodeVars, clientVars, voteReplies, appendCalls, historyVars>>

LoseVoteReply(r) ==
    /\ voteReplies' = voteReplies \ {r}
    /\ UNCHANGED <<nodeVars, clientVars, voteRequests, appendCalls, historyVars>>

LoseAppendRequest(m) ==
    /\ appendRequests' = appendRequests \ {m}
    /\ UNCHANGED <<nodeVars, clientVars, voteCalls, appendReplies, historyVars>>

LoseAppendReply(r) ==
    /\ appendReplies' = appendReplies \ {r}
    /\ UNCHANGED <<nodeVars, clientVars, voteCalls, appendRequests, historyVars>>

\* The caller times out first; the request is handled later or lost.
VoteCallTimesOut(m) ==
    /\ m.awaited
    /\ Cardinality(Late) < MaxLate
    /\ voteRequests' = GiveUp(voteRequests, m)
    /\ UNCHANGED <<nodeVars, clientVars, voteReplies, appendCalls, historyVars>>

AppendCallTimesOut(m) ==
    /\ m.awaited
    /\ Cardinality(Late) < MaxLate
    /\ appendRequests' = GiveUp(appendRequests, m)
    /\ UNCHANGED <<nodeVars, clientVars, voteCalls, appendReplies, historyVars>>

-----------------------------------------------------------------------------
\* Lifecycle

\* stop(): the node's tasks are cancelled and their calls go unsent or
\* unread.  A request already on the wire is one that timed out just before.
Stop(n) ==
    /\ n \in Killable
    /\ running[n]
    /\ running' = [running EXCEPT ![n] = FALSE]
    /\ voteRequests' = {m \in voteRequests : m.from = n => ~m.awaited}
    /\ appendRequests' = {m \in appendRequests : m.from = n => ~m.awaited}
    /\ voteReplies' = {r \in voteReplies : r.to # n}
    /\ appendReplies' = {r \in appendReplies : r.to # n}
    /\ commands' = {[c EXCEPT !.live = @ /\ c.node # n] : c \in commands}
    /\ UNCHANGED <<members, memberships, role, leaderId, termVars, logVars,
                   commitVars, leaderVars, tallyVars, acked, historyVars>>

\* A new object takes the node's place.
Reborn(n) ==
    /\ n \in members
    /\ ~running[n]
    /\ running' = [running EXCEPT ![n] = TRUE]
    /\ role' = [role EXCEPT ![n] = Follower]
    /\ leaderId' = [leaderId EXCEPT ![n] = None]
    /\ UNCHANGED <<members, memberships>>

\* revive_node: the new object is given the old one's RaftState.
Revive(n) ==
    /\ Reborn(n)
    /\ UNCHANGED <<termVars, logVars, commitVars, leaderVars, tallyVars,
                   clientVars, voteCalls, appendCalls, historyVars>>

\* Mutant: recovery does not restore voted_for.
RestartForgettingVote(n) ==
    /\ Reborn(n)
    /\ votedFor' = [votedFor EXCEPT ![n] = None]
    /\ commitIndex' = [commitIndex EXCEPT ![n] = 0]
    /\ lastApplied' = [lastApplied EXCEPT ![n] = 0]
    /\ applied' = [applied EXCEPT ![n] = NoEntries]
    /\ commands' = {c \in commands : c.node # n}
    /\ UNCHANGED <<currentTerm, logVars, leaderVars, tallyVars, acked, voteCalls,
                   appendCalls, historyVars>>

\* Mutant: recovery does not restore the log.
RestartForgettingLog(n) ==
    /\ Reborn(n)
    /\ log' = [log EXCEPT ![n] = NoEntries]
    /\ commitIndex' = [commitIndex EXCEPT ![n] = 0]
    /\ lastApplied' = [lastApplied EXCEPT ![n] = 0]
    /\ applied' = [applied EXCEPT ![n] = NoEntries]
    /\ commands' = {c \in commands : c.node # n}
    /\ UNCHANGED <<termVars, accepted, leaderVars, tallyVars, acked, voteCalls,
                   appendCalls, historyVars>>

\* Mutant: kv_store starts empty but last_applied keeps its value.
RestartSkippingApply(n) ==
    /\ Reborn(n)
    /\ applied' = [applied EXCEPT ![n] = NoEntries]
    /\ commands' = {c \in commands : c.node # n}
    /\ UNCHANGED <<termVars, logVars, commitIndex, lastApplied, leaderVars,
                   tallyVars, acked, voteCalls, appendCalls, historyVars>>

\* A new process: a fresh RaftState that takes term, vote and log from the
\* WAL; the client calls of the old process are gone.
Restart(n) ==
    /\ Reborn(n)
    /\ commitIndex' = [commitIndex EXCEPT ![n] = 0]
    /\ lastApplied' = [lastApplied EXCEPT ![n] = 0]
    /\ applied' = [applied EXCEPT ![n] = NoEntries]
    /\ nextIndex' = [nextIndex EXCEPT ![n] = [p \in Node |-> 0]]
    /\ matchIndex' = [matchIndex EXCEPT ![n] = [p \in Node |-> 0]]
    /\ commands' = {c \in commands : c.node # n}
    /\ UNCHANGED <<termVars, logVars, tallyVars, acked, voteCalls, appendCalls,
                   historyVars>>

\* add_node: a new node with an empty state joins every peer list at once.
AddNode(n) ==
    /\ n \notin members
    /\ Cardinality(memberships) <= MaxAdds
    /\ members' = members \cup {n}
    /\ memberships' = memberships \cup {members \cup {n}}
    /\ running' = [running EXCEPT ![n] = TRUE]
    /\ UNCHANGED <<role, leaderId, termVars, logVars, commitVars, leaderVars,
                   tallyVars, clientVars, voteCalls, appendCalls, historyVars>>

-----------------------------------------------------------------------------
NodeStep(n) ==
    \/ StartElection(n) \/ StartElectionAlone(n)
    \/ Heartbeat(n)
    \/ ExecuteCommand(n) \/ ExecuteCommandAlone(n)
    \/ Stop(n) \/ Revive(n) \/ Restart(n) \/ AddNode(n)

VoteRequestStep(m) ==
    HandleRequestVote(m) \/ LoseVoteRequest(m) \/ VoteCallTimesOut(m)

VoteReplyStep(r) ==
    \/ VoteReplyIgnored(r) \/ VoteReplyStepDown(r) \/ VoteReplyCounted(r)
    \/ LoseVoteReply(r)

AppendRequestStep(m) ==
    \/ RejectStaleAppend(m) \/ RejectAppend(m) \/ AcceptAppend(m)
    \/ LoseAppendRequest(m) \/ AppendCallTimesOut(m)

AppendReplyStep(r) ==
    \/ AppendReplyIgnored(r) \/ AppendReplyStepDown(r)
    \/ AppendReplySuccess(r) \/ AppendReplyFailure(r)
    \/ LoseAppendReply(r)

CommandStep(c) ==
    \/ CommandRetry(c) \/ CommandCommitted(c) \/ CommandPending(c)
    \/ CommandReturns(c)

Next ==
    \/ \E n \in Node : NodeStep(n)
    \/ \E m \in voteRequests : VoteRequestStep(m)
    \/ \E r \in voteReplies : VoteReplyStep(r)
    \/ \E m \in appendRequests : AppendRequestStep(m)
    \/ \E r \in appendReplies : AppendReplyStep(r)
    \/ \E c \in commands : CommandStep(c)

Spec == Init /\ [][Next]_vars

-----------------------------------------------------------------------------
\* Correctness

TypeOK ==
    /\ members \in memberships /\ memberships \subseteq SUBSET Node
    /\ running \in [Node -> BOOLEAN]
    /\ role \in [Node -> Role]
    /\ leaderId \in [Node -> Node \cup {None}]
    /\ currentTerm \in [Node -> Nat]
    /\ votedFor \in [Node -> Node \cup {None}]
    /\ log \in [Node -> Seq(Entry)]
    /\ commitIndex \in [Node -> Nat]
    /\ lastApplied \in [Node -> Nat]
    /\ applied \in [Node -> Seq(Entry)]
    /\ nextIndex \in [Node -> [Node -> Nat]]
    /\ matchIndex \in [Node -> [Node -> Nat]]
    /\ votesGranted \in [Node -> Nat]
    /\ electorate \in [Node -> SUBSET Node]
    /\ voters \in [Node -> SUBSET Node]
    /\ commands \subseteq Command
    /\ voteRequests \subseteq VoteRequest
    /\ voteReplies \subseteq VoteReply
    /\ appendRequests \subseteq AppendRequest
    /\ appendReplies \subseteq AppendReply
    /\ votesCast \subseteq Node \X Nat \X Node
    /\ elected \subseteq Nat \X Node
    /\ accepted \subseteq Node \X Entry
    /\ acked \subseteq Entry

\* At most one node ever becomes the leader of a term, whatever votes were
\* lost, late or repeated and however nodes were stopped and brought back.
ElectionSafety ==
    \A a, b \in elected : a[1] = b[1] => a[2] = b[2]

\* A node never votes for two candidates of one term, over all its lives.
OneVotePerTerm ==
    \A a, b \in votesCast : a[1] = b[1] /\ a[2] = b[2] => a[3] = b[3]

\* If two logs have an entry of one term at one index, they agree on every
\* entry up to it.
LogMatching ==
    \A a, b \in Node : \A i \in DOMAIN log[a] \cap DOMAIN log[b] :
        log[a][i].term = log[b][i].term =>
            \A j \in 1 .. i : log[a][j] = log[b][j]

Stores(n, e) == e.index \in DOMAIN log[n] /\ log[n][e.index] = e

\* What makes an entry safe to commit: a quorum of the cluster, as it was at
\* some time, stored it in its own term.
Chosen == {e \in {a[2] : a \in accepted} : \E C \in memberships :
             Cardinality({n \in C : <<n, e>> \in accepted}) >= QuorumSize(C)}

\* A leader of a later term has every entry that a quorum stored in the
\* entry's own term: the vote restriction and the conflict rule lose none.
LeaderCompleteness ==
    \A n \in Node : role[n] = Leader =>
        \A e \in Chosen : e.term < currentTerm[n] => Stores(n, e)

\* No node that stored such an entry ever drops it again, whatever older
\* request it handles behind the newer one.
ChosenIsKept ==
    \A n \in Node : \A e \in Chosen : <<n, e>> \in accepted => Stores(n, e)

\* The index an entry carries is its place in the log: the code uses the
\* last entry's index and the log's length for one another.
IndexIsPosition == \A n \in Node : Positioned(log[n])

\* The apply loop never meets an index beyond the log: every index counted
\* in last_applied was applied to kv_store.
NoSkippedApply == \A n \in Node : Len(applied[n]) = lastApplied[n]

\* A leader never drops or changes an entry of its log while it leads.
LeaderAppendOnly ==
    [][\A n \in Node :
          role[n] = Leader /\ role'[n] = Leader =>
              /\ Len(log[n]) <= Len(log'[n])
              /\ SubSeq(log'[n], 1, Len(log[n])) = log[n]]_vars

\* Section 5.4.2: a leader with peers moves its commit index only to an
\* entry of its own term.
LeaderCommitsOwnTerm ==
    [][\A n \in Node :
          role[n] = Leader /\ role'[n] = Leader
             /\ commitIndex'[n] # commitIndex[n] =>
              log'[n][commitIndex'[n]].term = currentTerm[n]]_vars

\* check_advance_commit_index counts "replicated quorums": what a leader has
\* committed is in the logs of a quorum.
CommittedByQuorum ==
    \A n \in Node : role[n] = Leader =>
        \A i \in 1 .. commitIndex[n] :
            Cardinality({p \in members : Stores(p, log[n][i])}) >= Quorum

\* execute_command: "True if the command was successfully committed".
AckedIsCommitted ==
    \A e \in acked : \E n \in Node : e.index <= commitIndex[n] /\ Stores(n, e)

\* A node that is the whole cluster answers a command at once: it keeps every
\* one it answered, over all its lives.
AloneKeepsAcked ==
    \A n \in Node : members = {n} => \A e \in acked : Stores(n, e)
=============================================================================
