------------------------------ MODULE RaftRead ------------------------------
(***************************************************************************)
(* The cluster of RaftNode with calls of linearizable_read (raft/node.py). *)
(* A leader that has committed nothing of its term first submits a NOOP    *)
(* command; then it takes its commit index for the read index, confirms    *)
(* its leadership with empty AppendEntries to every peer, and answers from *)
(* its state machine.                                                      *)
(*                                                                         *)
(* The pings travel with the other AppendEntries calls: the handlers of    *)
(* RaftNode answer them.  A read of a node that is stopped comes to        *)
(* nothing.                                                                *)
(***************************************************************************)
EXTENDS RaftNode

CONSTANTS
    Readers,        \* bound: the nodes that are asked to read
    MaxReads        \* bound: reads in progress and different outcomes

ASSUME ReadAssumption == Readers \subseteq Node /\ MaxReads \in Nat

\* The coroutine a ping belongs to.  No heartbeat loop has term 0.
PingTask == LogEntry(0, 0)

VARIABLES
    reads,          \* the linearizable_read calls in progress
    \* History, read by properties only.
    outcomes        \* what the calls returned

readVars == <<reads, outcomes>>
allVars == <<vars, readVars>>

\* phase is the await a call is suspended at: of execute_command ("noop"), or
\* of the next ping to be over ("confirm").
Read == [node : Node, phase : {"noop", "confirm"}, noop : Entry,
         readIndex : Nat, quorum : Nat, successCount : Nat,
         covered : BOOLEAN, before : SUBSET Entry]

\* What a call returns: failure, or what kv_store holds when the call resumes,
\* which is what the entries applied to it make of it.  replaced tells of which
\* of them the log has lost since.
Outcome == [success : {FALSE}]
             \cup [success : {TRUE}, before : SUBSET Entry, covered : BOOLEAN,
                   value : Seq(Entry), replaced : SUBSET Nat]

\* Mutant: the read index starts below every index, at -1.
NewReadBelowAll(n) == [node |-> n, phase |-> "noop", noop |-> NewEntry(n),
                       readIndex |-> -1, quorum |-> 0, successCount |-> 0,
                       covered |-> FALSE, before |-> acked \cap Chosen]

\* before and covered are what the properties tell reads apart by: the
\* commands that had been answered, with a quorum behind them, when the read
\* began; and whether the read index covers an entry of the leader's term.
NewRead(n) == [node |-> n, phase |-> "noop", noop |-> NewEntry(n),
               readIndex |-> 0, quorum |-> 0, successCount |-> 0,
               covered |-> FALSE, before |-> acked \cap Chosen]

ReadInit == Init /\ reads = {} /\ outcomes = {}

-----------------------------------------------------------------------------
HasCommittedCurrentTerm(n) ==
    \E i \in DOMAIN log[n] : /\ i <= commitIndex[n]
                             /\ log[n][i].term = currentTerm[n]

\* ping_peer for every peer, up to its await.
Pings(n) ==
    {[from |-> n, to |-> p, task |-> PingTask, term |-> currentTerm[n],
      prevLogIndex |-> LastLogIndex(log[n]), prevLogTerm |-> LastLogTerm(log[n]),
      entries |-> NoEntries, leaderCommit |-> commitIndex[n],
      awaited |-> TRUE] : p \in Peers(n)}

\* Mutant: half of the nodes are enough.
HalfOfTheNodes == QuorumSize(members) - 1

ConfirmQuorum == QuorumSize(members)

\* The read index is taken and confirm_leadership runs up to its await.
Confirm(rd) ==
    LET n == rd.node
    IN  /\ RoomToSend(n)
        \* bound: one read of a node confirms at a time, with its own pings
        /\ ~Broadcasting(n, PingTask)
        /\ \A o \in reads : o.node = n => o.phase = "noop"
        /\ reads' = (reads \ {rd}) \cup
             {[rd EXCEPT !.phase = "confirm", !.readIndex = commitIndex[n],
                         !.quorum = ConfirmQuorum, !.successCount = 1,
                         !.covered = HasCommittedCurrentTerm(n)]}
        /\ appendRequests' = appendRequests \cup Pings(n)

MayRead(n) ==
    /\ n \in Readers
    /\ running[n] /\ role[n] = Leader
    /\ Cardinality(reads) + Cardinality(outcomes) < MaxReads
    /\ Peers(n) # {} => acked \cap Chosen # {} \* bound: else nothing to miss

BeginRead(n) ==
    /\ MayRead(n)
    /\ Peers(n) # {}
    /\ HasCommittedCurrentTerm(n)
    /\ Confirm(NewRead(n))
    /\ UNCHANGED <<nodeVars, clientVars, voteCalls, appendReplies, historyVars,
                   outcomes>>

BeginReadWithNoop(n) ==
    /\ MayRead(n)
    /\ ~HasCommittedCurrentTerm(n)
    /\ ExecuteCommand(n)
    /\ reads' = reads \cup {NewRead(n)}
    /\ UNCHANGED outcomes

\* The indices where n applied an entry that its log does not have any more.
Replaced(n) ==
    {i \in DOMAIN applied[n] : ~(i \in DOMAIN log[n] /\ log[n][i] = applied[n][i])}

Answer(rd) == [success |-> TRUE, before |-> rd.before, covered |-> rd.covered,
               value |-> applied[rd.node], replaced |-> Replaced(rd.node)]

Return(rd, outcome) ==
    /\ reads' = reads \ {rd}
    /\ outcomes' = outcomes \cup {outcome}

Fail(rd) == Return(rd, [success |-> FALSE])

WaitsFor(rd, c) == rd.phase = "noop" /\ rd.node = c.node /\ rd.noop = c.entry

\* execute_command returned, and the read goes on whatever it returned.
NoopReturns(c, rd) ==
    /\ WaitsFor(rd, c)
    /\ ReturnTrue(c) \/ ReturnFalse(c)
    /\ IF role[rd.node] = Leader
       THEN Confirm(rd)
            /\ UNCHANGED outcomes
       ELSE Fail(rd) /\ UNCHANGED appendRequests
    /\ UNCHANGED <<nodeVars, voteCalls, appendReplies, historyVars>>

\* A cluster of one node: nothing is awaited.
ReadAlone(n) ==
    /\ MayRead(n)
    /\ Peers(n) = {}
    /\ \/ /\ HasCommittedCurrentTerm(n)
          /\ UNCHANGED vars
       \/ /\ ~HasCommittedCurrentTerm(n)
          /\ ExecuteCommandAlone(n)
    /\ outcomes' = outcomes \cup
         {[success |-> TRUE, before |-> acked \cap Chosen,
           covered |-> HasCommittedCurrentTerm(n)',
           value |-> applied'[n], replaced |-> Replaced(n)']}
    /\ UNCHANGED reads

-----------------------------------------------------------------------------
\* ping_peer continues.  The checks are those of replicate_to_peer, but what a
\* follower's log holds is not taken from the reply.
PingSucceeds(r) ==
    /\ StillLeading(r)
    /\ r.term <= currentTerm[r.to]
    /\ r.success
    /\ reads' = {IF rd.node = r.to /\ rd.phase = "confirm"
                 THEN [rd EXCEPT !.successCount = @ + 1] ELSE rd : rd \in reads}
    /\ appendReplies' = appendReplies \ {r}
    /\ UNCHANGED <<nodeVars, clientVars, voteCalls, appendRequests, historyVars,
                   outcomes>>

PingFails(r) ==
    /\ StillLeading(r)
    /\ r.term <= currentTerm[r.to]
    /\ ~r.success
    /\ appendReplies' = appendReplies \ {r}
    /\ UNCHANGED <<nodeVars, clientVars, voteCalls, appendRequests, historyVars,
                   readVars>>

\* The reader resumes some time after the ping that completed its quorum.
ReadReturns(rd) ==
    /\ rd.phase = "confirm"
    /\ rd.successCount >= rd.quorum
    /\ lastApplied[rd.node] >= rd.readIndex
    /\ Return(rd, Answer(rd))
    /\ UNCHANGED vars

\* Every ping is over and too few succeeded.
ReadFails(rd) ==
    /\ rd.phase = "confirm"
    /\ rd.successCount < rd.quorum
    /\ ~Broadcasting(rd.node, PingTask)
    /\ Fail(rd)
    /\ UNCHANGED vars

-----------------------------------------------------------------------------
\* The actions of RaftNode, next to a read: a stop ends the node's reads, and
\* only NoopReturns ends the command that a read waits for.
NodeStepWithReads(n) ==
    /\ NodeStep(n)
    /\ reads' = {rd \in reads : running'[rd.node]}
    /\ UNCHANGED outcomes

CommandStepWithReads(c) ==
    /\ CommandStep(c)
    /\ \A rd \in reads : WaitsFor(rd, c) => \E d \in commands' : WaitsFor(rd, d)
    /\ UNCHANGED readVars

PingReplyStep(r) ==
    \/ PingSucceeds(r) \/ PingFails(r)
    \/ /\ AppendReplyIgnored(r) \/ AppendReplyStepDown(r) \/ LoseAppendReply(r)
       /\ UNCHANGED readVars

ReadNext ==
    \/ \E n \in Node : \/ NodeStepWithReads(n)
                       \/ BeginRead(n) \/ BeginReadWithNoop(n) \/ ReadAlone(n)
    \/ \E m \in voteRequests : VoteRequestStep(m) /\ UNCHANGED readVars
    \/ \E r \in voteReplies : VoteReplyStep(r) /\ UNCHANGED readVars
    \/ \E m \in appendRequests : AppendRequestStep(m) /\ UNCHANGED readVars
    \/ \E r \in appendReplies : \/ /\ r.task # PingTask
                                   /\ AppendReplyStep(r)
                                   /\ UNCHANGED readVars
                                \/ /\ r.task = PingTask
                                   /\ PingReplyStep(r)
    \/ \E c \in commands : \/ CommandStepWithReads(c)
                           \/ \E rd \in reads : NoopReturns(c, rd)
    \/ \E rd \in reads : ReadReturns(rd) \/ ReadFails(rd)

ReadSpec == ReadInit /\ [][ReadNext]_allVars

-----------------------------------------------------------------------------
\* Correctness

ReadTypeOK ==
    /\ reads \subseteq Read
    /\ outcomes \subseteq Outcome

\* The commands answered before the read began, and stored by a quorum, that the
\* state machine it answered from has not applied.
Missed(a) == {e \in a.before : \A i \in DOMAIN a.value : a.value[i] # e}

\* A read whose read index covers an entry of the leader's own term misses no
\* such command, though its leader may be deposed meanwhile, except where its
\* node had applied another entry, which was never chosen, in that place.
CoveredReadsMissOnlyReplaced ==
    \A a \in outcomes : a.success /\ a.covered =>
        \A e \in Missed(a) : e.index \in a.replaced

\* linearizable_read: "Perform a ReadIndex linearizable read".
ReadsAreFresh == \A a \in outcomes : a.success => Missed(a) = {}
=============================================================================
