---------------------------- MODULE RaftProgress ----------------------------
(***************************************************************************)
(* What the cluster of RaftNode achieves in the end.  Links fail and nodes *)
(* stop until the harness heals the network for the last time; elections   *)
(* may go on after that.                                                   *)
(***************************************************************************)
EXTENDS RaftNode

VARIABLE healed     \* no link fails and no node stops from here on

allVars == <<vars, healed>>

ProgressInit == Init /\ healed = FALSE

\* heal(): every ignore list is emptied.
Heal == ~healed /\ healed' = TRUE /\ UNCHANGED vars

\* What still fails after it: a call of a node that does not run.
MayFail(m) == healed => ~running[m.to]

KeepsRunning == healed => \A n \in Node : running[n] => running'[n]

VoteRequestFate(m) ==
    \/ HandleRequestVote(m)
    \/ MayFail(m) /\ (LoseVoteRequest(m) \/ VoteCallTimesOut(m))

VoteReplyFate(r) ==
    \/ VoteReplyIgnored(r) \/ VoteReplyStepDown(r) \/ VoteReplyCounted(r)
    \/ ~healed /\ LoseVoteReply(r)

AppendRequestFate(m) ==
    \/ RejectStaleAppend(m) \/ RejectAppend(m) \/ AcceptAppend(m)
    \/ MayFail(m) /\ (LoseAppendRequest(m) \/ AppendCallTimesOut(m))

AppendReplyFate(r) ==
    \/ AppendReplyIgnored(r) \/ AppendReplyStepDown(r)
    \/ AppendReplySuccess(r) \/ AppendReplyFailure(r)
    \/ ~healed /\ LoseAppendReply(r)

Step ==
    \/ \E n \in Node : NodeStep(n) /\ KeepsRunning
    \/ \E m \in voteRequests : VoteRequestFate(m)
    \/ \E r \in voteReplies : VoteReplyFate(r)
    \/ \E m \in appendRequests : AppendRequestFate(m)
    \/ \E r \in appendReplies : AppendReplyFate(r)
    \/ \E c \in commands : CommandStep(c)

ProgressNext == Heal \/ (Step /\ UNCHANGED healed)

-----------------------------------------------------------------------------
\* Fairness: the event loop resumes a coroutine that can go on, and a call
\* ends, by its timeout if by nothing else.

VoteCallGoesOn ==
    /\ \/ \E m \in voteRequests : VoteRequestFate(m)
       \/ \E r \in voteReplies : VoteReplyFate(r)
    /\ UNCHANGED healed

\* A call of one of the given tasks goes on.
AppendCallGoesOn(tasks) ==
    /\ \/ \E m \in appendRequests : m.task \in tasks /\ AppendRequestFate(m)
       \/ \E r \in appendReplies : r.task \in tasks /\ AppendReplyFate(r)
    /\ UNCHANGED healed

HeartbeatTasks == {HeartbeatTask(t) : t \in 0 .. MaxTerm}

CommandTasks == {c.entry : c \in commands}

CommandGoesOn ==
    /\ \E c \in commands :
          CommandRetry(c) \/ CommandCommitted(c) \/ CommandPending(c)
    /\ UNCHANGED healed

\* Past its deadline execute_command no longer tries again.
CommandEnds ==
    /\ \E c \in commands : CommandReturns(c)
    /\ UNCHANGED healed

HeartbeatGoesOn(n) == Heartbeat(n) /\ UNCHANGED healed

\* Weak fairness, but strong where a coroutine may find the bound MaxInFlight
\* reached now and then, and for the deadline of a command.  One command is
\* in progress at a time (MaxCommands).
Fairness ==
    /\ WF_allVars(VoteCallGoesOn)
    /\ WF_allVars(AppendCallGoesOn(CommandTasks))
    /\ WF_allVars(AppendCallGoesOn(HeartbeatTasks))
    /\ SF_allVars(CommandGoesOn)
    /\ SF_allVars(CommandEnds)
    /\ \A n \in Contenders : SF_allVars(HeartbeatGoesOn(n))

ASSUME ProgressAssumption == MaxCommands = 1

ProgressSpec == ProgressInit /\ [][ProgressNext]_allVars /\ Fairness

-----------------------------------------------------------------------------
\* Correctness

\* execute_command always returns, and there are finitely many calls within
\* the bounds: also when its node is deposed or stopped in the middle, and
\* when no RPC ever gets through.
CommandsReturn == <>[](commands = {})

\* Nothing fails any more, and one node leads.
Settled ==
    /\ healed
    /\ \A n \in members : running[n]
    /\ Cardinality({n \in Node : role[n] = Leader}) = 1

\* Every member has the leader's log, if not only that, and has committed it,
\* when its last entry is one that the leader may commit.
CaughtUp ==
    \A n, p \in members : role[n] = Leader =>
        /\ Len(log[n]) <= Len(log[p])
        /\ SubSeq(log[p], 1, Len(log[n])) = log[n]
        /\ LastLogTerm(log[n]) = currentTerm[n] => commitIndex[p] >= Len(log[n])

\* The repair of next_index converges: a leader that is left alone brings
\* every follower up to date, however their logs diverged, and commits.
FollowersCatchUp == <>[]Settled => <>[]CaughtUp
=============================================================================
