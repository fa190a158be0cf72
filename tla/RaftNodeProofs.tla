--------------------------- MODULE RaftNodeProofs ---------------------------
(***************************************************************************)
(* Theorems about RaftNode for every set of nodes and every value of the   *)
(* bounds: the state is well formed, the indices entries carry are their   *)
(* places, and no index is applied without its entry.                      *)
(***************************************************************************)
EXTENDS RaftNode, RaftLogProofs

-----------------------------------------------------------------------------
\* Well-formedness.  TypeOK alone is not inductive: that the append loop cuts
\* the log where the request starts, and that the apply loop stays inside the
\* log, rest on the numbering of entries in logs and in requests.

ContiguousRequests ==
    \A m \in appendRequests : \A k \in DOMAIN m.entries :
        m.entries[k].index = m.prevLogIndex + k

CommittedIsApplied == \A n \in Node : commitIndex[n] <= lastApplied[n]

WellFormed ==
    /\ TypeOK
    /\ IndexIsPosition
    /\ ContiguousRequests
    /\ CommittedIsApplied
    /\ NoSkippedApply

\* WellFormed by the groups of variables that an action changes together.
RolePart ==
    /\ members \in memberships /\ memberships \subseteq SUBSET Node
    /\ running \in [Node -> BOOLEAN]
    /\ role \in [Node -> Role]
    /\ leaderId \in [Node -> Node \cup {None}]

TermPart ==
    /\ currentTerm \in [Node -> Nat]
    /\ votedFor \in [Node -> Node \cup {None}]

LogPart ==
    /\ log \in [Node -> Seq(Entry)]
    /\ accepted \subseteq Node \X Entry
    /\ IndexIsPosition

CommitPart ==
    /\ commitIndex \in [Node -> Nat]
    /\ lastApplied \in [Node -> Nat]
    /\ applied \in [Node -> Seq(Entry)]
    /\ CommittedIsApplied
    /\ NoSkippedApply

LeaderPart ==
    /\ nextIndex \in [Node -> [Node -> Nat]]
    /\ matchIndex \in [Node -> [Node -> Nat]]

TallyPart ==
    /\ votesGranted \in [Node -> Nat]
    /\ electorate \in [Node -> SUBSET Node]
    /\ voters \in [Node -> SUBSET Node]

ClientPart == commands \subseteq Command /\ acked \subseteq Entry

VotePart == voteRequests \subseteq VoteRequest /\ voteReplies \subseteq VoteReply

AppendPart ==
    /\ appendRequests \subseteq AppendRequest
    /\ appendReplies \subseteq AppendReply
    /\ ContiguousRequests

HistoryPart ==
    /\ votesCast \subseteq Node \X Nat \X Node
    /\ elected \subseteq Nat \X Node

LEMMA WellFormedParts ==
  /\ WellFormed <=>
       /\ RolePart /\ TermPart /\ LogPart /\ CommitPart /\ LeaderPart
       /\ TallyPart /\ ClientPart /\ VotePart /\ AppendPart /\ HistoryPart
  /\ WellFormed' <=>
       /\ RolePart' /\ TermPart' /\ LogPart' /\ CommitPart' /\ LeaderPart'
       /\ TallyPart' /\ ClientPart' /\ VotePart' /\ AppendPart' /\ HistoryPart'
BY DEF WellFormed, TypeOK, RolePart, TermPart, LogPart, CommitPart, LeaderPart,
       TallyPart, ClientPart, VotePart, AppendPart, HistoryPart

\* A part is kept by a step that leaves its variables alone.
LEMMA UnchangedParts ==
  ASSUME WellFormed
  PROVE  /\ UNCHANGED roleVars => RolePart'
         /\ UNCHANGED termVars => TermPart'
         /\ UNCHANGED logVars => LogPart'
         /\ UNCHANGED commitVars => CommitPart'
         /\ UNCHANGED leaderVars => LeaderPart'
         /\ UNCHANGED tallyVars => TallyPart'
         /\ UNCHANGED clientVars => ClientPart'
         /\ UNCHANGED voteCalls => VotePart'
         /\ UNCHANGED appendCalls => AppendPart'
         /\ UNCHANGED historyVars => HistoryPart'
<1>1. /\ RolePart /\ TermPart /\ LogPart /\ CommitPart /\ LeaderPart
      /\ TallyPart /\ ClientPart /\ VotePart /\ AppendPart /\ HistoryPart
  BY WellFormedParts
<1>2. UNCHANGED roleVars => RolePart'
  BY <1>1 DEF RolePart, roleVars, clusterVars
<1>3. UNCHANGED termVars => TermPart'
  BY <1>1 DEF TermPart, termVars
<1>4. UNCHANGED logVars => LogPart'
  BY <1>1 DEF LogPart, logVars, IndexIsPosition
<1>5. UNCHANGED commitVars => CommitPart'
  BY <1>1 DEF CommitPart, commitVars, CommittedIsApplied, NoSkippedApply
<1>6. UNCHANGED leaderVars => LeaderPart'
  BY <1>1 DEF LeaderPart, leaderVars
<1>7. UNCHANGED tallyVars => TallyPart'
  BY <1>1 DEF TallyPart, tallyVars
<1>8. UNCHANGED clientVars => ClientPart'
  BY <1>1 DEF ClientPart, clientVars
<1>9. UNCHANGED voteCalls => VotePart'
  BY <1>1 DEF VotePart, voteCalls
<1>10. UNCHANGED appendCalls => AppendPart'
  BY <1>1 DEF AppendPart, appendCalls, ContiguousRequests
<1>11. UNCHANGED historyVars => HistoryPart'
  BY <1>1 DEF HistoryPart, historyVars
<1> QED  BY <1>2, <1>3, <1>4, <1>5, <1>6, <1>7, <1>8, <1>9, <1>10, <1>11

\* One round of replicate_to_peer sends well-formed requests.
LEMMA ReplicateType ==
  ASSUME TypeOK, NEW n \in Node, NEW task \in Entry,
         NEW l \in Seq(Entry), Positioned(l)
  PROVE  /\ Replicate(n, task, l) \subseteq AppendRequest
         /\ \A m \in Replicate(n, task, l) : \A k \in DOMAIN m.entries :
              m.entries[k].index = m.prevLogIndex + k
<1> SUFFICES ASSUME NEW p \in Peers(n)
             PROVE  LET m == [from |-> n, to |-> p, task |-> task,
                              term |-> currentTerm[n],
                              prevLogIndex |-> NextIndex(n, p, l) - 1,
                              prevLogTerm |-> PrevTerm(l, NextIndex(n, p, l) - 1),
                              entries |-> EntriesAfter(l, NextIndex(n, p, l) - 1),
                              leaderCommit |-> commitIndex[n],
                              awaited |-> TRUE]
                    IN  /\ m \in AppendRequest
                        /\ \A k \in DOMAIN m.entries :
                             m.entries[k].index = m.prevLogIndex + k
  BY DEF Replicate
<1>1. p \in Node
  BY DEF Peers, TypeOK
<1>2. PICK prev \in Nat : prev = NextIndex(n, p, l) - 1
  <2>1. nextIndex[n][p] \in Nat
    BY <1>1 DEF TypeOK
  <2>2. LastLogIndex(l) \in Nat
    <3>1. 0 \in Nat
      OBVIOUS
    <3> QED  BY <3>1, LogSummaryType
  <2> QED  BY <2>1, <2>2 DEF NextIndex
<1>3. /\ currentTerm[n] \in Nat /\ commitIndex[n] \in Nat
  BY DEF TypeOK
<1>4. PrevTerm(l, prev) \in Nat
  BY LogSummaryType
<1>5. /\ EntriesAfter(l, prev) \in Seq(Entry)
      /\ \A k \in DOMAIN EntriesAfter(l, prev) :
           EntriesAfter(l, prev)[k].index = prev + k
  BY EntriesAfterContiguous
<1> QED  BY <1>1, <1>2, <1>3, <1>4, <1>5 DEF AppendRequest

\* Assigning a commit index that the log covers applies every entry up to it.
LEMMA CommitAndApplyType ==
  ASSUME CommitPart, NEW n \in Node, NEW l \in Seq(Entry), NEW c \in Nat,
         c <= Len(l) \/ c <= lastApplied[n],
         CommitAndApply(n, l, c)
  PROVE  CommitPart'
<1>1. PICK a \in Nat : a = lastApplied[n]
  BY DEF CommitPart
<1>2. PICK s \in Seq(Entry) : s = applied[n] /\ Len(s) = a
  BY <1>1 DEF CommitPart, NoSkippedApply
<1>3. PICK b \in Nat : b = IF c <= Len(l) THEN c ELSE Len(l)
  OBVIOUS
<1>4. PICK t \in Seq(Entry) :
        t = SubSeq(l, a + 1, b) /\ Len(t) = IF c > a THEN c - a ELSE 0
  <2>1. CASE c > a
    <3>1. b = c /\ c <= Len(l)
      BY <1>1, <1>3, <2>1
    <3>2. \A i \in (a + 1) .. c : l[i] \in Entry
      BY <3>1
    <3>3. SubSeq(l, a + 1, b) \in Seq(Entry) /\ Len(SubSeq(l, a + 1, b)) = c - a
      BY <2>1, <3>1, <3>2, SubSeqProperties
    <3> QED  BY <2>1, <3>3
  <2>2. CASE ~(c > a)
    <3>1. b < a + 1
      BY <1>3, <2>2
    <3>2. \A i \in (a + 1) .. b : l[i] \in Entry
      BY <3>1
    <3>3. SubSeq(l, a + 1, b) \in Seq(Entry) /\ Len(SubSeq(l, a + 1, b)) = 0
      BY <3>1, <3>2, SubSeqProperties
    <3> QED  BY <2>2, <3>3
  <2> QED  BY <2>1, <2>2
<1>5. PICK r \in Seq(Entry) : r = s \o t /\ Len(r) = IF c > a THEN c ELSE a
  <2>1. PICK r \in Seq(Entry) : r = s \o t /\ Len(r) = Len(s) + Len(t)
    BY ConcatProperties
  <2>2. Len(s) = a /\ Len(t) = IF c > a THEN c - a ELSE 0
    BY <1>2, <1>4
  <2>3. Len(r) = IF c > a THEN c ELSE a
    BY <2>1, <2>2
  <2> QED  BY <2>1, <2>3
<1>6. /\ commitIndex' = [commitIndex EXCEPT ![n] = c]
      /\ lastApplied' = [lastApplied EXCEPT ![n] = IF c > a THEN c ELSE a]
      /\ applied' = [applied EXCEPT ![n] = r]
  BY <1>1, <1>2, <1>3, <1>4, <1>5 DEF CommitAndApply, CommitPart
<1>7. /\ commitIndex' \in [Node -> Nat] /\ lastApplied' \in [Node -> Nat]
      /\ applied' \in [Node -> Seq(Entry)]
  BY <1>5, <1>6 DEF CommitPart
<1>8. ASSUME NEW m \in Node
      PROVE  commitIndex'[m] <= lastApplied'[m] /\ Len(applied'[m]) = lastApplied'[m]
  <2>1. CASE m = n
    BY <2>1, <1>5, <1>6 DEF CommitPart
  <2>2. CASE m # n
    BY <2>2, <1>6 DEF CommitPart, CommittedIsApplied, NoSkippedApply
  <2> QED  BY <2>1, <2>2
<1> QED  BY <1>7, <1>8 DEF CommitPart, CommittedIsApplied, NoSkippedApply

\* check_advance_commit_index moves the commit index inside the log, or not.
LEMMA AdvancedCommitType ==
  ASSUME TypeOK, IndexIsPosition, NEW n \in Node, NEW match
  PROVE  /\ AdvancedCommit(n, match) \in Nat
         /\ \/ AdvancedCommit(n, match) = commitIndex[n]
            \/ /\ AdvancedCommit(n, match) \in Committable(n, match)
               /\ AdvancedCommit(n, match) <= Len(log[n])
<1>1. /\ log[n] \in Seq(Entry) /\ Positioned(log[n])
      /\ commitIndex[n] \in Nat /\ Len(log[n]) \in Nat
  BY DEF TypeOK, IndexIsPosition
<1>2. LastLogIndex(log[n]) = Len(log[n])
  BY <1>1, LastLogIndexIsLen
<1>3. CASE Committable(n, match) = {}
  BY <1>1, <1>3 DEF AdvancedCommit
<1>4. CASE Committable(n, match) # {}
  <2>1. Committable(n, match) \in SUBSET (0 .. Len(log[n]))
    BY <1>1, <1>2 DEF Committable
  <2>2. Max(Committable(n, match)) \in Committable(n, match)
    BY <1>1, <1>4, <2>1, GreatestOfNaturals
  <2> QED  BY <1>1, <1>4, <2>1, <2>2 DEF AdvancedCommit
<1> QED  BY <1>3, <1>4

\* Every message that a node handles is answered with a well-formed reply.
LEMMA AnswerVoteType ==
  ASSUME TypeOK, NEW m \in voteRequests, NEW term \in Nat,
         NEW granted \in BOOLEAN, AnswerVote(m, term, granted)
  PROVE  voteRequests' \subseteq voteRequests /\ voteReplies' \subseteq VoteReply
<1>1. m \in VoteRequest /\ voteReplies \subseteq VoteReply
  BY DEF TypeOK
<1>2. m.from \in Node /\ m.to \in Node /\ m.term \in Nat
  BY <1>1 DEF VoteRequest
<1>3. [from |-> m.to, to |-> m.from, callTerm |-> m.term,
       term |-> term, voteGranted |-> granted] \in VoteReply
  BY <1>2 DEF VoteReply
<1> QED  BY <1>1, <1>3 DEF AnswerVote

LEMMA AnswerAppendType ==
  ASSUME TypeOK, NEW m \in appendRequests, NEW term \in Nat,
         NEW success \in BOOLEAN, NEW match \in Nat,
         AnswerAppend(m, term, success, match)
  PROVE  /\ appendRequests' \subseteq appendRequests
         /\ appendReplies' \subseteq AppendReply
<1>1. m \in AppendRequest /\ appendReplies \subseteq AppendReply
  BY DEF TypeOK
<1>2. /\ m.from \in Node /\ m.to \in Node /\ m.task \in Entry
      /\ m.term \in Nat
  BY <1>1 DEF AppendRequest
<1>3. [from |-> m.to, to |-> m.from, task |-> m.task, callTerm |-> m.term,
       term |-> term, success |-> success, matchIndex |-> match]
         \in AppendReply
  BY <1>2 DEF AppendReply
<1> QED  BY <1>1, <1>3 DEF AnswerAppend

\* What the code reads of a well-formed node's log has the expected types.
LEMMA NodeLogType ==
  ASSUME TypeOK, IndexIsPosition, NEW n \in Node
  PROVE  /\ log[n] \in Seq(Entry) /\ Positioned(log[n])
         /\ Len(log[n]) \in Nat /\ currentTerm[n] \in Nat
         /\ LastLogIndex(log[n]) \in Nat /\ LastLogTerm(log[n]) \in Nat
         /\ LastLogIndex(log[n]) = Len(log[n])
<1>1. /\ log[n] \in Seq(Entry) /\ Positioned(log[n])
      /\ currentTerm[n] \in Nat
  BY DEF TypeOK, IndexIsPosition
<1>2. Len(log[n]) \in Nat
  BY <1>1
<1>3. LastLogIndex(log[n]) \in Nat /\ LastLogTerm(log[n]) \in Nat
  <2>1. 0 \in Nat
    OBVIOUS
  <2> QED  BY <1>1, <2>1, LogSummaryType
<1> QED  BY <1>1, <1>2, <1>3, LastLogIndexIsLen

\* A request that a log accepts leaves a positioned log.
LEMMA AcceptedLogType ==
  ASSUME WellFormed, NEW m \in appendRequests,
         MatchesPrev(log[m.to], m.prevLogIndex, m.prevLogTerm)
  PROVE  LogAfter(m) \in Seq(Entry) /\ Positioned(LogAfter(m))
<1>1. m \in AppendRequest
  BY DEF WellFormed, TypeOK
<1>2. /\ m.to \in Node /\ m.entries \in Seq(Entry) /\ m.prevLogIndex \in Nat
  BY <1>1 DEF AppendRequest
<1>3. log[m.to] \in Seq(Entry) /\ Positioned(log[m.to])
  BY <1>2 DEF WellFormed, TypeOK, IndexIsPosition
<1>4. m.prevLogIndex \in 0 .. Len(log[m.to])
  BY <1>2, <1>3 DEF MatchesPrev
<1>5. \A k \in DOMAIN m.entries : m.entries[k].index = m.prevLogIndex + k
  BY DEF WellFormed, ContiguousRequests
<1> QED  BY <1>2, <1>3, <1>4, <1>5, AppendLoopPositioned DEF LogAfter

\* become_leader re-initialises next_index and match_index.
LEMMA BecomeLeaderType ==
  ASSUME TypeOK, IndexIsPosition, NEW n \in Node, NEW term \in Nat,
         BecomeLeader(n, term)
  PROVE  /\ role' \in [Node -> Role]
         /\ leaderId' \in [Node -> Node \cup {None}]
         /\ nextIndex' \in [Node -> [Node -> Nat]]
         /\ matchIndex' \in [Node -> [Node -> Nat]]
         /\ elected' \subseteq Nat \X Node
<1>1. PICK first \in Nat \ {0} : first = LastLogIndex(log[n]) + 1
  BY NodeLogType
<1>2. nextIndex' = [nextIndex EXCEPT ![n] =
                      [p \in Node |-> IF p \in Peers(n) THEN first ELSE 0]]
  BY <1>1 DEF BecomeLeader
<1>3. nextIndex' \in [Node -> [Node -> Nat]]
  BY <1>1, <1>2 DEF TypeOK
<1>4. matchIndex' \in [Node -> [Node -> Nat]]
  BY DEF BecomeLeader, TypeOK
<1>5. elected' \subseteq Nat \X Node
  BY DEF BecomeLeader, TypeOK
<1>6. /\ role' \in [Node -> Role]
      /\ leaderId' \in [Node -> Node \cup {None}]
  BY DEF BecomeLeader, TypeOK, Role, Leader
<1> QED  BY <1>3, <1>4, <1>5, <1>6

\* become_candidate raises the term and votes for the node itself.
LEMMA BecomeCandidateType ==
  ASSUME TypeOK, NEW n \in Node, BecomeCandidate(n)
  PROVE  /\ currentTerm' \in [Node -> Nat]
         /\ votedFor' \in [Node -> Node \cup {None}]
         /\ votesGranted' \in [Node -> Nat]
         /\ electorate' \in [Node -> SUBSET Node]
         /\ voters' \in [Node -> SUBSET Node]
         /\ votesCast' \subseteq Node \X Nat \X Node
<1>1. currentTerm[n] + 1 \in Nat
  BY DEF TypeOK
<1>2. votesCast' \subseteq Node \X Nat \X Node
  BY <1>1 DEF BecomeCandidate, TypeOK
<1>3. /\ currentTerm' \in [Node -> Nat]
      /\ votedFor' \in [Node -> Node \cup {None}]
      /\ votesGranted' \in [Node -> Nat]
      /\ electorate' \in [Node -> SUBSET Node]
      /\ voters' \in [Node -> SUBSET Node]
  BY <1>1 DEF BecomeCandidate, TypeOK
<1> QED  BY <1>2, <1>3

\* The RequestVote calls of start_election are well formed.
LEMMA StartElectionRequests ==
  ASSUME TypeOK, IndexIsPosition, NEW n \in Node, StartElection(n)
  PROVE  voteRequests' \subseteq VoteRequest
<1>1. /\ currentTerm[n] + 1 \in Nat
      /\ LastLogIndex(log[n]) \in Nat /\ LastLogTerm(log[n]) \in Nat
  BY NodeLogType
<1>2. ASSUME NEW p \in Peers(n)
      PROVE  [from |-> n, to |-> p, term |-> currentTerm[n] + 1,
              lastLogIndex |-> LastLogIndex(log[n]),
              lastLogTerm |-> LastLogTerm(log[n]), awaited |-> TRUE]
                \in VoteRequest
  BY <1>1 DEF Peers, VoteRequest, TypeOK
<1>3. voteRequests \subseteq VoteRequest
  BY DEF TypeOK
<1> QED  BY <1>2, <1>3 DEF StartElection

-----------------------------------------------------------------------------
\* Each action of the protocol that builds state keeps it well formed.

LEMMA StartElectionType ==
  ASSUME WellFormed, NEW n \in Node, StartElection(n)
  PROVE  WellFormed'
<1>1. TypeOK /\ IndexIsPosition /\ ContiguousRequests
  BY DEF WellFormed
<1>p. /\ RolePart /\ TermPart /\ LogPart /\ CommitPart /\ LeaderPart
      /\ TallyPart /\ ClientPart /\ VotePart /\ AppendPart /\ HistoryPart
  BY WellFormedParts
<1>2. VotePart'
  <2>1. voteReplies' = voteReplies
    BY DEF StartElection, voteCalls
  <2> QED  BY <1>1, <2>1, StartElectionRequests DEF VotePart, TypeOK
<1>3. RolePart'
  BY <1>1 DEF StartElection, clusterVars, RolePart, TypeOK, Role, Candidate
<1>4. TermPart' /\ TallyPart' /\ HistoryPart'
  <2>1. BecomeCandidate(n) /\ elected' = elected
    BY DEF StartElection
  <2> QED  BY <1>1, <2>1, BecomeCandidateType
           DEF TermPart, TallyPart, HistoryPart, TypeOK
<1> QED  BY <1>2, <1>3, <1>4, UnchangedParts, WellFormedParts DEF StartElection

LEMMA StartElectionAloneType ==
  ASSUME WellFormed, NEW n \in Node, StartElectionAlone(n)
  PROVE  WellFormed'
<1>1. TypeOK /\ IndexIsPosition /\ ContiguousRequests
  BY DEF WellFormed
<1>p. /\ RolePart /\ TermPart /\ LogPart /\ CommitPart /\ LeaderPart
      /\ TallyPart /\ ClientPart /\ VotePart /\ AppendPart /\ HistoryPart
  BY WellFormedParts
<1>2. BecomeCandidate(n) /\ BecomeLeader(n, currentTerm[n] + 1)
  BY DEF StartElectionAlone
<1>3. currentTerm[n] + 1 \in Nat
  BY <1>1, NodeLogType
<1>4. UNCHANGED <<members, memberships, running>>
  BY DEF StartElectionAlone, clusterVars
<1>5. /\ RolePart' /\ TermPart' /\ LeaderPart' /\ TallyPart'
  BY <1>1, <1>2, <1>3, <1>4, BecomeCandidateType, BecomeLeaderType
  DEF RolePart, TermPart, LeaderPart, TallyPart, TypeOK
<1>6. HistoryPart'
  BY <1>1, <1>2, <1>3, BecomeCandidateType, BecomeLeaderType DEF HistoryPart
<1> QED  BY <1>5, <1>6, UnchangedParts, WellFormedParts DEF StartElectionAlone

LEMMA HandleRequestVoteType ==
  ASSUME WellFormed, NEW m \in voteRequests, HandleRequestVote(m)
  PROVE  WellFormed'
<1>1. TypeOK /\ IndexIsPosition /\ ContiguousRequests
  BY DEF WellFormed
<1>p. /\ RolePart /\ TermPart /\ LogPart /\ CommitPart /\ LeaderPart
      /\ TallyPart /\ ClientPart /\ VotePart /\ AppendPart /\ HistoryPart
  BY WellFormedParts
<1>2. m.to \in Node /\ m.from \in Node /\ m.term \in Nat
  BY <1>1 DEF TypeOK, VoteRequest
<1>3. PICK term \in Nat :
        term = IF m.term > currentTerm[m.to] THEN m.term ELSE currentTerm[m.to]
  BY <1>1, <1>2, NodeLogType
<1>4. PICK vote \in Node \cup {None} :
        vote = IF m.term > currentTerm[m.to] THEN None ELSE votedFor[m.to]
  BY <1>p, <1>2 DEF TermPart
<1>5. PICK granted \in BOOLEAN :
        granted = /\ m.term = term
                  /\ vote \in {None, m.from}
                  /\ IsLogUpToDate(m.lastLogTerm, m.lastLogIndex, log[m.to])
  OBVIOUS
<1>6. /\ currentTerm' = [currentTerm EXCEPT ![m.to] = term]
      /\ role' = [role EXCEPT ![m.to] =
                    IF m.term > currentTerm[m.to] THEN Follower ELSE @]
      /\ votedFor' = [votedFor EXCEPT ![m.to] =
                        IF granted THEN m.from ELSE vote]
      /\ votesCast' = IF granted THEN votesCast \cup {<<m.to, term, m.from>>}
                                 ELSE votesCast
      /\ AnswerVote(m, term, granted)
      /\ UNCHANGED <<members, memberships, running, leaderId, elected>>
  BY <1>3, <1>4, <1>5 DEF HandleRequestVote, clusterVars
<1>7. VotePart'
  BY <1>1, <1>p, <1>3, <1>5, <1>6, AnswerVoteType DEF VotePart
<1>8. RolePart'
  BY <1>p, <1>2, <1>6 DEF RolePart, Role, Follower
<1>9. TermPart' /\ HistoryPart'
  <2>1. TermPart'
    BY <1>p, <1>2, <1>6 DEF TermPart
  <2>2. votesCast' \subseteq Node \X Nat \X Node
    BY <1>p, <1>2, <1>6 DEF HistoryPart
  <2> QED  BY <1>p, <1>6, <2>1, <2>2 DEF HistoryPart
<1> QED  BY <1>7, <1>8, <1>9, UnchangedParts, WellFormedParts
         DEF HandleRequestVote

LEMMA VoteReplyCountedType ==
  ASSUME WellFormed, NEW r \in voteReplies, VoteReplyCounted(r)
  PROVE  WellFormed'
<1>1. TypeOK /\ IndexIsPosition /\ ContiguousRequests
  BY DEF WellFormed
<1>p. /\ RolePart /\ TermPart /\ LogPart /\ CommitPart /\ LeaderPart
      /\ TallyPart /\ ClientPart /\ VotePart /\ AppendPart /\ HistoryPart
  BY WellFormedParts
<1>2. /\ r.to \in Node /\ r.from \in Node /\ currentTerm[r.to] \in Nat
  BY <1>1 DEF TypeOK, VoteReply
<1>3. /\ votesGranted' = [votesGranted EXCEPT ![r.to] = @ + 1]
      /\ voters' = [voters EXCEPT ![r.to] = @ \cup {r.from}]
      /\ voteReplies' = voteReplies \ {r}
      /\ UNCHANGED <<members, memberships, running, electorate, votesCast,
                     voteRequests>>
      /\ \/ BecomeLeader(r.to, currentTerm[r.to])
         \/ UNCHANGED <<role, leaderId, leaderVars, elected>>
  BY DEF VoteReplyCounted, clusterVars
<1>4. RolePart' /\ LeaderPart' /\ HistoryPart'
  <2>1. CASE BecomeLeader(r.to, currentTerm[r.to])
    BY <1>1, <1>2, <1>3, <2>1, BecomeLeaderType
    DEF RolePart, LeaderPart, HistoryPart, TypeOK
  <2>2. CASE UNCHANGED <<role, leaderId, leaderVars, elected>>
    BY <1>1, <1>3, <2>2
    DEF leaderVars, RolePart, LeaderPart, HistoryPart, TypeOK
  <2> QED  BY <1>3, <2>1, <2>2
<1>5. TallyPart' /\ VotePart'
  <2>1. TallyPart'
    BY <1>p, <1>2, <1>3 DEF TallyPart
  <2>2. VotePart'
    BY <1>p, <1>3 DEF VotePart
  <2> QED  BY <2>1, <2>2
<1> QED  BY <1>4, <1>5, UnchangedParts, WellFormedParts DEF VoteReplyCounted

LEMMA AcceptAppendType ==
  ASSUME WellFormed, NEW m \in appendRequests, AcceptAppend(m)
  PROVE  WellFormed'
<1>1. TypeOK /\ IndexIsPosition /\ ContiguousRequests
  BY DEF WellFormed
<1>p. /\ RolePart /\ TermPart /\ LogPart /\ CommitPart /\ LeaderPart
      /\ TallyPart /\ ClientPart /\ VotePart /\ AppendPart /\ HistoryPart
  BY WellFormedParts
<1>2. /\ m.to \in Node /\ m.from \in Node /\ m.term \in Nat
      /\ m.leaderCommit \in Nat /\ m.entries \in Seq(Entry)
  BY <1>1 DEF TypeOK, AppendRequest
<1>3. PICK l \in Seq(Entry) :
        l = LogAfter(m) /\ Positioned(l)
  BY AcceptedLogType DEF AcceptAppend
<1>4. LastLogIndex(l) = Len(l) /\ Len(l) \in Nat
  BY <1>3, LastLogIndexIsLen
<1>5. AppendPart'
  <2>1. AnswerAppend(m, m.term, TRUE, Len(l))
    BY <1>3, <1>4 DEF AcceptAppend
  <2>2. /\ appendRequests' \subseteq appendRequests
        /\ appendReplies' \subseteq AppendReply
    BY <1>1, <1>2, <1>4, <2>1, AnswerAppendType
  <2> QED  BY <1>p, <2>2 DEF AppendPart, ContiguousRequests
<1>6. CommitPart'
  <2>1. CASE m.leaderCommit > commitIndex[m.to]
    <3>1. PICK c \in Nat :
            c <= Len(l) /\ c = IF m.leaderCommit <= Len(l)
                              THEN m.leaderCommit ELSE Len(l)
      BY <1>2, <1>4
    <3>2. CommitAndApply(m.to, l, c)
      BY <1>3, <1>4, <2>1, <3>1 DEF AcceptAppend
    <3> QED  BY <1>p, <1>2, <3>1, <3>2, CommitAndApplyType
  <2>2. CASE ~(m.leaderCommit > commitIndex[m.to])
    BY <2>2, UnchangedParts DEF AcceptAppend
  <2> QED  BY <2>1, <2>2
<1>7. LogPart'
  <2>1. log' = [log EXCEPT ![m.to] = l]
    BY <1>3 DEF AcceptAppend
  <2>2. log' \in [Node -> Seq(Entry)] /\ IndexIsPosition'
    BY <1>p, <1>2, <1>3, <2>1 DEF LogPart, IndexIsPosition
  <2>3. Range(m.entries) \subseteq Entry
    BY <1>2 DEF Range
  <2>4. accepted' \subseteq Node \X Entry
    BY <1>p, <1>2, <2>3 DEF AcceptAppend, LogPart
  <2> QED  BY <2>2, <2>4 DEF LogPart
<1>8. RolePart' /\ TermPart'
  <2>1. FollowLeader(m)
    BY DEF AcceptAppend
  <2> QED  BY <1>p, <1>2, <2>1
           DEF FollowLeader, BecomeFollower, clusterVars, RolePart, TermPart,
               Role, Follower
<1>9. UNCHANGED <<leaderVars, tallyVars, clientVars, voteCalls, historyVars>>
  BY DEF AcceptAppend, FollowLeader
<1> QED  BY <1>5, <1>6, <1>7, <1>8, <1>9, UnchangedParts, WellFormedParts

LEMMA RejectAppendType ==
  ASSUME WellFormed, NEW m \in appendRequests, RejectAppend(m)
  PROVE  WellFormed'
<1>1. TypeOK /\ IndexIsPosition /\ ContiguousRequests
  BY DEF WellFormed
<1>p. /\ RolePart /\ TermPart /\ LogPart /\ CommitPart /\ LeaderPart
      /\ TallyPart /\ ClientPart /\ VotePart /\ AppendPart /\ HistoryPart
  BY WellFormedParts
<1>2. /\ m.to \in Node /\ m.from \in Node /\ m.term \in Nat
  BY <1>1 DEF TypeOK, AppendRequest
<1>3. AppendPart'
  <2>1. /\ appendRequests' \subseteq appendRequests
        /\ appendReplies' \subseteq AppendReply
    BY <1>1, <1>2, NodeLogType, AnswerAppendType DEF RejectAppend
  <2> QED  BY <1>p, <2>1 DEF AppendPart, ContiguousRequests
<1>4. RolePart' /\ TermPart'
  <2>1. FollowLeader(m)
    BY DEF RejectAppend
  <2> QED  BY <1>p, <1>2, <2>1
           DEF FollowLeader, BecomeFollower, clusterVars, RolePart, TermPart,
               Role, Follower
<1>5. UNCHANGED <<logVars, commitVars, leaderVars, tallyVars, clientVars,
                  voteCalls, historyVars>>
  BY DEF RejectAppend, FollowLeader
<1> QED  BY <1>3, <1>4, <1>5, UnchangedParts, WellFormedParts

LEMMA RejectStaleAppendType ==
  ASSUME WellFormed, NEW m \in appendRequests, RejectStaleAppend(m)
  PROVE  WellFormed'
<1>1. TypeOK /\ IndexIsPosition /\ ContiguousRequests
  BY DEF WellFormed
<1>p. /\ RolePart /\ TermPart /\ LogPart /\ CommitPart /\ LeaderPart
      /\ TallyPart /\ ClientPart /\ VotePart /\ AppendPart /\ HistoryPart
  BY WellFormedParts
<1>2. m.to \in Node
  BY <1>1 DEF TypeOK, AppendRequest
<1>3. AppendPart'
  <2>1. /\ appendRequests' \subseteq appendRequests
        /\ appendReplies' \subseteq AppendReply
    BY <1>1, <1>2, NodeLogType, AnswerAppendType DEF RejectStaleAppend
  <2> QED  BY <1>p, <2>1 DEF AppendPart, ContiguousRequests
<1> QED  BY <1>3, UnchangedParts, WellFormedParts
         DEF RejectStaleAppend, nodeVars

LEMMA AppendReplySuccessType ==
  ASSUME WellFormed, NEW r \in appendReplies, AppendReplySuccess(r)
  PROVE  WellFormed'
<1>1. TypeOK /\ IndexIsPosition /\ ContiguousRequests
  BY DEF WellFormed
<1>p. /\ RolePart /\ TermPart /\ LogPart /\ CommitPart /\ LeaderPart
      /\ TallyPart /\ ClientPart /\ VotePart /\ AppendPart /\ HistoryPart
  BY WellFormedParts
<1>2. r.to \in Node /\ r.from \in Node /\ r.matchIndex \in Nat
  BY <1>1 DEF TypeOK, AppendReply
<1>3. PICK match \in [Node -> Nat] :
        match = [matchIndex[r.to] EXCEPT ![r.from] =
                   IF r.matchIndex > @ THEN r.matchIndex ELSE @]
  BY <1>p, <1>2 DEF LeaderPart
<1>4. /\ matchIndex' = [matchIndex EXCEPT ![r.to] = match]
      /\ nextIndex' = [nextIndex EXCEPT ![r.to][r.from] = match[r.from] + 1]
      /\ CommitAndApply(r.to, log[r.to], AdvancedCommit(r.to, match))
      /\ appendReplies' = appendReplies \ {r}
      /\ appendRequests' = appendRequests
  BY <1>3 DEF AppendReplySuccess
<1>5. LeaderPart'
  <2>1. matchIndex' \in [Node -> [Node -> Nat]]
    BY <1>p, <1>3, <1>4 DEF LeaderPart
  <2>2. PICK next \in Nat : next = match[r.from] + 1
    BY <1>2, <1>3
  <2>3. nextIndex' \in [Node -> [Node -> Nat]]
    BY <1>p, <1>2, <1>4, <2>2 DEF LeaderPart
  <2> QED  BY <2>1, <2>3 DEF LeaderPart
<1>6. CommitPart'
  <2>1. commitIndex[r.to] <= lastApplied[r.to]
    BY <1>p, <1>2 DEF CommitPart, CommittedIsApplied
  <2>2. PICK c \in Nat : /\ c = AdvancedCommit(r.to, match)
                         /\ c <= Len(log[r.to]) \/ c <= lastApplied[r.to]
    BY <1>1, <1>2, <2>1, AdvancedCommitType
  <2>3. log[r.to] \in Seq(Entry)
    BY <1>1, <1>2, NodeLogType
  <2> QED  BY <1>p, <1>2, <1>4, <2>2, <2>3, CommitAndApplyType
<1>7. AppendPart'
  BY <1>p, <1>4 DEF AppendPart, ContiguousRequests
<1> QED  BY <1>5, <1>6, <1>7, UnchangedParts, WellFormedParts
         DEF AppendReplySuccess

LEMMA AppendReplyFailureType ==
  ASSUME WellFormed, NEW r \in appendReplies, AppendReplyFailure(r)
  PROVE  WellFormed'
<1>1. TypeOK /\ IndexIsPosition /\ ContiguousRequests
  BY DEF WellFormed
<1>p. /\ RolePart /\ TermPart /\ LogPart /\ CommitPart /\ LeaderPart
      /\ TallyPart /\ ClientPart /\ VotePart /\ AppendPart /\ HistoryPart
  BY WellFormedParts
<1>2. r.to \in Node /\ r.from \in Node
  BY <1>1 DEF TypeOK, AppendReply
<1>3. PICK next \in Nat :
        next = IF nextIndex[r.to][r.from] > 1
               THEN nextIndex[r.to][r.from] - 1 ELSE 1
  <2>1. nextIndex[r.to][r.from] \in Nat
    BY <1>p, <1>2 DEF LeaderPart
  <2> QED  BY <2>1
<1>4. nextIndex' = [nextIndex EXCEPT ![r.to] = [@ EXCEPT ![r.from] = next]]
  BY <1>3, <1>p, <1>2 DEF AppendReplyFailure, LeaderPart
<1>5. LeaderPart'
  BY <1>p, <1>2, <1>4 DEF LeaderPart, AppendReplyFailure
<1>6. AppendPart'
  BY <1>p DEF AppendPart, ContiguousRequests, AppendReplyFailure
<1> QED  BY <1>5, <1>6, UnchangedParts, WellFormedParts DEF AppendReplyFailure

LEMMA HeartbeatType ==
  ASSUME WellFormed, NEW n \in Node, Heartbeat(n)
  PROVE  WellFormed'
<1>1. TypeOK /\ IndexIsPosition /\ ContiguousRequests
  BY DEF WellFormed
<1>p. /\ RolePart /\ TermPart /\ LogPart /\ CommitPart /\ LeaderPart
      /\ TallyPart /\ ClientPart /\ VotePart /\ AppendPart /\ HistoryPart
  BY WellFormedParts
<1>2. HeartbeatTask(currentTerm[n]) \in Entry
  BY <1>1, NodeLogType, EntryFields DEF HeartbeatTask
<1>3. /\ Replicate(n, HeartbeatTask(currentTerm[n]), log[n])
           \subseteq AppendRequest
      /\ \A m \in Replicate(n, HeartbeatTask(currentTerm[n]), log[n]) :
           \A k \in DOMAIN m.entries : m.entries[k].index = m.prevLogIndex + k
  BY <1>1, <1>2, NodeLogType, ReplicateType
<1>4. AppendPart'
  BY <1>p, <1>3 DEF AppendPart, ContiguousRequests, Heartbeat
<1> QED  BY <1>4, UnchangedParts, WellFormedParts DEF Heartbeat, nodeVars

LEMMA ExecuteCommandType ==
  ASSUME WellFormed, NEW n \in Node, ExecuteCommand(n)
  PROVE  WellFormed'
<1>1. TypeOK /\ IndexIsPosition /\ ContiguousRequests
  BY DEF WellFormed
<1>p. /\ RolePart /\ TermPart /\ LogPart /\ CommitPart /\ LeaderPart
      /\ TallyPart /\ ClientPart /\ VotePart /\ AppendPart /\ HistoryPart
  BY WellFormedParts
<1>2. /\ log[n] \in Seq(Entry) /\ Positioned(log[n])
      /\ NewEntry(n) = LogEntry(Len(log[n]) + 1, currentTerm[n])
      /\ Len(log[n]) \in Nat /\ currentTerm[n] \in Nat
  BY <1>1, NodeLogType DEF NewEntry
<1>3. PICK e \in Entry : /\ e = NewEntry(n) /\ e.index = Len(log[n]) + 1
                        /\ e = LogEntry(Len(log[n]) + 1, currentTerm[n])
  BY <1>2, EntryFields
<1>4. PICK l \in Seq(Entry) : l = Append(log[n], e) /\ Positioned(l)
  BY <1>2, <1>3, LastLogIndexIsLen, AppendPositioned
<1>5. log' = [log EXCEPT ![n] = l] /\ log'[n] = l
  BY <1>p, <1>3, <1>4 DEF ExecuteCommand, LogPart
<1>6. LogPart'
  BY <1>p, <1>3, <1>4, <1>5 DEF LogPart, IndexIsPosition, ExecuteCommand
<1>7. AppendPart'
  <2>1. /\ Replicate(n, e, l) \subseteq AppendRequest
        /\ \A m \in Replicate(n, e, l) : \A k \in DOMAIN m.entries :
             m.entries[k].index = m.prevLogIndex + k
    BY <1>1, <1>3, <1>4, ReplicateType
  <2>2. /\ appendRequests' = appendRequests \cup Replicate(n, e, l)
        /\ appendReplies' = appendReplies
    BY <1>3, <1>5 DEF ExecuteCommand
  <2> QED  BY <1>p, <2>1, <2>2 DEF AppendPart, ContiguousRequests
<1>8. ClientPart'
  <2>1. [node |-> n, entry |-> e, phase |-> "replicate", live |-> TRUE]
           \in Command
    BY <1>3 DEF Command
  <2> QED  BY <1>p, <1>3, <2>1 DEF ExecuteCommand, ClientPart
<1> QED  BY <1>6, <1>7, <1>8, UnchangedParts, WellFormedParts
         DEF ExecuteCommand

LEMMA ExecuteCommandAloneType ==
  ASSUME WellFormed, NEW n \in Node, ExecuteCommandAlone(n)
  PROVE  WellFormed'
<1>1. TypeOK /\ IndexIsPosition /\ ContiguousRequests
  BY DEF WellFormed
<1>p. /\ RolePart /\ TermPart /\ LogPart /\ CommitPart /\ LeaderPart
      /\ TallyPart /\ ClientPart /\ VotePart /\ AppendPart /\ HistoryPart
  BY WellFormedParts
<1>2. /\ log[n] \in Seq(Entry) /\ Positioned(log[n])
      /\ NewEntry(n) = LogEntry(Len(log[n]) + 1, currentTerm[n])
      /\ Len(log[n]) \in Nat /\ currentTerm[n] \in Nat
  BY <1>1, NodeLogType DEF NewEntry
<1>3. PICK e \in Entry : /\ e = NewEntry(n) /\ e.index = Len(log[n]) + 1
                        /\ e = LogEntry(Len(log[n]) + 1, currentTerm[n])
  BY <1>2, EntryFields
<1>4. PICK l \in Seq(Entry) : /\ l = Append(log[n], e) /\ Positioned(l)
                              /\ Len(l) = Len(log[n]) + 1
  <2>1. Append(log[n], e) \in Seq(Entry) /\ Positioned(Append(log[n], e))
    BY <1>2, <1>3, LastLogIndexIsLen, AppendPositioned
  <2>2. Len(Append(log[n], e)) = Len(log[n]) + 1
    BY <1>2, <1>3, AppendProperties
  <2> QED  BY <2>1, <2>2
<1>5. log' = [log EXCEPT ![n] = l] /\ log'[n] = l
  BY <1>p, <1>3, <1>4 DEF ExecuteCommandAlone, LogPart
<1>6. LogPart'
  BY <1>p, <1>3, <1>4, <1>5 DEF LogPart, IndexIsPosition, ExecuteCommandAlone
<1>7. CommitPart'
  <2>1. PICK c \in Nat : c = NewEntry(n).index /\ c <= Len(l)
    BY <1>2, <1>3, <1>4
  <2>2. CommitAndApply(n, l, c)
    BY <1>5, <2>1 DEF ExecuteCommandAlone
  <2> QED  BY <1>p, <2>1, <2>2, CommitAndApplyType
<1>8. ClientPart'
  BY <1>p, <1>3 DEF ExecuteCommandAlone, ClientPart
<1> QED  BY <1>6, <1>7, <1>8, UnchangedParts, WellFormedParts
         DEF ExecuteCommandAlone

LEMMA CommandRetryType ==
  ASSUME WellFormed, NEW c \in commands, CommandRetry(c)
  PROVE  WellFormed'
<1>1. TypeOK /\ IndexIsPosition /\ ContiguousRequests
  BY DEF WellFormed
<1>p. /\ RolePart /\ TermPart /\ LogPart /\ CommitPart /\ LeaderPart
      /\ TallyPart /\ ClientPart /\ VotePart /\ AppendPart /\ HistoryPart
  BY WellFormedParts
<1>2. c \in Command
  BY <1>p DEF ClientPart
<1>3. c.node \in Node /\ c.entry \in Entry
  BY <1>2 DEF Command
<1>4. AppendPart'
  <2>1. /\ Replicate(c.node, c.entry, log[c.node]) \subseteq AppendRequest
        /\ \A m \in Replicate(c.node, c.entry, log[c.node]) :
             \A k \in DOMAIN m.entries :
               m.entries[k].index = m.prevLogIndex + k
    BY <1>1, <1>3, NodeLogType, ReplicateType
  <2> QED  BY <1>p, <2>1
           DEF AppendPart, ContiguousRequests, CommandRetry, BroadcastFor
<1>5. ClientPart'
  BY <1>p, <1>2 DEF ClientPart, CommandRetry, MoveCommand, Command
<1> QED  BY <1>4, <1>5, UnchangedParts, WellFormedParts DEF CommandRetry, nodeVars

LEMMA CommandCommittedType ==
  ASSUME WellFormed, NEW c \in commands, CommandCommitted(c)
  PROVE  WellFormed'
<1>1. TypeOK /\ IndexIsPosition /\ ContiguousRequests
  BY DEF WellFormed
<1>p. /\ RolePart /\ TermPart /\ LogPart /\ CommitPart /\ LeaderPart
      /\ TallyPart /\ ClientPart /\ VotePart /\ AppendPart /\ HistoryPart
  BY WellFormedParts
<1>2. c \in Command
  BY <1>p DEF ClientPart
<1>3. c.node \in Node /\ c.entry \in Entry
  BY <1>2 DEF Command
<1>4. AppendPart'
  <2>1. /\ Replicate(c.node, c.entry, log[c.node]) \subseteq AppendRequest
        /\ \A m \in Replicate(c.node, c.entry, log[c.node]) :
             \A k \in DOMAIN m.entries :
               m.entries[k].index = m.prevLogIndex + k
    BY <1>1, <1>3, NodeLogType, ReplicateType
  <2> QED  BY <1>p, <2>1
           DEF AppendPart, ContiguousRequests, CommandCommitted, BroadcastFor
<1>5. ClientPart'
  BY <1>p, <1>2 DEF ClientPart, CommandCommitted, MoveCommand, Command
<1> QED  BY <1>4, <1>5, UnchangedParts, WellFormedParts DEF CommandCommitted, nodeVars

LEMMA StopType ==
  ASSUME WellFormed, NEW n \in Node, Stop(n)
  PROVE  WellFormed'
<1>1. TypeOK /\ IndexIsPosition /\ ContiguousRequests
  BY DEF WellFormed
<1>p. /\ RolePart /\ TermPart /\ LogPart /\ CommitPart /\ LeaderPart
      /\ TallyPart /\ ClientPart /\ VotePart /\ AppendPart /\ HistoryPart
  BY WellFormedParts
<1>2. ClientPart'
  <2>1. ASSUME NEW c \in commands
        PROVE  [c EXCEPT !.live = @ /\ c.node # n] \in Command
    <3>1. c \in Command
      BY <1>p DEF ClientPart
    <3>2. PICK b \in BOOLEAN : b = (c.live /\ c.node # n)
      OBVIOUS
    <3>3. [c EXCEPT !.live = b] \in Command
      BY <3>1 DEF Command
    <3> QED  BY <3>2, <3>3
  <2>2. /\ commands' = {[c EXCEPT !.live = @ /\ c.node # n] : c \in commands}
        /\ acked' = acked
    BY DEF Stop
  <2> QED  BY <1>p, <2>1, <2>2 DEF ClientPart
<1>3. VotePart' /\ AppendPart'
  BY <1>p DEF Stop, VotePart, AppendPart, ContiguousRequests
<1>4. RolePart'
  BY <1>p DEF Stop, RolePart
<1> QED  BY <1>2, <1>3, <1>4, UnchangedParts, WellFormedParts DEF Stop

LEMMA RestartType ==
  ASSUME WellFormed, NEW n \in Node, Restart(n)
  PROVE  WellFormed'
<1>1. TypeOK /\ IndexIsPosition /\ ContiguousRequests
  BY DEF WellFormed
<1>p. /\ RolePart /\ TermPart /\ LogPart /\ CommitPart /\ LeaderPart
      /\ TallyPart /\ ClientPart /\ VotePart /\ AppendPart /\ HistoryPart
  BY WellFormedParts
<1>2. CommitPart'
  <2>1. PICK s \in Seq(Entry) : s = NoEntries /\ Len(s) = 0
    <3>1. NoEntries \in Seq(Entry) /\ Len(NoEntries) = 0
      BY DEF NoEntries
    <3> QED  BY <3>1
  <2>2. /\ commitIndex' = [commitIndex EXCEPT ![n] = 0]
        /\ lastApplied' = [lastApplied EXCEPT ![n] = 0]
        /\ applied' = [applied EXCEPT ![n] = s]
    BY <2>1 DEF Restart
  <2>3. /\ commitIndex' \in [Node -> Nat] /\ lastApplied' \in [Node -> Nat]
        /\ applied' \in [Node -> Seq(Entry)]
    BY <1>p, <2>2 DEF CommitPart
  <2>4. ASSUME NEW m \in Node
        PROVE  commitIndex'[m] <= lastApplied'[m]
                 /\ Len(applied'[m]) = lastApplied'[m]
    <3>1. CASE m = n
      BY <1>p, <2>1, <2>2, <3>1 DEF CommitPart
    <3>2. CASE m # n
      BY <1>p, <2>2, <3>2 DEF CommitPart, CommittedIsApplied, NoSkippedApply
    <3> QED  BY <3>1, <3>2
  <2> QED  BY <2>3, <2>4 DEF CommitPart, CommittedIsApplied, NoSkippedApply
<1>3. LeaderPart'
  BY <1>p DEF Restart, LeaderPart
<1>4. RolePart'
  BY <1>p DEF Restart, Reborn, RolePart, Role, Follower
<1>5. ClientPart'
  BY <1>p DEF Restart, ClientPart
<1> QED  BY <1>2, <1>3, <1>4, <1>5, UnchangedParts, WellFormedParts DEF Restart

LEMMA AddNodeType ==
  ASSUME WellFormed, NEW n \in Node, AddNode(n)
  PROVE  WellFormed'
<1>1. /\ RolePart /\ TermPart /\ LogPart /\ CommitPart /\ LeaderPart
      /\ TallyPart /\ ClientPart /\ VotePart /\ AppendPart /\ HistoryPart
  BY WellFormedParts
<1>2. RolePart'
  BY <1>1 DEF AddNode, RolePart
<1> QED  BY <1>2, UnchangedParts, WellFormedParts DEF AddNode

-----------------------------------------------------------------------------
\* Initially every node is an empty follower; every part is well formed.
LEMMA WellFormedInit == Init => WellFormed
<1> SUFFICES ASSUME Init PROVE WellFormed
  OBVIOUS
<1>1. PICK s \in Seq(Entry) : s = NoEntries /\ Len(s) = 0
  <2>1. NoEntries \in Seq(Entry) /\ Len(NoEntries) = 0
    BY DEF NoEntries
  <2> QED  BY <2>1
<1>2. RolePart /\ TermPart
  BY InitialAssumption DEF Init, RolePart, TermPart, Role, Follower
<1>3. LogPart
  <2>1. log \in [Node -> Seq(Entry)] /\ accepted = {}
    BY <1>1 DEF Init
  <2>2. ASSUME NEW n \in Node PROVE Positioned(log[n])
    BY DEF Init, NoEntries, Positioned
  <2> QED  BY <2>1, <2>2 DEF LogPart, IndexIsPosition
<1>4. CommitPart
  BY <1>1 DEF Init, CommitPart, CommittedIsApplied, NoSkippedApply
<1>5. LeaderPart /\ TallyPart
  BY DEF Init, LeaderPart, TallyPart
<1>6. ClientPart /\ VotePart /\ AppendPart /\ HistoryPart
  BY DEF Init, ClientPart, VotePart, AppendPart, ContiguousRequests, HistoryPart
<1> QED  BY <1>2, <1>3, <1>4, <1>5, <1>6, WellFormedParts

\* No step leaves the well-formed states.
LEMMA WellFormedStep == WellFormed /\ [Next]_vars => WellFormed'
<1> SUFFICES ASSUME WellFormed, [Next]_vars PROVE WellFormed'
  OBVIOUS
<1>p. /\ RolePart /\ TermPart /\ LogPart /\ CommitPart /\ LeaderPart
      /\ TallyPart /\ ClientPart /\ VotePart /\ AppendPart /\ HistoryPart
  BY WellFormedParts
<1>1. ASSUME NEW n \in Node, StartElection(n) PROVE WellFormed'
  BY <1>1, StartElectionType
<1>2. ASSUME NEW n \in Node, StartElectionAlone(n) PROVE WellFormed'
  BY <1>2, StartElectionAloneType
<1>3. ASSUME NEW n \in Node, Heartbeat(n) PROVE WellFormed'
  BY <1>3, HeartbeatType
<1>4. ASSUME NEW n \in Node, ExecuteCommand(n) PROVE WellFormed'
  BY <1>4, ExecuteCommandType
<1>5. ASSUME NEW n \in Node, ExecuteCommandAlone(n) PROVE WellFormed'
  BY <1>5, ExecuteCommandAloneType
<1>6. ASSUME NEW n \in Node, Stop(n) PROVE WellFormed'
  BY <1>6, StopType
<1>7. ASSUME NEW n \in Node, Revive(n) PROVE WellFormed'
  <2>1. RolePart'
    BY <1>p, <1>7 DEF Revive, Reborn, RolePart, Role, Follower
  <2> QED  BY <1>7, <2>1, UnchangedParts, WellFormedParts DEF Revive
<1>8. ASSUME NEW n \in Node, Restart(n) PROVE WellFormed'
  BY <1>8, RestartType
<1>9. ASSUME NEW m \in voteRequests, HandleRequestVote(m) PROVE WellFormed'
  BY <1>9, HandleRequestVoteType
<1>10. ASSUME NEW m \in voteRequests, LoseVoteRequest(m) PROVE WellFormed'
  <2>1. VotePart'
    BY <1>p, <1>10 DEF LoseVoteRequest, VotePart
  <2> QED  BY <1>10, <2>1, UnchangedParts, WellFormedParts
           DEF LoseVoteRequest, nodeVars
<1>11. ASSUME NEW m \in voteRequests, VoteCallTimesOut(m) PROVE WellFormed'
  <2>1. [m EXCEPT !.awaited = FALSE] \in VoteRequest
    BY <1>p DEF VotePart, VoteRequest
  <2>2. VotePart'
    BY <1>p, <1>11, <2>1 DEF VoteCallTimesOut, GiveUp, VotePart
  <2> QED  BY <1>11, <2>2, UnchangedParts, WellFormedParts
           DEF VoteCallTimesOut, nodeVars
<1>12. ASSUME NEW r \in voteReplies, VoteReplyIgnored(r) PROVE WellFormed'
  <2>1. VotePart'
    BY <1>p, <1>12 DEF VoteReplyIgnored, VotePart
  <2> QED  BY <1>12, <2>1, UnchangedParts, WellFormedParts
           DEF VoteReplyIgnored, nodeVars
<1>13. ASSUME NEW r \in voteReplies, VoteReplyStepDown(r) PROVE WellFormed'
  <2>1. r.to \in Node /\ r.term \in Nat
    BY <1>p DEF VotePart, VoteReply
  <2>2. BecomeFollower(r.to, r.term) /\ UNCHANGED <<clusterVars, leaderId>>
    BY <1>13 DEF VoteReplyStepDown
  <2>3. RolePart' /\ TermPart'
    BY <1>p, <2>1, <2>2 DEF BecomeFollower, clusterVars, RolePart, TermPart,
                           Role, Follower
  <2>4. VotePart'
    BY <1>p, <1>13 DEF VoteReplyStepDown, VotePart
  <2> QED  BY <1>13, <2>3, <2>4, UnchangedParts, WellFormedParts
           DEF VoteReplyStepDown
<1>14. ASSUME NEW r \in voteReplies, VoteReplyCounted(r) PROVE WellFormed'
  BY <1>14, VoteReplyCountedType
<1>15. ASSUME NEW r \in voteReplies, LoseVoteReply(r) PROVE WellFormed'
  <2>1. VotePart'
    BY <1>p, <1>15 DEF LoseVoteReply, VotePart
  <2> QED  BY <1>15, <2>1, UnchangedParts, WellFormedParts
           DEF LoseVoteReply, nodeVars
<1>16. ASSUME NEW m \in appendRequests, RejectStaleAppend(m) PROVE WellFormed'
  BY <1>16, RejectStaleAppendType
<1>17. ASSUME NEW m \in appendRequests, RejectAppend(m) PROVE WellFormed'
  BY <1>17, RejectAppendType
<1>18. ASSUME NEW m \in appendRequests, AcceptAppend(m) PROVE WellFormed'
  BY <1>18, AcceptAppendType
<1>19. ASSUME NEW m \in appendRequests, LoseAppendRequest(m) PROVE WellFormed'
  <2>1. AppendPart'
    BY <1>p, <1>19 DEF LoseAppendRequest, AppendPart, ContiguousRequests
  <2> QED  BY <1>19, <2>1, UnchangedParts, WellFormedParts
           DEF LoseAppendRequest, nodeVars
<1>20. ASSUME NEW m \in appendRequests, AppendCallTimesOut(m) PROVE WellFormed'
  <2>0. m \in AppendRequest
    BY <1>p DEF AppendPart
  <2>1. /\ [m EXCEPT !.awaited = FALSE] \in AppendRequest
        /\ [m EXCEPT !.awaited = FALSE].entries = m.entries
        /\ [m EXCEPT !.awaited = FALSE].prevLogIndex = m.prevLogIndex
    BY <2>0 DEF AppendRequest
  <2>2. PICK late \in AppendRequest :
          /\ late = [m EXCEPT !.awaited = FALSE]
          /\ late.entries = m.entries /\ late.prevLogIndex = m.prevLogIndex
    BY <2>1
  <2>3. /\ appendRequests' = (appendRequests \ {m}) \cup {late}
        /\ appendReplies' = appendReplies
    BY <1>20, <2>2 DEF AppendCallTimesOut, GiveUp
  <2>4. AppendPart'
    BY <1>p, <2>2, <2>3 DEF AppendPart, ContiguousRequests
  <2> QED  BY <1>20, <2>4, UnchangedParts, WellFormedParts
           DEF AppendCallTimesOut, nodeVars
<1>21. ASSUME NEW r \in appendReplies, AppendReplyIgnored(r) PROVE WellFormed'
  <2>1. AppendPart'
    BY <1>p, <1>21 DEF AppendReplyIgnored, AppendPart, ContiguousRequests
  <2> QED  BY <1>21, <2>1, UnchangedParts, WellFormedParts
           DEF AppendReplyIgnored, nodeVars
<1>22. ASSUME NEW r \in appendReplies, AppendReplyStepDown(r) PROVE WellFormed'
  <2>1. r.to \in Node /\ r.term \in Nat
    BY <1>p DEF AppendPart, AppendReply
  <2>2. BecomeFollower(r.to, r.term) /\ UNCHANGED <<clusterVars, leaderId>>
    BY <1>22 DEF AppendReplyStepDown
  <2>3. RolePart' /\ TermPart'
    BY <1>p, <2>1, <2>2 DEF BecomeFollower, clusterVars, RolePart, TermPart,
                           Role, Follower
  <2>4. AppendPart'
    BY <1>p, <1>22 DEF AppendReplyStepDown, AppendPart, ContiguousRequests
  <2> QED  BY <1>22, <2>3, <2>4, UnchangedParts, WellFormedParts
           DEF AppendReplyStepDown
<1>23. ASSUME NEW r \in appendReplies, AppendReplySuccess(r) PROVE WellFormed'
  BY <1>23, AppendReplySuccessType
<1>24. ASSUME NEW r \in appendReplies, AppendReplyFailure(r) PROVE WellFormed'
  BY <1>24, AppendReplyFailureType
<1>25. ASSUME NEW r \in appendReplies, LoseAppendReply(r) PROVE WellFormed'
  <2>1. AppendPart'
    BY <1>p, <1>25 DEF LoseAppendReply, AppendPart, ContiguousRequests
  <2> QED  BY <1>25, <2>1, UnchangedParts, WellFormedParts
           DEF LoseAppendReply, nodeVars
<1>26. ASSUME NEW c \in commands, CommandRetry(c) PROVE WellFormed'
  BY <1>26, CommandRetryType
<1>27. ASSUME NEW c \in commands, CommandCommitted(c) PROVE WellFormed'
  BY <1>27, CommandCommittedType
<1>28. ASSUME NEW c \in commands, CommandPending(c) PROVE WellFormed'
  <2>1. ClientPart'
    BY <1>p, <1>28 DEF CommandPending, MoveCommand, ClientPart, Command
  <2> QED  BY <1>28, <2>1, UnchangedParts, WellFormedParts
           DEF CommandPending, nodeVars
<1>29. ASSUME NEW c \in commands, CommandReturns(c) PROVE WellFormed'
  <2>1. commands' = commands \ {c} /\ acked' \subseteq acked \cup {c.entry}
    BY <1>29 DEF CommandReturns, ReturnTrue, ReturnFalse
  <2>2. c.entry \in Entry
    BY <1>p DEF ClientPart, Command
  <2>3. ClientPart'
    BY <1>p, <2>1, <2>2 DEF ClientPart
  <2> QED  BY <1>29, <2>3, UnchangedParts, WellFormedParts
           DEF CommandReturns, nodeVars
<1>30. ASSUME NEW n \in Node, AddNode(n) PROVE WellFormed'
  BY <1>30, AddNodeType
<1>31. CASE UNCHANGED vars
  BY <1>31, UnchangedParts, WellFormedParts DEF vars, nodeVars
<1> QED
  BY <1>1, <1>2, <1>3, <1>4, <1>5, <1>6, <1>7, <1>8, <1>9, <1>10,
         <1>11, <1>12, <1>13, <1>14, <1>15, <1>16, <1>17, <1>18, <1>19,
         <1>20, <1>21, <1>22, <1>23, <1>24, <1>25, <1>26, <1>27, <1>28,
         <1>29, <1>30, <1>31
  DEF Next, NodeStep, VoteRequestStep, VoteReplyStep, AppendRequestStep,
      AppendReplyStep, CommandStep

\* The bookkeeping of every reachable state is sound: types, entry numbers
\* in logs and in requests, and an apply loop that never runs ahead.
THEOREM WellFormedAlways == Spec => []WellFormed
BY WellFormedInit, WellFormedStep, PTL DEF Spec

\* For any number of nodes, with no bound on terms, logs or calls.
THEOREM TypeCorrect == Spec => []TypeOK
<1>1. WellFormed => TypeOK
  BY DEF WellFormed
<1> QED  BY <1>1, WellFormedAlways, PTL

\* The index in every log entry is its position, so last_log_index and
\* len(log) are one number wherever the code uses one for the other.
THEOREM IndexIsPositionAlways == Spec => []IndexIsPosition
<1>1. WellFormed => IndexIsPosition
  BY DEF WellFormed
<1> QED  BY <1>1, WellFormedAlways, PTL

\* apply_entries_to_state_machine never counts an index it did not apply.
THEOREM NoSkippedApplyAlways == Spec => []NoSkippedApply
<1>1. WellFormed => NoSkippedApply
  BY DEF WellFormed
<1> QED  BY <1>1, WellFormedAlways, PTL
=============================================================================
