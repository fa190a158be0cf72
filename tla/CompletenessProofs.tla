-------------------------- MODULE CompletenessProofs --------------------------
(***************************************************************************)
(* Later leaders have what a quorum stored, and who stored it keeps it, for*)
(* every set of nodes, of which one may be added.  The argument is about   *)
(* the entries that may still become chosen.  They only get fewer: a node  *)
(* that left a term does not store an entry of it in that term any more.   *)
(* A node that is elected in a later term got the vote of one that stored  *)
(* the entry before it voted, and the vote needed a log as good as its own.*)
(* The last section is about a cluster of one node, over all its lives.    *)
(***************************************************************************)
EXTENDS LogProofs

\* What the cluster has been and, while no node has been added, may become.
Clusters ==
    memberships \cup {C \in {members \cup {n} : n \in Node} :
                        memberships = {members}}

\* n stored e in the entry's own term, or has not left that term.
MayStore(n, e) == <<n, e>> \in accepted \/ currentTerm[n] <= e.term

\* The entries that are chosen, or may still become so.
Choosable ==
    {e \in {a[2] : a \in accepted} : \E C \in Clusters :
        Cardinality({n \in C : MayStore(n, e)}) >= QuorumSize(C)}

\* Votes and vote requests are of terms their candidate has reached, and the
\* request of a candidate that still is one describes its log.
VotesOfCandidates ==
    /\ \A v \in votesCast : v[2] <= currentTerm[v[3]]
    /\ \A m \in voteRequests :
         /\ m.term <= currentTerm[m.from]
         /\ role[m.from] = Candidate /\ currentTerm[m.from] = m.term =>
              /\ m.lastLogIndex = LastLogIndex(log[m.from])
              /\ m.lastLogTerm = LastLogTerm(log[m.from])

\* The leader of every later term had them.
ChosenInLedger(W) ==
    \A t \in Won : \A e \in Choosable : e.term < t =>
        e.index \in DOMAIN W[t] /\ W[t][e.index] = e.term

\* Who stored one keeps it.
ChoosableKept ==
    \A n \in Node : \A e \in Choosable : <<n, e>> \in accepted => Stores(n, e)

\* A candidate has those its voters stored.
VotersHandOver ==
    \A n \in Node : role[n] = Candidate =>
        \A v \in Node : \A e \in Choosable :
            /\ <<v, currentTerm[n], n>> \in votesCast
            /\ <<v, e>> \in accepted
            /\ e.term < currentTerm[n]
            => Stores(n, e)

Complete(W) ==
    VotesOfCandidates /\ ChosenInLedger(W) /\ ChoosableKept /\ VotersHandOver

CompletenessInvariant ==
    LeadersElected /\ LogsInTerm /\ \E W : Ledger(W) /\ Complete(W)

\* Behind every later election is a vote of a node that stored the entry.
LaterVoterStored ==
    \A e \in Choosable, t \in Won : e.term < t =>
        \E c \in Node, v \in Node : /\ <<t, c>> \in elected
                                    /\ <<v, t, c>> \in votesCast
                                    /\ <<v, e>> \in accepted

-----------------------------------------------------------------------------
\* States

LEMMA ClustersFinite ==
  ASSUME TypeOK, NEW C \in Clusters
  PROVE  C \subseteq Node /\ IsFiniteSet(C)
<1>1. C \subseteq Node
  BY DEF TypeOK, Clusters
<1> QED  BY <1>1, NodeAssumption, FS_Subset

\* More nodes that hold a property make a quorum no smaller.
LEMMA QuorumOfMore ==
  ASSUME NEW C, IsFiniteSet(C), NEW P \in SUBSET C, NEW Q \in SUBSET C,
         P \subseteq Q, Cardinality(P) >= QuorumSize(C)
  PROVE  Cardinality(Q) >= QuorumSize(C)
<1>1. IsFiniteSet(P) /\ IsFiniteSet(Q)
  BY FS_Subset
<1>2. Cardinality(P) <= Cardinality(Q)
  BY <1>1, FS_Subset
<1>3. /\ Cardinality(P) \in Nat /\ Cardinality(Q) \in Nat
      /\ Cardinality(C) \in Nat
  BY <1>1, FS_CardinalityType
<1>4. QuorumSize(C) \in Int
  BY <1>3 DEF QuorumSize
<1> QED  BY <1>2, <1>3, <1>4

\* What is chosen may be chosen.
LEMMA ChosenIsChoosable ==
  ASSUME TypeOK PROVE Chosen \subseteq Choosable
<1> SUFFICES ASSUME NEW e \in Chosen PROVE e \in Choosable
  OBVIOUS
<1>1. PICK C \in memberships :
        Cardinality({n \in C : <<n, e>> \in accepted}) >= QuorumSize(C)
  BY DEF Chosen
<1>2. C \in Clusters
  BY DEF Clusters
<1>3. Cardinality({n \in C : MayStore(n, e)}) >= QuorumSize(C)
  <2>1. PICK P \in SUBSET C : P = {n \in C : <<n, e>> \in accepted}
    OBVIOUS
  <2>2. PICK Q \in SUBSET C : Q = {n \in C : MayStore(n, e)}
    OBVIOUS
  <2>3. P \subseteq Q
    BY <2>1, <2>2 DEF MayStore
  <2>4. Cardinality(Q) >= QuorumSize(C)
    BY <1>1, <1>2, <2>1, <2>3, ClustersFinite, QuorumOfMore
  <2> QED  BY <2>2, <2>4
<1> QED  BY <1>2, <1>3 DEF Chosen, Choosable

\* Quorums of what the cluster was and of what it may become share a voter.
LEMMA ClusterQuorumsIntersect ==
  ASSUME TypeOK, OneAddition, NEW C \in memberships, NEW D \in Clusters,
         NEW P \in SUBSET C, Cardinality(P) >= QuorumSize(C),
         NEW Q \in SUBSET D, Cardinality(Q) >= QuorumSize(D)
  PROVE  \E v \in P : v \in Q
<1>1. CASE D \in memberships
  BY <1>1, MembershipQuorumsIntersect
<1>2. CASE D \notin memberships
  <2>1. PICK n \in Node : D = members \cup {n} /\ memberships = {members}
    BY <1>2 DEF Clusters
  <2>2. C = members /\ IsFiniteSet(C) /\ n \notin C
    <3>1. C = members
      BY <2>1
    <3>2. C \subseteq Node
      BY DEF TypeOK
    <3>3. n \notin C
      BY <1>2, <2>1, <3>1
    <3> QED  BY <3>1, <3>2, <3>3, NodeAssumption, FS_Subset
  <2>3. P \cap Q # {}
    BY <2>1, <2>2, NeighbouringQuorumsIntersect
  <2> QED  BY <2>3
<1> QED  BY <1>1, <1>2

LEMMA VoterStored ==
  TypeOK /\ ElectionInvariant /\ OneAddition => LaterVoterStored
<1> SUFFICES ASSUME TypeOK, ElectionInvariant, OneAddition,
                    NEW e \in Choosable, NEW t \in Won, e.term < t
             PROVE  \E c \in Node, v \in Node : /\ <<t, c>> \in elected
                                                /\ <<v, t, c>> \in votesCast
                                                /\ <<v, e>> \in accepted
  BY DEF LaterVoterStored
<1>1. PICK c \in Node : <<t, c>> \in elected /\ t \in Nat
  <2>1. elected \subseteq Nat \X Node
    BY DEF TypeOK
  <2>2. PICK a \in elected : a[1] = t
    BY DEF Won
  <2>3. a[2] \in Node /\ t \in Nat /\ a = <<t, a[2]>>
    BY <2>1, <2>2
  <2> QED  BY <2>3
<1>2. PICK C \in memberships, P \in SUBSET Node :
        QuorumVoted(votesCast, C, P, t, c)
  <2>1. \E C \in memberships, P \in SUBSET Node :
          QuorumVoted(votesCast, C, P, <<t, c>>[1], <<t, c>>[2])
    BY <1>1 DEF ElectionInvariant, ElectedByQuorum
  <2> QED  BY <2>1
<1>3. PICK D \in Clusters :
        Cardinality({n \in D : MayStore(n, e)}) >= QuorumSize(D)
  BY DEF Choosable
<1>4. PICK Q \in SUBSET D : Q = {n \in D : MayStore(n, e)}
  OBVIOUS
<1>5. PICK v \in P : v \in Q
  <2>1. P \in SUBSET C /\ Cardinality(P) >= QuorumSize(C)
    BY <1>2 DEF QuorumVoted
  <2>2. Cardinality(Q) >= QuorumSize(D)
    BY <1>3, <1>4
  <2> QED  BY <2>1, <2>2, ClusterQuorumsIntersect
<1>6. <<v, t, c>> \in votesCast /\ v \in Node
  BY <1>2, <1>5 DEF QuorumVoted
<1>7. t <= currentTerm[v] /\ currentTerm[v] \in Nat
  <2>1. <<v, t, c>>[2] <= currentTerm[<<v, t, c>>[1]]
    BY <1>6 DEF ElectionInvariant, VotesRemembered
  <2> QED  BY <1>6, <2>1 DEF TypeOK
<1>8. e.term \in Nat
  <2>1. accepted \subseteq Node \X Entry
    BY DEF TypeOK
  <2>2. e \in Entry
    BY <2>1 DEF Choosable
  <2> QED  BY <2>2, EntryFields
<1>9. <<v, e>> \in accepted
  BY <1>1, <1>4, <1>5, <1>7, <1>8 DEF MayStore
<1> QED  BY <1>1, <1>6, <1>9

-----------------------------------------------------------------------------
\* What steps there are, as far as this argument tells them apart

\* A command entered a leader's log.
Submit(n) ==
    /\ role[n] = Leader
    /\ log' = [log EXCEPT ![n] = Append(@, NewEntry(n))]
    /\ accepted' = accepted \cup {<<n, NewEntry(n)>>}
    /\ UNCHANGED <<currentTerm, role, votesCast, elected, voteRequests>>

LEMMA StepsOnLogs ==
  ASSUME [Next]_vars
  PROVE  \/ UNCHANGED <<log, accepted>>
         \/ \E n \in Node : Submit(n)
         \/ \E m \in appendRequests : AcceptAppend(m)
<1> USE DEF nodeVars, clusterVars, roleVars, termVars, logVars, voteCalls,
            historyVars
<1>1. CASE UNCHANGED vars
  BY <1>1 DEF vars
<1>2. CASE Next
  <2>1. ASSUME NEW n \in Node, NodeStep(n)
        PROVE  Submit(n) \/ UNCHANGED <<log, accepted>>
    <3>1. ASSUME ExecuteCommand(n) \/ ExecuteCommandAlone(n) PROVE Submit(n)
      BY <3>1 DEF ExecuteCommand, ExecuteCommandAlone, AcceptsCommand, Submit
    <3>2. \/ ExecuteCommand(n) \/ ExecuteCommandAlone(n)
          \/ UNCHANGED <<log, accepted>>
      BY <2>1 DEF NodeStep, StartElection, StartElectionAlone, Heartbeat,
                  Stop, Revive, Restart, AddNode
    <3> QED  BY <3>1, <3>2
  <2>2. ASSUME NEW m \in voteRequests, VoteRequestStep(m)
        PROVE  UNCHANGED <<log, accepted>>
    BY <2>2 DEF VoteRequestStep, HandleRequestVote, LoseVoteRequest,
                VoteCallTimesOut
  <2>3. ASSUME NEW r \in voteReplies, VoteReplyStep(r)
        PROVE  UNCHANGED <<log, accepted>>
    BY <2>3 DEF VoteReplyStep, VoteReplyIgnored, VoteReplyStepDown,
                VoteReplyCounted, LoseVoteReply
  <2>4. ASSUME NEW m \in appendRequests, AppendRequestStep(m)
        PROVE  AcceptAppend(m) \/ UNCHANGED <<log, accepted>>
    BY <2>4 DEF AppendRequestStep, RejectStaleAppend, RejectAppend,
                LoseAppendRequest, AppendCallTimesOut
  <2>5. ASSUME NEW r \in appendReplies, AppendReplyStep(r)
        PROVE  UNCHANGED <<log, accepted>>
    BY <2>5 DEF AppendReplyStep, AppendReplyIgnored, AppendReplyStepDown,
                AppendReplySuccess, AppendReplyFailure, LoseAppendReply
  <2>6. ASSUME NEW c \in commands, CommandStep(c)
        PROVE  UNCHANGED <<log, accepted>>
    BY <2>6 DEF CommandStep, CommandRetry, CommandCommitted, CommandPending,
                CommandReturns
  <2> QED  BY <1>2, <2>1, <2>2, <2>3, <2>4, <2>5, <2>6 DEF Next
<1> QED  BY <1>1, <1>2

\* m asks for the same vote as a request that was there before.
Resent(m) == \E k \in voteRequests : /\ m.from = k.from
                                     /\ m.term = k.term
                                     /\ m.lastLogIndex = k.lastLogIndex
                                     /\ m.lastLogTerm = k.lastLogTerm

LEMMA StepsOnVotes ==
  ASSUME TypeOK, [Next]_vars
  PROVE  \/ UNCHANGED votesCast /\ \A m \in voteRequests' : Resent(m)
         \/ \E n \in Node : StartElection(n) \/ StartElectionAlone(n)
         \/ \E m \in voteRequests : HandleRequestVote(m)
<1> USE DEF voteCalls, historyVars
<1> DEFINE Quietly == UNCHANGED votesCast /\ \A m \in voteRequests' : Resent(m)
<1>1. voteRequests' \subseteq voteRequests => \A m \in voteRequests' : Resent(m)
  BY DEF Resent
<1>2. CASE UNCHANGED vars
  BY <1>1, <1>2 DEF vars
<1>3. ASSUME NEW m \in voteRequests, VoteCallTimesOut(m) PROVE Quietly
  <2>1. \A k \in voteRequests' :
          k \in voteRequests \/ k = [m EXCEPT !.awaited = FALSE]
    BY <1>3 DEF VoteCallTimesOut, GiveUp
  <2>2. /\ [m EXCEPT !.awaited = FALSE].from = m.from
        /\ [m EXCEPT !.awaited = FALSE].term = m.term
        /\ [m EXCEPT !.awaited = FALSE].lastLogIndex = m.lastLogIndex
        /\ [m EXCEPT !.awaited = FALSE].lastLogTerm = m.lastLogTerm
    BY DEF TypeOK, VoteRequest
  <2>3. UNCHANGED votesCast
    BY <1>3 DEF VoteCallTimesOut
  <2> QED  BY <2>1, <2>2, <2>3 DEF Resent
<1>4. CASE Next
  <2>1. ASSUME NEW n \in Node, NodeStep(n)
        PROVE  \/ StartElection(n) \/ StartElectionAlone(n)
               \/ UNCHANGED votesCast /\ voteRequests' \subseteq voteRequests
    BY <2>1 DEF NodeStep, Heartbeat, ExecuteCommand, ExecuteCommandAlone,
                Stop, Revive, Restart, AddNode
  <2>2. ASSUME NEW m \in voteRequests, VoteRequestStep(m)
        PROVE  HandleRequestVote(m) \/ Quietly
    <3>1. ASSUME LoseVoteRequest(m)
          PROVE  UNCHANGED votesCast /\ voteRequests' \subseteq voteRequests
      BY <3>1 DEF LoseVoteRequest
    <3> QED  BY <1>1, <1>3, <2>2, <3>1 DEF VoteRequestStep
  <2>3. ASSUME NEW r \in voteReplies, VoteReplyStep(r)
        PROVE  UNCHANGED <<votesCast, voteRequests>>
    BY <2>3 DEF VoteReplyStep, VoteReplyIgnored, VoteReplyStepDown,
                VoteReplyCounted, LoseVoteReply
  <2>4. ASSUME NEW m \in appendRequests, AppendRequestStep(m)
        PROVE  UNCHANGED <<votesCast, voteRequests>>
    BY <2>4 DEF AppendRequestStep, RejectStaleAppend, RejectAppend,
                AcceptAppend, FollowLeader, LoseAppendRequest,
                AppendCallTimesOut
  <2>5. ASSUME NEW r \in appendReplies, AppendReplyStep(r)
        PROVE  UNCHANGED <<votesCast, voteRequests>>
    BY <2>5 DEF AppendReplyStep, AppendReplyIgnored, AppendReplyStepDown,
                AppendReplySuccess, AppendReplyFailure, LoseAppendReply
  <2>6. ASSUME NEW c \in commands, CommandStep(c)
        PROVE  UNCHANGED <<votesCast, voteRequests>>
    BY <2>6 DEF CommandStep, CommandRetry, CommandCommitted, CommandPending,
                CommandReturns
  <2> QED  BY <1>1, <1>4, <2>1, <2>2, <2>3, <2>4, <2>5, <2>6 DEF Next
<1> QED  BY <1>2, <1>4

LEMMA StepsOnRoles ==
  ASSUME TypeOK, [Next]_vars
  PROVE  \/ UNCHANGED <<currentTerm, role, elected>>
         \/ \E n \in Node, t \in Nat :
              /\ t >= currentTerm[n]
              /\ BecomeFollower(n, t)
              /\ UNCHANGED elected
         \/ \E n \in Node : Reborn(n) /\ UNCHANGED <<currentTerm, elected>>
         \/ \E n \in Node : StartElection(n) \/ StartElectionAlone(n)
         \/ \E m \in voteRequests : HandleRequestVote(m)
         \/ \E r \in voteReplies : VoteReplyCounted(r)
<1> USE DEF nodeVars, clusterVars, roleVars, termVars, historyVars
<1> DEFINE Quietly == UNCHANGED <<currentTerm, role, elected>>
           Follows == \E n \in Node, t \in Nat :
                        /\ t >= currentTerm[n]
                        /\ BecomeFollower(n, t)
                        /\ UNCHANGED elected
<1>1. CASE UNCHANGED vars
  BY <1>1 DEF vars
<1>2. CASE Next
  <2>1. ASSUME NEW n \in Node, NodeStep(n)
        PROVE  \/ StartElection(n) \/ StartElectionAlone(n) \/ Quietly
               \/ Reborn(n) /\ UNCHANGED <<currentTerm, elected>>
    BY <2>1 DEF NodeStep, Heartbeat, ExecuteCommand, ExecuteCommandAlone,
                Stop, Revive, Restart, AddNode
  <2>2. ASSUME NEW m \in voteRequests, VoteRequestStep(m)
        PROVE  HandleRequestVote(m) \/ Quietly
    BY <2>2 DEF VoteRequestStep, LoseVoteRequest, VoteCallTimesOut
  <2>3. ASSUME NEW r \in voteReplies, VoteReplyStep(r)
        PROVE  VoteReplyCounted(r) \/ Follows \/ Quietly
    <3>1. ASSUME VoteReplyStepDown(r) PROVE Follows
      <4>1. r.to \in Node /\ r.term \in Nat /\ currentTerm[r.to] \in Nat
        BY DEF TypeOK, VoteReply
      <4>2. /\ r.term >= currentTerm[r.to] /\ BecomeFollower(r.to, r.term)
            /\ UNCHANGED elected
        BY <3>1, <4>1 DEF VoteReplyStepDown
      <4> QED  BY <4>1, <4>2
    <3> QED  BY <2>3, <3>1 DEF VoteReplyStep, VoteReplyIgnored, LoseVoteReply
  <2>4. ASSUME NEW m \in appendRequests, AppendRequestStep(m)
        PROVE  Follows \/ Quietly
    <3>1. ASSUME FollowLeader(m) PROVE Follows
      <4>1. m.to \in Node /\ m.term \in Nat
        BY AppendRequestFields
      <4> QED  BY <3>1, <4>1 DEF FollowLeader
    <3> QED  BY <2>4, <3>1 DEF AppendRequestStep, RejectStaleAppend,
                RejectAppend, AcceptAppend, LoseAppendRequest,
                AppendCallTimesOut
  <2>5. ASSUME NEW r \in appendReplies, AppendReplyStep(r)
        PROVE  Follows \/ Quietly
    <3>1. ASSUME AppendReplyStepDown(r) PROVE Follows
      <4>1. r.to \in Node /\ r.term \in Nat /\ currentTerm[r.to] \in Nat
        BY DEF TypeOK, AppendReply
      <4>2. /\ r.term >= currentTerm[r.to] /\ BecomeFollower(r.to, r.term)
            /\ UNCHANGED elected
        BY <3>1, <4>1 DEF AppendReplyStepDown
      <4> QED  BY <4>1, <4>2
    <3> QED  BY <2>5, <3>1 DEF AppendReplyStep, AppendReplyIgnored,
                AppendReplySuccess, AppendReplyFailure, LoseAppendReply
  <2>6. ASSUME NEW c \in commands, CommandStep(c) PROVE Quietly
    BY <2>6 DEF CommandStep, CommandRetry, CommandCommitted, CommandPending,
                CommandReturns
  <2> QED  BY <1>2, <2>1, <2>2, <2>3, <2>4, <2>5, <2>6 DEF Next
<1> QED  BY <1>1, <1>2

\* Terms grow, and who is a candidate has just begun an election or was one.
LEMMA TermsAndCandidates ==
  ASSUME TypeOK, [Next]_vars, NEW n \in Node
  PROVE  /\ currentTerm[n] \in Nat /\ currentTerm'[n] >= currentTerm[n]
         /\ role'[n] = Candidate =>
              \/ StartElection(n)
              \/ role[n] = Candidate /\ currentTerm'[n] = currentTerm[n]
<1> DEFINE Goal == /\ currentTerm'[n] >= currentTerm[n]
                   /\ role'[n] = Candidate =>
                        \/ StartElection(n)
                        \/ /\ role[n] = Candidate
                           /\ currentTerm'[n] = currentTerm[n]
<1>1. currentTerm[n] \in Nat
  BY DEF TypeOK
<1>2. Demoting => currentTerm'[n] >= currentTerm[n]
  BY DEF Demoting
<1>3. CASE UNCHANGED <<currentTerm, role, elected>>
  BY <1>1, <1>3
<1>4. ASSUME NEW k \in Node, NEW t \in Nat, t >= currentTerm[k],
             BecomeFollower(k, t), UNCHANGED elected
      PROVE  Goal
  <2>1. currentTerm'[n] >= currentTerm[n]
    BY <1>2, <1>4, BecomeFollowerDemotes
  <2>2. role'[n] = Candidate => role[n] = Candidate /\ k # n
    BY <1>4 DEF BecomeFollower, TypeOK, Follower, Candidate
  <2>3. k # n => currentTerm'[n] = currentTerm[n]
    BY <1>4 DEF BecomeFollower, TypeOK
  <2> QED  BY <2>1, <2>2, <2>3
<1>5. ASSUME NEW k \in Node, Reborn(k), UNCHANGED <<currentTerm, elected>>
      PROVE  Goal
  <2>1. role'[n] = Candidate => role[n] = Candidate
    BY <1>5 DEF Reborn, TypeOK, Follower, Candidate
  <2> QED  BY <1>1, <1>5, <2>1
<1>6. ASSUME NEW k \in Node, StartElection(k) PROVE Goal
  <2>1. currentTerm'[n] >= currentTerm[n]
    BY <1>2, <1>6, StartElectionDemotes
  <2>2. k # n => role'[n] = role[n] /\ currentTerm'[n] = currentTerm[n]
    BY <1>6 DEF StartElection, BecomeCandidate, TypeOK
  <2> QED  BY <1>6, <2>1, <2>2
<1>7. ASSUME NEW k \in Node, StartElectionAlone(k) PROVE Goal
  <2>1. /\ currentTerm' = [currentTerm EXCEPT ![k] = @ + 1]
        /\ role' = [role EXCEPT ![k] = Leader]
    BY <1>7 DEF StartElectionAlone, BecomeCandidate, BecomeLeader
  <2>2. CASE k = n
    <3>1. currentTerm'[n] = currentTerm[n] + 1 /\ role'[n] = Leader
      BY <2>1, <2>2 DEF TypeOK
    <3> QED  BY <1>1, <3>1 DEF Leader, Candidate
  <2>3. CASE k # n
    <3>1. role'[n] = role[n] /\ currentTerm'[n] = currentTerm[n]
      BY <2>1, <2>3 DEF TypeOK
    <3> QED  BY <1>1, <3>1
  <2> QED  BY <2>2, <2>3
<1>8. ASSUME NEW m \in voteRequests, HandleRequestVote(m) PROVE Goal
  <2>1. currentTerm'[n] >= currentTerm[n]
    BY <1>2, <1>8, HandleRequestVoteDemotes
  <2>2. /\ currentTerm' = [currentTerm EXCEPT ![m.to] =
                             IF m.term > currentTerm[m.to]
                             THEN m.term ELSE currentTerm[m.to]]
        /\ role' = [role EXCEPT ![m.to] =
                      IF m.term > currentTerm[m.to] THEN Follower ELSE @]
    BY <1>8 DEF HandleRequestVote
  <2>3. CASE m.to = n /\ m.term > currentTerm[n]
    <3>1. role'[n] = Follower
      BY <2>2, <2>3 DEF TypeOK
    <3> QED  BY <2>1, <3>1 DEF Follower, Candidate
  <2>4. CASE ~(m.to = n /\ m.term > currentTerm[n])
    <3>1. role'[n] = role[n] /\ currentTerm'[n] = currentTerm[n]
      BY <2>2, <2>4 DEF TypeOK
    <3> QED  BY <2>1, <3>1
  <2> QED  BY <2>3, <2>4
<1>9. ASSUME NEW r \in voteReplies, VoteReplyCounted(r) PROVE Goal
  <2>1. /\ UNCHANGED currentTerm
        /\ role' = [role EXCEPT ![r.to] = Leader] \/ UNCHANGED role
    BY <1>9 DEF VoteReplyCounted, BecomeLeader, termVars
  <2>2. role'[n] = Candidate => role[n] = Candidate
    BY <2>1 DEF TypeOK, Leader, Candidate
  <2> QED  BY <1>1, <2>1, <2>2
<1> QED  BY <1>1, <1>3, <1>4, <1>5, <1>6, <1>7, <1>8, <1>9, StepsOnRoles

\* A candidate's log stays.
LEMMA CandidateKeepsLog ==
  ASSUME TypeOK, [Next]_vars, NEW n \in Node, role'[n] = Candidate,
         role[n] = Candidate \/ StartElection(n)
  PROVE  log'[n] = log[n]
<1>1. ASSUME StartElection(n) PROVE log'[n] = log[n]
  BY <1>1 DEF StartElection, logVars
<1>2. ASSUME NEW k \in Node, Submit(k), role[n] = Candidate
      PROVE  log'[n] = log[n]
  <2>1. k # n
    BY <1>2 DEF Submit, Leader, Candidate
  <2> QED  BY <1>2, <2>1 DEF Submit, TypeOK
<1>3. ASSUME NEW m \in appendRequests, AcceptAppend(m) PROVE log'[n] = log[n]
  <2>1. /\ role' = [role EXCEPT ![m.to] = Follower]
        /\ log' = [log EXCEPT ![m.to] = LogAfter(m)]
    BY <1>3 DEF AcceptAppend, FollowLeader, BecomeFollower
  <2>2. m.to # n
    BY <2>1 DEF TypeOK, Follower, Candidate
  <2> QED  BY <2>1, <2>2 DEF TypeOK
<1> QED  BY <1>1, <1>2, <1>3, StepsOnLogs

-----------------------------------------------------------------------------
\* What steps do to the entries that may be chosen

\* An entry is its index and its term.
LEMMA EntryIsThere ==
  ASSUME NEW r \in Seq(Entry), Positioned(r), NEW e \in Entry,
         e.index \in DOMAIN r, r[e.index].term = e.term
  PROVE  r[e.index] = e
<1>1. r[e.index] \in Entry /\ r[e.index].index = e.index
  BY DEF Positioned
<1>2. \A x \in Entry : x = LogEntry(x.index, x.term)
  BY DEF Entry, LogEntry
<1> QED  BY <1>1, <1>2, Zenon

\* An accepted request leaves all its entries in the log.
LEMMA RequestIsStored ==
  ASSUME WellFormed, WellFormed', NEW m \in appendRequests, AcceptAppend(m),
         NEW k \in DOMAIN m.entries
  PROVE  m.entries[k] \in Entry /\ Stores(m.to, m.entries[k])'
<1>t. TypeOK /\ TypeOK' /\ IndexIsPosition /\ IndexIsPosition'
  BY DEF WellFormed
<1> DEFINE n == m.to
           p == m.prevLogIndex
           l == log[n]
           r == log'[n]
<1>1. /\ n \in Node /\ p \in Nat /\ m.entries \in Seq(Entry)
  BY <1>t, AppendRequestFields
<1>2. l \in Seq(Entry) /\ Positioned(l) /\ r \in Seq(Entry) /\ Positioned(r)
  <2>1. l \in Seq(Entry) /\ r \in Seq(Entry)
    BY <1>t, <1>1 DEF TypeOK
  <2>2. Positioned(l) /\ Positioned(r)
    BY <1>t, <1>1 DEF IndexIsPosition
  <2> QED  BY <2>1, <2>2
<1>3. r = AppendLoop(l, m.entries) /\ MatchesPrev(l, p, m.prevLogTerm)
  BY <1>t, <1>1 DEF AcceptAppend, LogAfter, TypeOK
<1>4. p \in 0 .. Len(l)
  BY <1>1, <1>3 DEF MatchesPrev
<1>5. PICK e \in Entry : /\ e = m.entries[k] /\ e.index = p + k
                         /\ e.index \in Nat
  <2>1. m.entries[k].index = p + k
    BY DEF WellFormed, ContiguousRequests
  <2> QED  BY <1>1, <2>1
<1>6. e.index \in DOMAIN r /\ r[e.index].term = e.term
  <2>1. CASE Divergent(l, m.entries) = {}
    <3>1. r = l
      BY <1>3, <2>1 DEF AppendLoop
    <3>2. e.index <= Len(l) /\ l[e.index].term = e.term
      BY <1>5, <2>1 DEF Divergent
    <3> QED  BY <1>1, <1>2, <1>5, <3>1, <3>2
  <2>2. CASE Divergent(l, m.entries) # {}
    <3>1. \A j \in DOMAIN m.entries : m.entries[j].index = p + j
      BY DEF WellFormed, ContiguousRequests
    <3>2. /\ Len(AppendLoop(l, m.entries)) = p + Len(m.entries)
          /\ \A i \in p + 1 .. p + Len(m.entries) :
               AppendLoop(l, m.entries)[i].term = m.entries[i - p].term
      BY <1>1, <1>2, <1>4, <2>2, <3>1, AppendLoopSplices, Zenon
    <3>3. /\ Len(r) = p + Len(m.entries)
          /\ \A i \in p + 1 .. p + Len(m.entries) :
               r[i].term = m.entries[i - p].term
      BY <1>3, <3>2, Zenon
    <3>4. /\ p + k \in p + 1 .. p + Len(m.entries) /\ (p + k) - p = k
          /\ p + k \in 1 .. p + Len(m.entries)
      BY <1>1
    <3>5. r[p + k].term = m.entries[k].term
      BY <3>3, <3>4
    <3> QED  BY <1>2, <1>5, <3>3, <3>4, <3>5
  <2> QED  BY <2>1, <2>2
<1>7. r[e.index] = e
  BY <1>2, <1>6, EntryIsThere
<1> QED  BY <1>5, <1>6, <1>7 DEF Stores

\* Who newly stores an entry in its own term does have it, is in that term
\* and was in no later one, and nobody votes in that step.
LEMMA FreshStored ==
  ASSUME WellFormed, WellFormed', [Next]_vars, NEW n \in Node, NEW e,
         <<n, e>> \in accepted', <<n, e>> \notin accepted
  PROVE  /\ Stores(n, e)'
         /\ e.term \in Nat
         /\ e.term = currentTerm'[n] /\ currentTerm[n] <= e.term
         /\ UNCHANGED votesCast
<1>t. TypeOK /\ TypeOK' /\ IndexIsPosition
  BY DEF WellFormed
<1>1. currentTerm[n] \in Nat /\ currentTerm'[n] \in Nat
  BY <1>t DEF TypeOK
<1>2. ASSUME NEW k \in Node, Submit(k)
      PROVE  /\ Stores(n, e)' /\ e.term = currentTerm'[n]
             /\ currentTerm[n] = e.term /\ UNCHANGED votesCast
  <2>1. k = n /\ e = NewEntry(n)
    BY <1>2 DEF Submit
  <2>2. PICK l \in Seq(Entry), la \in Nat, i \in Nat :
          l = log[n] /\ la = Len(l) /\ LastLogIndex(l) = la /\ i = la + 1
    BY <1>t, NodeLogType
  <2>3. e = LogEntry(i, currentTerm[n])
    BY <2>1, <2>2 DEF NewEntry
  <2>4. e \in Entry /\ e.index = i /\ e.term = currentTerm[n]
    BY <1>1, <2>3, EntryFields
  <2>5. log'[n] = Append(l, e)
    BY <1>t, <1>2, <2>1, <2>2 DEF Submit, TypeOK
  <2>6. i \in DOMAIN Append(l, e) /\ Append(l, e)[i] = e
    BY <2>2
  <2> QED  BY <1>2, <2>4, <2>5, <2>6 DEF Stores, Submit
<1>3. ASSUME NEW m \in appendRequests, AcceptAppend(m)
      PROVE  /\ Stores(n, e)' /\ e.term = currentTerm'[n]
             /\ currentTerm[n] <= e.term /\ UNCHANGED votesCast
  <2>1. PICK x \in Range(m.entries) :
          <<n, e>> = <<m.to, x>> /\ x.term = m.term
    BY <1>3 DEF AcceptAppend
  <2>2. PICK k \in DOMAIN m.entries : e = m.entries[k] /\ e.term = m.term
    BY <2>1 DEF Range
  <2>3. m.to = n
    BY <2>1
  <2>4. Stores(n, e)'
    BY <1>3, <2>2, <2>3, RequestIsStored
  <2>5. /\ m.term >= currentTerm[n] /\ UNCHANGED votesCast
        /\ currentTerm' = [currentTerm EXCEPT ![n] = m.term]
    BY <1>3, <2>3 DEF AcceptAppend, FollowLeader, BecomeFollower, historyVars
  <2>6. currentTerm'[n] = m.term
    BY <1>t, <2>5 DEF TypeOK
  <2> QED  BY <1>1, <2>2, <2>4, <2>5, <2>6
<1> QED  BY <1>1, <1>2, <1>3, StepsOnLogs

\* What the cluster may become, it might have become before.
LEMMA ClustersShrink ==
  ASSUME MaxAdds <= 1, TypeOK, OneAddition, [Next]_vars
  PROVE  Clusters' \subseteq Clusters
<1>1. ASSUME NEW n \in Node, AddNode(n) PROVE Clusters' \subseteq Clusters
  <2>1. /\ n \notin members /\ members' = members \cup {n}
        /\ memberships' = memberships \cup {members \cup {n}}
    BY <1>1 DEF AddNode
  <2>2. memberships = {members}
    BY <1>1, AdditionIsFirst
  <2>3. memberships' # {members'}
    BY <2>1, <2>2
  <2>4. Clusters' = memberships'
    BY <2>3 DEF Clusters
  <2> QED  BY <2>1, <2>2, <2>4 DEF Clusters
<1>2. ASSUME UNCHANGED <<members, memberships>>
      PROVE  Clusters' \subseteq Clusters
  BY <1>2 DEF Clusters
<1>3. (\E n \in Node : AddNode(n)) \/ UNCHANGED <<members, memberships>>
  BY StepsOnMembers
<1> QED  BY <1>1, <1>2, <1>3

\* An entry that was stored before may only cease to be choosable.
LEMMA ChoosableFades ==
  ASSUME MaxAdds <= 1, WellFormed, WellFormed', OneAddition, [Next]_vars,
         NEW e \in Choosable', NEW v \in Node, <<v, e>> \in accepted
  PROVE  e \in Choosable
<1>t. TypeOK /\ TypeOK'
  BY DEF WellFormed
<1>1. e.term \in Nat
  <2>1. accepted \subseteq Node \X Entry
    BY <1>t DEF TypeOK
  <2>2. e \in Entry
    BY <2>1
  <2> QED  BY <2>2, EntryFields
<1>2. ASSUME NEW n \in Node, MayStore(n, e)' PROVE MayStore(n, e)
  <2>1. /\ currentTerm[n] \in Nat /\ currentTerm'[n] \in Nat
        /\ currentTerm'[n] >= currentTerm[n]
    <3>1. currentTerm[n] \in Nat /\ currentTerm'[n] \in Nat
      BY <1>t DEF TypeOK
    <3> QED  BY <1>t, <3>1, TermsAndCandidates
  <2>2. CASE currentTerm'[n] <= e.term
    BY <1>1, <2>1, <2>2 DEF MayStore
  <2>3. CASE <<n, e>> \in accepted'
    <3>1. <<n, e>> \in accepted \/ currentTerm[n] <= e.term
      BY <2>3, FreshStored
    <3> QED  BY <3>1 DEF MayStore
  <2> QED  BY <1>2, <2>2, <2>3 DEF MayStore
<1>3. PICK C \in Clusters' :
        Cardinality({n \in C : MayStore(n, e)'}) >= QuorumSize(C)
  BY DEF Choosable
<1>4. C \in Clusters /\ C \subseteq Node /\ IsFiniteSet(C)
  BY <1>t, ClustersShrink, ClustersFinite
<1>5. PICK P \in SUBSET C : P = {n \in C : MayStore(n, e)'}
  OBVIOUS
<1>6. PICK Q \in SUBSET C : Q = {n \in C : MayStore(n, e)}
  OBVIOUS
<1>7. P \subseteq Q
  BY <1>2, <1>4, <1>5, <1>6
<1>8. Cardinality(Q) >= QuorumSize(C)
  BY <1>3, <1>4, <1>5, <1>7, QuorumOfMore
<1>9. e \in {a[2] : a \in accepted}
  OBVIOUS
<1> QED  BY <1>4, <1>6, <1>8, <1>9 DEF Choosable

-----------------------------------------------------------------------------
\* Logs and the entries that may be chosen

LEMMA ChoosableIsEntry ==
  ASSUME TypeOK, NEW e \in Choosable
  PROVE  e \in Entry /\ e.term \in Nat /\ e.index \in Nat
<1>1. accepted \subseteq Node \X Entry
  BY DEF TypeOK
<1>2. e \in Entry
  BY <1>1 DEF Choosable
<1> QED  BY <1>2, EntryFields

\* A log that has an entry agrees with the ledger of its term up to it.
LEMMA StoredIsRecorded ==
  ASSUME TypeOK, NEW W, Ledger(W), NEW n \in Node, NEW e, Stores(n, e)
  PROVE  /\ e \in Entry /\ e.index \in 1 .. Len(log[n])
         /\ Len(log[n]) \in Nat /\ e.term \in Won
         /\ \A i \in 1 .. e.index : /\ i \in DOMAIN W[e.term]
                                    /\ log[n][i].term = W[e.term][i]
         /\ W[e.term][e.index] = e.term
<1>1. PICK l \in Seq(Entry), i \in Nat :
        l = log[n] /\ i = e.index /\ i \in 1 .. Len(l) /\ l[i] = e
  <2>1. log[n] \in Seq(Entry)
    BY DEF TypeOK
  <2>2. e.index \in 1 .. Len(log[n]) /\ log[n][e.index] = e
    BY <2>1 DEF Stores
  <2> QED  BY <2>1, <2>2
<1>2. PICK g : /\ g = LogTerms(l) /\ DOMAIN g = 0 .. Len(l)
               /\ \A x \in 1 .. Len(l) : g[x] = l[x].term
  BY LogTermsAre
<1>3. Recorded(g, W, Won)
  BY <1>1, <1>2 DEF Ledger
<1>4. i \in Above(g) /\ g[i] = e.term
  BY <1>1, <1>2 DEF Above
<1>5. /\ e.term \in Won
      /\ \A x \in 0 .. Len(l) : x <= i => /\ x \in DOMAIN W[e.term]
                                          /\ g[x] = W[e.term][x]
  BY <1>2, <1>3, <1>4 DEF Recorded
<1>6. ASSUME NEW x \in 1 .. i
      PROVE  x \in DOMAIN W[e.term] /\ l[x].term = W[e.term][x]
  <2>1. x \in 0 .. Len(l) /\ x \in 1 .. Len(l) /\ x <= i
    BY <1>1
  <2> QED  BY <1>2, <1>5, <2>1
<1>7. l[i].term = W[e.term][i]
  BY <1>1, <1>6
<1> QED  BY <1>1, <1>5, <1>6, <1>7

\* The ledger of a later term has what may be chosen, and so agrees with the
\* ledger of the entry's own term up to it.
LEMMA LaterPageAgrees ==
  ASSUME TypeOK, NEW W, Ledger(W), ChosenInLedger(W), NEW e \in Choosable,
         e.index >= 1, NEW t \in Won, t \in Nat, e.term <= t,
         e.term \in Won, e.index \in DOMAIN W[e.term],
         W[e.term][e.index] = e.term
  PROVE  /\ e.index \in DOMAIN W[t] /\ W[t][e.index] = e.term
         /\ \A i \in 1 .. e.index : W[t][i] = W[e.term][i]
<1>1. e.term \in Nat /\ e.index \in Nat
  BY ChoosableIsEntry
<1>2. CASE e.term = t
  BY <1>2
<1>3. CASE e.term < t
  <2>1. e.index \in DOMAIN W[t] /\ W[t][e.index] = e.term
    BY <1>3 DEF ChosenInLedger
  <2>2. PICK f : /\ f = W[t] /\ Recorded(f, W, Won)
                 /\ \E k \in Nat : DOMAIN f = 0 .. k
    <3>1. Book(W, Won)
      BY DEF Ledger
    <3>2. Recorded(W[t], W, Won) /\ \E k \in Nat : DOMAIN W[t] = 0 .. k
      BY <3>1, PageShape
    <3> QED  BY <3>2
  <2>3. e.index \in Above(f) /\ f[e.index] = e.term
    BY <1>1, <2>1, <2>2 DEF Above
  <2>4. ASSUME NEW i \in 1 .. e.index PROVE f[i] = W[e.term][i]
    <3>1. i \in DOMAIN f /\ i <= e.index
      BY <1>1, <2>1, <2>2
    <3> QED  BY <2>2, <2>3, <3>1 DEF Recorded
  <2> QED  BY <2>1, <2>2, <2>4
<1> QED  BY <1>1, <1>2, <1>3

\* A log as good as one with the entry has the entry: the vote restriction.
LEMMA UpToDate ==
  ASSUME TypeOK, IndexIsPosition, LogsInTerm, NEW W, Ledger(W),
         ChosenInLedger(W), NEW e \in Choosable,
         NEW v \in Node, Stores(v, e), NEW n \in Node,
         IsLogUpToDate(LastLogTerm(log[n]), LastLogIndex(log[n]), log[v])
  PROVE  Stores(n, e)
<1>1. PICK l \in Seq(Entry), ll \in Nat, g \in Seq(Entry), lg \in Nat :
        /\ l = log[n] /\ ll = Len(l) /\ LastLogIndex(l) = ll /\ Positioned(l)
        /\ g = log[v] /\ lg = Len(g) /\ LastLogIndex(g) = lg
  BY NodeLogType
<1>2. PICK i \in Nat, s \in Nat :
        /\ e \in Entry /\ i = e.index /\ i \in 1 .. lg
        /\ s = e.term /\ s \in Won
        /\ \A x \in 1 .. i : /\ x \in DOMAIN W[s]
                             /\ g[x].term = W[s][x]
        /\ W[s][i] = s
  <2>1. /\ e \in Entry /\ e.index \in 1 .. Len(log[v]) /\ e.term \in Won
        /\ \A x \in 1 .. e.index : /\ x \in DOMAIN W[e.term]
                                   /\ log[v][x].term = W[e.term][x]
        /\ W[e.term][e.index] = e.term
    BY StoredIsRecorded
  <2>2. e.index \in Nat /\ e.term \in Nat
    BY ChoosableIsEntry
  <2> QED  BY <1>1, <2>1, <2>2
<1>3. PICK t \in Nat : t = LastLogTerm(l)
  BY LogSummaryType
<1>4. s <= LastLogTerm(g)
  <2>1. LastLogTerm(g) = g[lg].term
    BY <1>1, <1>2 DEF LastLogTerm
  <2>2. PICK a : /\ a = LogTerms(g) /\ DOMAIN a = 0 .. lg
                 /\ \A x \in 1 .. lg : a[x] = g[x].term
    BY <1>1, LogTermsAre
  <2>3. Ordered(a, currentTerm[v])
    <3>1. currentTerm[v] \in Nat
      BY DEF TypeOK
    <3> QED  BY <1>1, <2>2, <3>1, LogOrdered
  <2>4. a[i] <= a[lg]
    BY <1>2, <2>2, <2>3 DEF Ordered
  <2>5. a[i] = s
    BY <1>2, <2>2
  <2> QED  BY <1>2, <2>1, <2>2, <2>4, <2>5
<1>5. \/ t > s
      \/ t = s /\ ll >= i
  <2>1. LastLogTerm(g) \in Nat
    BY LogSummaryType
  <2>2. \/ t > LastLogTerm(g)
        \/ t = LastLogTerm(g) /\ ll >= lg
    <3>1. IsLogUpToDate(t, ll, g)
      BY <1>1, <1>3, Zenon
    <3>2. \/ t > LastLogTerm(g)
          \/ t = LastLogTerm(g) /\ ll >= LastLogIndex(g)
      BY <3>1 DEF IsLogUpToDate
    <3> QED  BY <1>1, <3>2
  <2> QED  BY <1>2, <1>4, <2>1, <2>2
<1>6. ll > 0 /\ l[ll].term = t
  <2>1. l # << >>
    BY <1>1, <1>2, <1>3, <1>5 DEF LastLogTerm
  <2> QED  BY <1>1, <1>3, <2>1 DEF LastLogTerm
<1>7. /\ t \in Won
      /\ \A x \in 1 .. ll : x \in DOMAIN W[t] /\ l[x].term = W[t][x]
  <2>1. l[ll] \in Entry /\ l[ll].index = ll
    BY <1>1, <1>6 DEF Positioned
  <2>2. Stores(n, l[ll])
    BY <1>1, <1>6, <2>1 DEF Stores
  <2> QED  BY <1>1, <1>6, <2>1, <2>2, StoredIsRecorded
<1>8. i \in DOMAIN W[t] /\ W[t][i] = s
  BY <1>2, <1>5, <1>7, LaterPageAgrees
<1>9. i <= ll
  <2> SUFFICES ASSUME t > s, i > ll PROVE FALSE
    BY <1>1, <1>2, <1>5
  <2>1. ll \in DOMAIN W[t] /\ W[t][ll] = t
    BY <1>6, <1>7
  <2>2. W[t][ll] <= W[t][i]
    <3>1. Ordered(W[t], t)
      BY <1>7 DEF Ledger, Book
    <3> QED  BY <1>8, <2>1, <3>1 DEF Ordered
  <2> QED  BY <1>8, <2>1, <2>2
<1>10. i \in 1 .. ll /\ l[i].term = s
  BY <1>2, <1>7, <1>8, <1>9
<1>11. l[e.index] = e
  BY <1>1, <1>2, <1>10, EntryIsThere
<1> QED  BY <1>1, <1>2, <1>10, <1>11 DEF Stores

\* A request never drops what may be chosen: where it differs from the log,
\* it does so behind it.
LEMMA RequestKeeps ==
  ASSUME WellFormed, WellFormed', LogsInTerm, NEW W, Ledger(W),
         ChosenInLedger(W), NEW e \in Choosable,
         NEW m \in appendRequests, AcceptAppend(m), Stores(m.to, e)
  PROVE  Stores(m.to, e)'
<1>t. TypeOK /\ TypeOK' /\ IndexIsPosition
  BY DEF WellFormed
<1>1. PICK n \in Node, p \in Nat, es \in Seq(Entry), t \in Nat :
        /\ n = m.to /\ p = m.prevLogIndex /\ es = m.entries /\ t = m.term
        /\ \A k \in DOMAIN es : es[k].index = p + k
  BY <1>t, AppendRequestFields DEF WellFormed, ContiguousRequests
<1>2. PICK l \in Seq(Entry) : l = log[n] /\ MatchesPrev(l, p, m.prevLogTerm)
  BY <1>t, <1>1 DEF TypeOK, AcceptAppend
<1>3. log'[n] = AppendLoop(l, es)
  BY <1>t, <1>1, <1>2 DEF AcceptAppend, LogAfter, TypeOK
<1>4. p \in 0 .. Len(l)
  BY <1>2 DEF MatchesPrev
<1>5. PICK i \in Nat, s \in Nat :
        /\ e \in Entry /\ i = e.index /\ i \in 1 .. Len(l)
        /\ s = e.term /\ s \in Won
        /\ \A x \in 1 .. i : /\ x \in DOMAIN W[s]
                             /\ l[x].term = W[s][x]
        /\ W[s][i] = s
  <2>1. Stores(n, e)
    BY <1>1
  <2>2. /\ e \in Entry /\ e.index \in 1 .. Len(log[n]) /\ e.term \in Won
        /\ \A x \in 1 .. e.index : /\ x \in DOMAIN W[e.term]
                                   /\ log[n][x].term = W[e.term][x]
        /\ W[e.term][e.index] = e.term
    BY <1>t, <2>1, StoredIsRecorded
  <2>3. e.index \in Nat /\ e.term \in Nat
    BY <1>t, ChoosableIsEntry
  <2> QED  BY <1>2, <2>2, <2>3
<1>6. l[i] = e
  BY <1>1, <1>2, <1>5 DEF Stores
<1>7. CASE Divergent(l, es) = {}
  <2>1. log'[n] = l
    BY <1>3, <1>7 DEF AppendLoop
  <2> QED  BY <1>1, <1>2, <1>5, <1>6, <2>1 DEF Stores
<1>8. CASE Divergent(l, es) # {}
  <2>1. PICK first \in 1 .. Len(es) :
          /\ p + first - 1 \in 0 .. Len(l)
          /\ first \in Divergent(l, es)
          /\ AppendLoop(l, es) = SubSeq(l, 1, p + first - 1)
                                   \o SubSeq(es, first, Len(es))
    BY <1>1, <1>4, <1>8, FirstDivergent
  <2>2. PICK cut \in 0 .. Len(l), d \in Nat :
          cut = p + first - 1 /\ d = p + first /\ d = cut + 1
    BY <1>1, <2>1
  <2>3. PICK r \in Seq(Entry) :
          /\ r = AppendLoop(l, es)
          /\ Len(r) = cut + Len(es) - first + 1
          /\ \A x \in 1 .. Len(r) :
               r[x] = IF x <= cut THEN l[x] ELSE es[x - cut + first - 1]
    <3>1. LET r == SubSeq(l, 1, cut) \o SubSeq(es, first, Len(es))
          IN  /\ r \in Seq(Entry)
              /\ Len(r) = cut + Len(es) - first + 1
              /\ \A x \in 1 .. Len(r) :
                   r[x] = IF x <= cut THEN l[x] ELSE es[x - cut + first - 1]
      BY PrefixThenSuffix
    <3>2. AppendLoop(l, es) = SubSeq(l, 1, cut) \o SubSeq(es, first, Len(es))
      BY <2>1, <2>2
    <3> QED  BY <3>1, <3>2, Zenon
  <2>4. CASE i <= cut
    <3>1. i \in 1 .. Len(r)
      <4>1. Len(r) \in Nat /\ Len(es) \in Nat /\ first <= Len(es)
        BY <1>1, <2>3
      <4>2. cut <= Len(r)
        BY <2>3, <4>1
      <4> QED  BY <1>5, <2>4, <4>1, <4>2
    <3>2. r[i] = l[i]
      BY <2>3, <2>4, <3>1
    <3> QED  BY <1>1, <1>3, <1>5, <1>6, <2>3, <3>1, <3>2 DEF Stores
  <2>5. CASE d <= i
    <3>1. t \in Won /\ W[t][d] = es[first].term
      <4>1. t \in Won /\ Stretch(RequestTerms(m), W[t])
        BY <1>1 DEF Ledger
      <4>2. PICK q : /\ q = RequestTerms(m) /\ DOMAIN q = p .. p + Len(es)
                     /\ \A k \in 1 .. Len(es) : q[p + k] = es[k].term
        BY <1>1, RequestTermsAre
      <4>3. d \in DOMAIN q /\ d - 1 \in DOMAIN q /\ q[d] = es[first].term
        <5>1. Len(es) \in Nat /\ first \in 1 .. Len(es)
          BY <1>1
        <5>2. q[p + first] = es[first].term
          BY <4>2, <5>1
        <5>3. d \in p .. p + Len(es) /\ d - 1 \in p .. p + Len(es)
          BY <2>2, <5>1
        <5> QED  BY <2>2, <4>2, <5>2, <5>3
      <4>4. d \in Above(q)
        BY <4>3 DEF Above
      <4> QED  BY <4>1, <4>2, <4>3, <4>4 DEF Stretch
    <3>2. s <= t
      <4>1. currentTerm[n] <= t /\ currentTerm[n] \in Nat
        BY <1>t, <1>1 DEF AcceptAppend, FollowLeader, TypeOK
      <4>2. log[n][i].term <= currentTerm[n]
        BY <1>2, <1>5 DEF LogsInTerm
      <4> QED  BY <1>2, <1>5, <1>6, <4>1, <4>2
    <3>3. \A x \in 1 .. i : W[t][x] = W[s][x]
      <4>1. /\ e.index >= 1 /\ e.term <= t /\ e.term \in Won
            /\ e.index \in DOMAIN W[e.term] /\ W[e.term][e.index] = e.term
        BY <1>5, <3>2
      <4>2. \A x \in 1 .. e.index : W[t][x] = W[e.term][x]
        BY <1>t, <3>1, <4>1, LaterPageAgrees
      <4> QED  BY <1>5, <4>2
    <3>4. d \in 1 .. i
      BY <1>1, <2>1, <2>2, <2>5
    <3>5. l[d].term = es[first].term
      BY <1>5, <3>1, <3>3, <3>4
    <3>6. es[first].index = d
      <4>1. first \in DOMAIN es
        BY <1>1
      <4> QED  BY <1>1, <2>2, <4>1
    <3>7. Len(l) \in Nat /\ d <= Len(l)
      BY <1>5, <2>2, <2>5
    <3>8. es[first].index > Len(l) \/ l[es[first].index].term # es[first].term
      BY <2>1 DEF Divergent
    <3> QED  BY <2>2, <3>5, <3>6, <3>7, <3>8
  <2> QED  BY <2>2, <2>4, <2>5
<1> QED  BY <1>7, <1>8

LEMMA LogKeeps ==
  ASSUME WellFormed, WellFormed', LogsInTerm, NEW W, Ledger(W),
         ChosenInLedger(W), NEW e \in Choosable, [Next]_vars,
         NEW n \in Node, Stores(n, e)
  PROVE  Stores(n, e)'
<1>t. TypeOK /\ TypeOK' /\ IndexIsPosition
  BY DEF WellFormed
<1>1. log'[n] = log[n] => Stores(n, e)'
  BY DEF Stores
<1>2. ASSUME NEW k \in Node, Submit(k) PROVE Stores(n, e)'
  <2>1. CASE k # n
    BY <1>t, <1>1, <1>2, <2>1 DEF Submit, TypeOK
  <2>2. CASE k = n
    <3>1. PICK l \in Seq(Entry), x \in Entry :
            l = log[n] /\ log'[n] = Append(l, x)
      <4>1. log[n] \in Seq(Entry)
        BY <1>t DEF TypeOK
      <4>2. NewEntry(n) \in Entry
        BY <1>t, NodeLogType, EntryFields DEF NewEntry
      <4>3. log'[n] = Append(log[n], NewEntry(n))
        BY <1>t, <1>2, <2>2 DEF Submit, TypeOK
      <4> QED  BY <4>1, <4>2, <4>3
    <3>2. e.index \in DOMAIN l /\ l[e.index] = e
      BY <3>1 DEF Stores
    <3>3. e.index \in DOMAIN Append(l, x) /\ Append(l, x)[e.index] = e
      BY <3>1, <3>2
    <3> QED  BY <3>1, <3>3 DEF Stores
  <2> QED  BY <2>1, <2>2
<1>3. ASSUME NEW m \in appendRequests, AcceptAppend(m) PROVE Stores(n, e)'
  <2>1. CASE m.to = n
    BY <1>3, <2>1, RequestKeeps
  <2>2. CASE m.to # n
    BY <1>t, <1>1, <1>3, <2>2 DEF AcceptAppend, TypeOK
  <2> QED  BY <2>1, <2>2
<1> QED  BY <1>1, <1>2, <1>3, StepsOnLogs

-----------------------------------------------------------------------------
\* The four parts of the invariant, step by step

\* A vote is of a term its candidate has reached and its voter remembers.
LEMMA VoteTerms ==
  ASSUME VotesRemembered, VotesOfCandidates,
         NEW v, NEW t, NEW c, <<v, t, c>> \in votesCast
  PROVE  t <= currentTerm[v] /\ t <= currentTerm[c]
<1>1. <<v, t, c>>[2] <= currentTerm[<<v, t, c>>[1]]
  BY DEF VotesRemembered
<1>2. <<v, t, c>>[2] <= currentTerm[<<v, t, c>>[3]]
  BY DEF VotesOfCandidates
<1> QED  BY <1>1, <1>2

\* What a request says of its candidate, it says as long as it matters.
LEMMA RequestStaysTrue ==
  ASSUME TypeOK, TypeOK', VotesOfCandidates, [Next]_vars,
         NEW m \in voteRequests, NEW n, n = m.from
  PROVE  /\ m.term <= currentTerm'[n]
         /\ role'[n] = Candidate /\ currentTerm'[n] = m.term =>
              /\ m.lastLogIndex = LastLogIndex(log'[n])
              /\ m.lastLogTerm = LastLogTerm(log'[n])
<1>1. /\ n \in Node /\ m.term \in Nat
      /\ currentTerm[n] \in Nat /\ currentTerm'[n] \in Nat
  BY VoteMessageFields DEF TypeOK
<1>2. m.term <= currentTerm[n] /\ currentTerm[n] <= currentTerm'[n]
  BY <1>1, TermsAndCandidates DEF VotesOfCandidates
<1>3. ASSUME role'[n] = Candidate, currentTerm'[n] = m.term
      PROVE  /\ m.lastLogIndex = LastLogIndex(log'[n])
             /\ m.lastLogTerm = LastLogTerm(log'[n])
  <2>1. ~StartElection(n)
    <3> SUFFICES ASSUME StartElection(n) PROVE FALSE
      OBVIOUS
    <3>1. currentTerm'[n] = currentTerm[n] + 1
      BY <1>1 DEF StartElection, BecomeCandidate, TypeOK
    <3> QED  BY <1>1, <1>2, <1>3, <3>1
  <2>2. role[n] = Candidate /\ currentTerm'[n] = currentTerm[n]
    BY <1>1, <1>3, <2>1, TermsAndCandidates
  <2>3. log'[n] = log[n]
    BY <1>1, <1>3, <2>2, CandidateKeepsLog
  <2> QED  BY <1>3, <2>2, <2>3 DEF VotesOfCandidates
<1> QED  BY <1>1, <1>2, <1>3

LEMMA VotesOfCandidatesStep ==
  ASSUME TypeOK, TypeOK', VotesOfCandidates, [Next]_vars
  PROVE  VotesOfCandidates'
<1> DEFINE Describes(m) ==
             /\ m.term <= currentTerm'[m.from]
             /\ role'[m.from] = Candidate /\ currentTerm'[m.from] = m.term =>
                  /\ m.lastLogIndex = LastLogIndex(log'[m.from])
                  /\ m.lastLogTerm = LastLogTerm(log'[m.from])
           Reached(v) == v[2] <= currentTerm'[v[3]]
<1>1. SUFFICES /\ \A v \in votesCast' : Reached(v)
               /\ \A m \in voteRequests' : Describes(m)
  BY DEF VotesOfCandidates
<1>2. \A k \in voteRequests : Describes(k)
  BY RequestStaysTrue
<1>3. \A v \in votesCast : Reached(v)
  <2> SUFFICES ASSUME NEW v \in votesCast PROVE Reached(v)
    OBVIOUS
  <2>1. /\ v[2] \in Nat /\ v[3] \in Node /\ v[2] <= currentTerm[v[3]]
        /\ currentTerm[v[3]] \in Nat
    BY VoteMessageFields DEF VotesOfCandidates
  <2>2. currentTerm'[v[3]] \in Nat /\ currentTerm[v[3]] <= currentTerm'[v[3]]
    BY <2>1, TermsAndCandidates DEF TypeOK
  <2> QED  BY <2>1, <2>2
<1>4. ASSUME NEW m \in voteRequests', Resent(m) PROVE Describes(m)
  <2>1. PICK k \in voteRequests : /\ m.from = k.from
                                  /\ m.term = k.term
                                  /\ m.lastLogIndex = k.lastLogIndex
                                  /\ m.lastLogTerm = k.lastLogTerm
    BY <1>4 DEF Resent
  <2> QED  BY <1>2, <2>1
<1>5. ASSUME NEW n \in Node, BecomeCandidate(n), UNCHANGED log
      PROVE  /\ currentTerm'[n] = currentTerm[n] + 1
             /\ \A v \in votesCast' : Reached(v)
  <2>1. /\ currentTerm[n] \in Nat
        /\ currentTerm'[n] = currentTerm[n] + 1
        /\ votesCast' = votesCast \cup {<<n, currentTerm[n] + 1, n>>}
    BY <1>5 DEF BecomeCandidate, TypeOK
  <2>2. Reached(<<n, currentTerm[n] + 1, n>>)
    BY <2>1
  <2> QED  BY <1>3, <2>1, <2>2
<1>6. ASSUME NEW n \in Node, StartElection(n)
      PROVE  /\ \A v \in votesCast' : Reached(v)
             /\ \A m \in voteRequests' : Describes(m)
  <2>1. BecomeCandidate(n) /\ UNCHANGED log
    BY <1>6 DEF StartElection, logVars
  <2>2. ASSUME NEW m \in voteRequests', m \notin voteRequests
        PROVE  Describes(m)
    <3>1. /\ m.from = n /\ m.term = currentTerm[n] + 1
          /\ m.lastLogIndex = LastLogIndex(log[n])
          /\ m.lastLogTerm = LastLogTerm(log[n])
      BY <1>6, <2>2 DEF StartElection
    <3>2. currentTerm[n] \in Nat /\ currentTerm'[n] = currentTerm[n] + 1
      BY <1>5, <2>1 DEF TypeOK
    <3> QED  BY <2>1, <3>1, <3>2
  <2> QED  BY <1>2, <1>5, <2>1, <2>2
<1>7. ASSUME NEW n \in Node, StartElectionAlone(n)
      PROVE  /\ \A v \in votesCast' : Reached(v)
             /\ \A m \in voteRequests' : Describes(m)
  <2>1. BecomeCandidate(n) /\ UNCHANGED <<log, voteRequests>>
    BY <1>7 DEF StartElectionAlone, logVars, voteCalls
  <2> QED  BY <1>2, <1>5, <2>1
<1>8. ASSUME NEW m \in voteRequests, HandleRequestVote(m)
      PROVE  /\ \A v \in votesCast' : Reached(v)
             /\ \A k \in voteRequests' : Describes(k)
  <2>1. voteRequests' \subseteq voteRequests
    BY <1>8 DEF HandleRequestVote, AnswerVote
  <2>2. ASSUME NEW v \in votesCast', v \notin votesCast PROVE Reached(v)
    <3>1. v[2] = m.term /\ v[3] = m.from
      BY <1>8, <2>2 DEF HandleRequestVote
    <3>2. m.term <= currentTerm'[m.from]
      BY <1>2
    <3> QED  BY <3>1, <3>2
  <2> QED  BY <1>2, <1>3, <2>1, <2>2
<1> QED  BY <1>3, <1>4, <1>6, <1>7, <1>8, StepsOnVotes

\* A voter that stored an entry before a vote in a later term did so before
\* this step.
LEMMA VoterStoredBefore ==
  ASSUME WellFormed, WellFormed', VotesRemembered, VotesOfCandidates,
         [Next]_vars, NEW v \in Node, NEW e, <<v, e>> \in accepted',
         NEW t \in Nat, NEW c, <<v, t, c>> \in votesCast', e.term < t
  PROVE  <<v, e>> \in accepted
<1> SUFFICES ASSUME <<v, e>> \notin accepted PROVE FALSE
  OBVIOUS
<1>1. /\ e.term \in Nat /\ currentTerm[v] <= e.term /\ UNCHANGED votesCast
  BY FreshStored
<1>2. t <= currentTerm[v]
  BY <1>1, VoteTerms
<1>3. currentTerm[v] \in Nat
  BY DEF WellFormed, TypeOK
<1> QED  BY <1>1, <1>2, <1>3

\* The votes of an election that begins are the candidate's own.
LEMMA OwnVoteOnly ==
  ASSUME TypeOK, VotesOfCandidates, VotesRemembered, NEW n \in Node,
         votesCast' = votesCast \cup {<<n, currentTerm[n] + 1, n>>},
         NEW v, <<v, currentTerm[n] + 1, n>> \in votesCast'
  PROVE  v = n
<1>1. PICK t \in Nat : t = currentTerm[n] + 1 /\ ~(t <= currentTerm[n])
  BY DEF TypeOK
<1>2. <<v, t, n>> \notin votesCast
  BY <1>1, VoteTerms
<1> QED  BY <1>1, <1>2

LEMMA ChosenInLedgerStep ==
  ASSUME MaxAdds <= 1, WellFormed, WellFormed', OneAddition,
         VotesRemembered, NEW W, Ledger(W), Complete(W),
         NEW V, Ledger(V)', Continues(W, V, Won), LaterVoterStored',
         [Next]_vars
  PROVE  ChosenInLedger(V)'
<1>t. TypeOK /\ TypeOK'
  BY DEF WellFormed
<1>c. VotesOfCandidates /\ ChosenInLedger(W) /\ ChoosableKept /\ VotersHandOver
  BY DEF Complete
<1> SUFFICES ASSUME NEW t \in Won', NEW e \in Choosable', e.term < t
             PROVE  e.index \in DOMAIN V[t] /\ V[t][e.index] = e.term
  BY DEF ChosenInLedger
<1>1. PICK c \in Node, v \in Node : /\ <<t, c>> \in elected'
                                    /\ <<v, t, c>> \in votesCast'
                                    /\ <<v, e>> \in accepted'
  BY DEF LaterVoterStored
<1>2. t \in Nat
  <2>1. elected' \subseteq Nat \X Node
    BY <1>t DEF TypeOK
  <2> QED  BY <1>1, <2>1
<1>3. <<v, e>> \in accepted
  BY <1>1, <1>2, <1>c, VoterStoredBefore
<1>4. e \in Choosable
  BY <1>3, ChoosableFades
<1>5. CASE t \in Won
  <2>1. e.index \in DOMAIN W[t] /\ W[t][e.index] = e.term
    BY <1>4, <1>5, <1>c DEF ChosenInLedger
  <2> QED  BY <1>5, <2>1 DEF Continues
<1>6. CASE t \notin Won
  <2>1. <<t, c>> \notin elected
    BY <1>6 DEF Won
  <2>2. ASSUME NEW n \in Node, StartElectionAlone(n)
        PROVE  /\ c = n /\ role'[n] = Leader /\ currentTerm'[n] = t
               /\ log'[n] = log[n] /\ Stores(n, e)
    <3>1. /\ currentTerm' = [currentTerm EXCEPT ![n] = @ + 1]
          /\ role' = [role EXCEPT ![n] = Leader]
          /\ elected' = elected \cup {<<currentTerm[n] + 1, n>>}
          /\ votesCast' = votesCast \cup {<<n, currentTerm[n] + 1, n>>}
          /\ UNCHANGED log
      BY <2>2 DEF StartElectionAlone, BecomeCandidate, BecomeLeader, logVars
    <3>2. t = currentTerm[n] + 1 /\ c = n
      BY <1>1, <2>1, <3>1
    <3>3. v = n
      BY <1>1, <1>t, <1>c, <3>1, <3>2, OwnVoteOnly
    <3>4. Stores(n, e)
      BY <1>3, <1>4, <1>c, <3>3 DEF ChoosableKept
    <3>5. role'[n] = Leader /\ currentTerm'[n] = t
      BY <1>t, <3>1, <3>2 DEF TypeOK
    <3> QED  BY <3>1, <3>2, <3>4, <3>5
  <2>3. ASSUME NEW r \in voteReplies, VoteReplyCounted(r)
        PROVE  /\ c = r.to /\ role'[c] = Leader /\ currentTerm'[c] = t
               /\ log'[c] = log[c] /\ Stores(c, e)
    <3>1. /\ UNCHANGED <<currentTerm, votesCast, log>>
          /\ role[r.to] = Candidate
          /\ \/ UNCHANGED elected
             \/ /\ role' = [role EXCEPT ![r.to] = Leader]
                /\ elected' = elected \cup {<<currentTerm[r.to], r.to>>}
      BY <2>3 DEF VoteReplyCounted, BecomeLeader, ElectionGoesOn, termVars,
                  logVars
    <3>2. t = currentTerm[r.to] /\ c = r.to
      BY <1>1, <2>1, <3>1
    <3>3. role' = [role EXCEPT ![c] = Leader]
      BY <1>1, <2>1, <3>1, <3>2
    <3>4. role'[c] = Leader
      BY <1>t, <3>3 DEF TypeOK
    <3>5. Stores(c, e)
      BY <1>1, <1>3, <1>4, <1>c, <3>1, <3>2 DEF VotersHandOver
    <3> QED  BY <3>1, <3>2, <3>4, <3>5
  <2>4. elected' # elected
    BY <1>1, <2>1
  <2>5. \/ \E n \in Node : StartElectionAlone(n)
        \/ \E r \in voteReplies : VoteReplyCounted(r)
    <3>1. ~ \E n \in Node : StartElection(n)
      BY <2>4 DEF StartElection
    <3>2. ~ \E m \in voteRequests : HandleRequestVote(m)
      BY <2>4 DEF HandleRequestVote
    <3> QED  BY <1>t, <2>4, <3>1, <3>2, StepsOnRoles
  <2>6. /\ role'[c] = Leader /\ currentTerm'[c] = t
        /\ log'[c] = log[c] /\ Stores(c, e)
    BY <2>2, <2>3, <2>5
  <2>7. V[t] = LogTerms(log[c])
    BY <2>6 DEF Ledger
  <2>8. /\ log[c] \in Seq(Entry) /\ e.index \in 1 .. Len(log[c])
        /\ log[c][e.index] = e
    <3>1. log[c] \in Seq(Entry)
      BY <1>t DEF TypeOK
    <3> QED  BY <2>6, <3>1 DEF Stores
  <2>9. /\ DOMAIN LogTerms(log[c]) = 0 .. Len(log[c])
        /\ \A i \in 1 .. Len(log[c]) : LogTerms(log[c])[i] = log[c][i].term
    BY <2>8, LogTermsAre
  <2>10. e.index \in DOMAIN LogTerms(log[c])
    BY <2>8, <2>9
  <2> QED  BY <2>7, <2>8, <2>9, <2>10
<1> QED  BY <1>5, <1>6

LEMMA ChoosableKeptStep ==
  ASSUME MaxAdds <= 1, WellFormed, WellFormed', OneAddition, LogsInTerm,
         NEW W, Ledger(W), Complete(W), [Next]_vars
  PROVE  ChoosableKept'
<1> SUFFICES ASSUME NEW n \in Node, NEW e \in Choosable',
                    <<n, e>> \in accepted'
             PROVE  Stores(n, e)'
  BY DEF ChoosableKept
<1>1. CASE <<n, e>> \notin accepted
  BY <1>1, FreshStored
<1>2. CASE <<n, e>> \in accepted
  <2>1. e \in Choosable
    BY <1>2, ChoosableFades
  <2>2. Stores(n, e)
    BY <1>2, <2>1 DEF Complete, ChoosableKept
  <2> QED  BY <2>1, <2>2, LogKeeps DEF Complete
<1> QED  BY <1>1, <1>2

LEMMA VotersHandOverStep ==
  ASSUME MaxAdds <= 1, WellFormed, WellFormed', OneAddition, LogsInTerm,
         VotesRemembered, NEW W, Ledger(W), Complete(W), [Next]_vars
  PROVE  VotersHandOver'
<1>t. TypeOK /\ TypeOK' /\ IndexIsPosition
  BY DEF WellFormed
<1>c. VotesOfCandidates /\ ChosenInLedger(W) /\ ChoosableKept /\ VotersHandOver
  BY DEF Complete
<1> SUFFICES ASSUME NEW n \in Node, role'[n] = Candidate,
                    NEW v \in Node, NEW e \in Choosable',
                    <<v, currentTerm'[n], n>> \in votesCast',
                    <<v, e>> \in accepted', e.term < currentTerm'[n]
             PROVE  Stores(n, e)'
  BY DEF VotersHandOver
<1>1. <<v, e>> \in accepted
  <2>1. currentTerm'[n] \in Nat
    BY <1>t DEF TypeOK
  <2> QED  BY <1>c, <2>1, VoterStoredBefore
<1>2. e \in Choosable /\ Stores(v, e)
  BY <1>1, <1>c, ChoosableFades DEF ChoosableKept
<1>3. SUFFICES Stores(n, e)
  BY <1>2, <1>c, LogKeeps
<1>4. CASE StartElection(n)
  <2>1. /\ currentTerm'[n] = currentTerm[n] + 1
        /\ votesCast' = votesCast \cup {<<n, currentTerm[n] + 1, n>>}
    BY <1>t, <1>4 DEF StartElection, BecomeCandidate, TypeOK
  <2>2. v = n
    BY <1>t, <1>c, <2>1, OwnVoteOnly
  <2> QED  BY <1>2, <2>2
<1>5. CASE role[n] = Candidate /\ currentTerm'[n] = currentTerm[n]
  <2>1. CASE <<v, currentTerm[n], n>> \in votesCast
    BY <1>1, <1>2, <1>5, <1>c, <2>1 DEF VotersHandOver
  <2>2. CASE <<v, currentTerm[n], n>> \notin votesCast
    <3>1. ASSUME NEW m \in voteRequests, HandleRequestVote(m)
          PROVE  Stores(n, e)
      <4>1. /\ v = m.to /\ n = m.from /\ m.term = currentTerm[n]
            /\ IsLogUpToDate(m.lastLogTerm, m.lastLogIndex, log[v])
        BY <1>5, <2>2, <3>1 DEF HandleRequestVote
      <4>2. /\ m.lastLogIndex = LastLogIndex(log[n])
            /\ m.lastLogTerm = LastLogTerm(log[n])
        BY <1>5, <1>c, <4>1 DEF VotesOfCandidates
      <4> QED  BY <1>t, <1>2, <1>c, <4>1, <4>2, UpToDate
    <3>2. ASSUME NEW k \in Node, StartElection(k) PROVE Stores(n, e)
      <4>1. votesCast' = votesCast \cup {<<k, currentTerm[k] + 1, k>>}
        BY <3>2 DEF StartElection, BecomeCandidate
      <4>2. k = n
        BY <1>5, <2>2, <4>1
      <4> QED  BY <1>4, <3>2, <4>2
    <3>3. ASSUME NEW k \in Node, StartElectionAlone(k) PROVE FALSE
      <4>1. /\ votesCast' = votesCast \cup {<<k, currentTerm[k] + 1, k>>}
            /\ role' = [role EXCEPT ![k] = Leader]
        BY <3>3 DEF StartElectionAlone, BecomeCandidate, BecomeLeader
      <4>2. k = n
        BY <1>5, <2>2, <4>1
      <4> QED  BY <1>t, <4>1, <4>2 DEF TypeOK, Leader, Candidate
    <3>4. votesCast' # votesCast
      BY <1>5, <2>2
    <3> QED  BY <1>t, <3>1, <3>2, <3>3, <3>4, StepsOnVotes
  <2> QED  BY <2>1, <2>2
<1> QED  BY <1>t, <1>4, <1>5, TermsAndCandidates

-----------------------------------------------------------------------------
LEMMA CompletenessInit == Init => CompletenessInvariant
<1> SUFFICES ASSUME Init PROVE CompletenessInvariant
  OBVIOUS
<1>1. LeadersElected /\ LogsInTerm /\ \E W : Ledger(W)
  BY LogInit DEF LogInvariant
<1>2. PICK W : Ledger(W)
  BY <1>1
<1>3. Won = {} /\ Choosable = {}
  BY DEF Init, Won, Choosable
<1>4. VotesOfCandidates
  BY DEF Init, VotesOfCandidates
<1>5. ChosenInLedger(W) /\ ChoosableKept /\ VotersHandOver
  BY <1>3 DEF ChosenInLedger, ChoosableKept, VotersHandOver
<1> QED  BY <1>1, <1>2, <1>4, <1>5 DEF CompletenessInvariant, Complete

LEMMA CompletenessStep ==
  ASSUME MaxAdds <= 1
  PROVE  WellFormed /\ WellFormed' /\ ElectionInvariant /\ ElectionSafety
            /\ ElectionSafety' /\ OneAddition /\ LaterVoterStored'
            /\ CompletenessInvariant /\ [Next]_vars
         => CompletenessInvariant'
<1> SUFFICES ASSUME WellFormed, WellFormed', ElectionInvariant,
                    ElectionSafety, ElectionSafety', OneAddition,
                    LaterVoterStored', CompletenessInvariant, [Next]_vars
             PROVE  CompletenessInvariant'
  OBVIOUS
<1>1. PICK W : Ledger(W) /\ Complete(W)
  BY DEF CompletenessInvariant
<1>2. LeadersElected /\ LogsInTerm /\ VotesRemembered
  BY DEF CompletenessInvariant, ElectionInvariant
<1>3. Kept(W)
  BY <1>1, <1>2, LogStep
<1>4. PICK V : Ledger(V)' /\ Continues(W, V, Won)
  BY <1>3 DEF Kept
<1>5. VotesOfCandidates'
  BY <1>1, VotesOfCandidatesStep DEF WellFormed, Complete
<1>6. ChosenInLedger(V)'
  BY <1>1, <1>2, <1>4, ChosenInLedgerStep
<1>7. ChoosableKept'
  BY <1>1, <1>2, ChoosableKeptStep
<1>8. VotersHandOver'
  BY <1>1, <1>2, VotersHandOverStep
<1> QED  BY <1>3, <1>4, <1>5, <1>6, <1>7, <1>8
         DEF CompletenessInvariant, Complete, Kept

\* In every reachable state the ledger of every later term has what may still
\* be chosen, whoever stored it has kept it, and voters hand it over.
THEOREM CompletenessInvariantAlways ==
  ASSUME MaxAdds <= 1 PROVE Spec => []CompletenessInvariant
<1>1. WellFormed /\ ElectionInvariant /\ OneAddition => LaterVoterStored
  BY VoterStored DEF WellFormed
<1>2. WellFormed /\ WellFormed' /\ ElectionInvariant /\ ElectionSafety
         /\ ElectionSafety' /\ OneAddition /\ LaterVoterStored'
         /\ CompletenessInvariant /\ [Next]_vars
      => CompletenessInvariant'
  BY CompletenessStep
<1> QED  BY <1>1, <1>2, CompletenessInit, WellFormedAlways,
            ElectionInvariantAlways, ElectionSafetyAlways, OneAdditionAlways,
            PTL DEF Spec

\* What may be chosen is in some log, so its index is no 0.
LEMMA ChoosableIsStored ==
  ASSUME TypeOK, ChoosableKept, NEW e \in Choosable
  PROVE  \E v \in Node : Stores(v, e)
<1>1. PICK a \in accepted : a[2] = e
  BY DEF Choosable
<1>2. a[1] \in Node /\ a = <<a[1], e>>
  <2>1. accepted \subseteq Node \X Entry
    BY DEF TypeOK
  <2> QED  BY <1>1, <2>1
<1>3. Stores(a[1], e)
  BY <1>1, <1>2 DEF ChoosableKept
<1> QED  BY <1>2, <1>3

\* A leader has every chosen entry of its own and of earlier terms.
LEMMA LeaderStores ==
  ASSUME WellFormed, CompletenessInvariant, NEW n \in Node, role[n] = Leader,
         NEW e \in Chosen, e.term <= currentTerm[n]
  PROVE  Stores(n, e)
<1>t. TypeOK /\ IndexIsPosition
  BY DEF WellFormed
<1>1. PICK W : Ledger(W) /\ ChosenInLedger(W) /\ ChoosableKept
  BY DEF CompletenessInvariant, Complete
<1>2. e \in Choosable
  BY <1>t, ChosenIsChoosable
<1>3. currentTerm[n] \in Won
  <2>1. <<currentTerm[n], n>> \in elected
    BY DEF CompletenessInvariant, LeadersElected
  <2> QED  BY <2>1 DEF Won
<1>4. PICK l \in Seq(Entry) : l = log[n] /\ Positioned(l)
  BY <1>t, NodeLogType
<1>5. PICK a : /\ a = LogTerms(l) /\ DOMAIN a = 0 .. Len(l)
               /\ \A i \in 1 .. Len(l) : a[i] = l[i].term
  BY LogTermsAre
<1>6. W[currentTerm[n]] = a
  BY <1>1, <1>4, <1>5 DEF Ledger
<1>7. PICK v \in Node : Stores(v, e)
  BY <1>t, <1>1, <1>2, ChoosableIsStored
<1>8. /\ e \in Entry /\ e.index \in Nat /\ e.index >= 1
      /\ e.index \in DOMAIN W[e.term] /\ W[e.term][e.index] = e.term
  BY <1>t, <1>1, <1>7, StoredIsRecorded
<1>9. /\ e.index \in DOMAIN W[currentTerm[n]]
      /\ W[currentTerm[n]][e.index] = e.term
  <2>1. CASE e.term = currentTerm[n]
    BY <1>8, <2>1
  <2>2. CASE e.term # currentTerm[n]
    <3>1. e.term \in Nat
      BY <1>t, <1>2, ChoosableIsEntry
    <3>2. currentTerm[n] \in Nat
      BY <1>t DEF TypeOK
    <3>3. e.term < currentTerm[n]
      BY <2>2, <3>1, <3>2
    <3> QED  BY <1>1, <1>2, <1>3, <3>3 DEF ChosenInLedger
  <2> QED  BY <2>1, <2>2
<1>10. e.index \in 1 .. Len(l) /\ l[e.index].term = e.term
  <2>1. e.index \in 0 .. Len(l) /\ a[e.index] = e.term
    BY <1>5, <1>6, <1>9
  <2> QED  BY <1>5, <1>8, <2>1
<1>11. l[e.index] = e
  BY <1>4, <1>8, <1>10, EntryIsThere
<1> QED  BY <1>4, <1>10, <1>11 DEF Stores

LEMMA InvariantGivesCompleteness ==
  ASSUME WellFormed, CompletenessInvariant
  PROVE  LeaderCompleteness
<1> SUFFICES ASSUME NEW n \in Node, role[n] = Leader, NEW e \in Chosen,
                    e.term < currentTerm[n]
             PROVE  Stores(n, e)
  BY DEF LeaderCompleteness
<1>t. TypeOK
  BY DEF WellFormed
<1>1. e.term \in Nat
  BY <1>t, ChosenIsChoosable, ChoosableIsEntry
<1>2. currentTerm[n] \in Nat
  BY <1>t DEF TypeOK
<1> QED  BY <1>1, <1>2, LeaderStores

\* A leader has every entry of an earlier term that a quorum of the cluster,
\* as it was at some time, stored in the entry's own term: what the code's
\* vote restriction is for.
THEOREM LeaderCompletenessAlways ==
  ASSUME MaxAdds <= 1 PROVE Spec => []LeaderCompleteness
<1>1. WellFormed /\ CompletenessInvariant => LeaderCompleteness
  BY InvariantGivesCompleteness
<1> QED  BY <1>1, WellFormedAlways, CompletenessInvariantAlways, PTL

\* A node that stored such an entry keeps it, whatever requests it handles
\* late or twice: what the code's conflict rule is for.
THEOREM ChosenIsKeptAlways ==
  ASSUME MaxAdds <= 1 PROVE Spec => []ChosenIsKept
<1>1. ASSUME WellFormed, CompletenessInvariant PROVE ChosenIsKept
  <2>1. ChoosableKept
    BY <1>1 DEF CompletenessInvariant, Complete
  <2>2. Chosen \subseteq Choosable
    BY <1>1, ChosenIsChoosable DEF WellFormed
  <2> QED  BY <2>1, <2>2 DEF ChosenIsKept, ChoosableKept
<1>2. WellFormed /\ CompletenessInvariant => ChosenIsKept
  BY <1>1
<1> QED  BY <1>2, WellFormedAlways, CompletenessInvariantAlways, PTL

-----------------------------------------------------------------------------
\* A node that is the whole cluster.  Nobody calls it, it calls nobody, and it
\* answers a command at once.
AloneInvariant ==
    \A n \in Node : members \subseteq {n} =>
        /\ voteRequests = {} /\ voteReplies = {} /\ commands = {}
        /\ appendRequests = {} /\ appendReplies = {}
        /\ \A e \in acked : Stores(n, e)

LEMMA AloneStep ==
  ASSUME TypeOK, IndexIsPosition, VotersAreMembers, AloneInvariant, [Next]_vars
  PROVE  AloneInvariant'
<1> SUFFICES ASSUME NEW n \in Node, members' \subseteq {n}
             PROVE  /\ voteRequests' = {} /\ voteReplies' = {} /\ commands' = {}
                    /\ appendRequests' = {} /\ appendReplies' = {}
                    /\ \A e \in acked' : Stores(n, e)'
  BY DEF AloneInvariant
<1> DEFINE Silent == /\ voteRequests' = {} /\ voteReplies' = {}
                     /\ commands' = {}
                     /\ appendRequests' = {} /\ appendReplies' = {}
           Remembered == \A e \in acked' : Stores(n, e)'
<1>1. members \subseteq {n}
  BY StepsOnMembers DEF AddNode
<1>2. /\ voteRequests = {} /\ voteReplies = {} /\ commands = {}
      /\ appendRequests = {} /\ appendReplies = {}
      /\ \A e \in acked : Stores(n, e)
  BY <1>1 DEF AloneInvariant
<1>3. UNCHANGED <<log, acked>> => Remembered
  BY <1>2 DEF Stores
<1> USE DEF nodeVars, logVars, clientVars, voteCalls, appendCalls
<1>4. CASE UNCHANGED vars
  BY <1>2, <1>3, <1>4 DEF vars
<1>5. ASSUME NEW k \in Node, NodeStep(k) PROVE Silent /\ Remembered
  <2>1. running[k] => k = n /\ Peers(k) = {}
    BY <1>1 DEF VotersAreMembers, Peers
  <2>2. Quorum \in Int /\ Quorum <= 1
    <3>1. members = {} \/ members = {n}
      BY <1>1
    <3>2. Cardinality({}) = 0 /\ Cardinality({n}) = 1
      BY FS_EmptySet, FS_Singleton
    <3>3. Cardinality(members) \in {0, 1}
      BY <3>1, <3>2
    <3> QED  BY <3>3 DEF Quorum, QuorumSize
  <2>3. ~StartElection(k)
    BY <2>2 DEF StartElection
  <2>4. ~ExecuteCommand(k)
    BY <2>1 DEF ExecuteCommand, AcceptsCommand
  <2>5. ASSUME Heartbeat(k) PROVE Silent /\ Remembered
    <3>1. Replicate(k, HeartbeatTask(currentTerm[k]), log[k]) = {}
      BY <2>1, <2>5 DEF Heartbeat, Replicate
    <3> QED  BY <1>2, <1>3, <2>5, <3>1 DEF Heartbeat
  <2>6. ASSUME ExecuteCommandAlone(k) PROVE Silent /\ Remembered
    <3>1. Silent
      BY <1>2, <2>6 DEF ExecuteCommandAlone
    <3>2. /\ k = n /\ log' = [log EXCEPT ![n] = Append(@, NewEntry(n))]
          /\ acked' = acked \cup {NewEntry(n)}
      BY <2>1, <2>6 DEF ExecuteCommandAlone, AcceptsCommand
    <3>3. PICK l \in Seq(Entry), i \in Nat :
            /\ l = log[n] /\ i = Len(l) + 1 /\ LastLogIndex(l) + 1 = i
      BY NodeLogType
    <3>4. PICK x \in Entry : x = NewEntry(n) /\ x.index = i
      <4>1. currentTerm[n] \in Nat
        BY DEF TypeOK
      <4>2. NewEntry(n) = LogEntry(i, currentTerm[n])
        BY <3>3 DEF NewEntry
      <4> QED  BY <4>1, <4>2, EntryFields
    <3>5. log'[n] = Append(l, x)
      BY <3>2, <3>3, <3>4 DEF TypeOK
    <3>6. ASSUME NEW e \in acked' PROVE Stores(n, e)'
      <4>1. CASE e = x
        <5>1. i \in DOMAIN Append(l, x) /\ Append(l, x)[i] = x
          BY <3>3
        <5> QED  BY <3>4, <3>5, <4>1, <5>1 DEF Stores
      <4>2. CASE e \in acked
        <5>1. e.index \in DOMAIN l /\ l[e.index] = e
          BY <1>2, <3>3, <4>2 DEF Stores
        <5>2. /\ e.index \in DOMAIN Append(l, x)
              /\ Append(l, x)[e.index] = e
          BY <5>1
        <5> QED  BY <3>5, <5>2 DEF Stores
      <4> QED  BY <3>2, <3>4, <4>1, <4>2
    <3> QED  BY <3>1, <3>6
  <2>7. ASSUME \/ StartElectionAlone(k) \/ Stop(k) \/ Revive(k) \/ Restart(k)
               \/ AddNode(k)
        PROVE  Silent /\ Remembered
    BY <1>2, <1>3, <2>7 DEF StartElectionAlone, Stop, Revive, Restart, AddNode
  <2> QED  BY <1>5, <2>3, <2>4, <2>5, <2>6, <2>7 DEF NodeStep
<1> QED  BY <1>2, <1>4, <1>5 DEF Next

\* A node that is the whole cluster never loses a command it answered, not
\* by stopping and recovering either.
THEOREM AloneKeepsAckedAlways == Spec => []AloneKeepsAcked
<1>1. Init => AloneInvariant
  BY DEF Init, AloneInvariant
<1>2. WellFormed /\ ElectionInvariant /\ AloneInvariant /\ [Next]_vars
        => AloneInvariant'
  BY AloneStep DEF WellFormed, ElectionInvariant
<1>3. AloneInvariant => AloneKeepsAcked
  BY DEF AloneInvariant, AloneKeepsAcked
<1> QED  BY <1>1, <1>2, <1>3, WellFormedAlways, ElectionInvariantAlways, PTL
         DEF Spec
=============================================================================
