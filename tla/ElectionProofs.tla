--------------------------- MODULE ElectionProofs ---------------------------
(***************************************************************************)
(* No term has two leaders, for every set of nodes, of which one may be    *)
(* added, and with no bound on terms, calls or restarts.  A quorum of      *)
(* recorded votes stands behind every election, two quorums share a voter, *)
(* and a voter votes once.  The delicate part is that the code counts      *)
(* votes with a number, against a quorum of what the cluster was: the      *)
(* invariant shows that no vote is counted twice, and that every vote      *)
(* counted is a member's.                                                  *)
(***************************************************************************)
EXTENDS RaftNodeProofs

\* A vote binds its voter: the voter's term has reached the vote's, and
\* while it is still the vote's, voted_for is the candidate.
VotesRemembered ==
    \A v \in votesCast : /\ v[2] <= currentTerm[v[1]]
                         /\ v[2] = currentTerm[v[1]] => votedFor[v[1]] = v[3]

\* A reply that will be counted stands for a vote that was cast.
GrantsAreVotes ==
    \A r \in voteReplies :
        GrantsVote(r) => <<r.from, r.callTerm, r.to>> \in votesCast

\* A candidate's tally is the number of nodes that voted for it in its term.
TallyIsExact == \A n \in Node : votesGranted[n] = Cardinality(voters[n])

VotersVoted ==
    \A n \in Node : role[n] = Candidate =>
        \A v \in voters[n] : <<v, currentTerm[n], n>> \in votesCast

\* A candidate has one open call per peer, and none to a counted voter.
OneCallPerPeer ==
    /\ \A m \in voteRequests : m.awaited =>
         /\ m.to \notin voters[m.from]
         /\ \A k \in voteRequests :
              k.awaited /\ k.from = m.from /\ k.to = m.to => k = m
         /\ \A r \in voteReplies : ~(r.to = m.from /\ r.from = m.to)
    /\ \A r \in voteReplies :
         /\ r.from \notin voters[r.to]
         /\ \A s \in voteReplies : s.to = r.to /\ s.from = r.from => s = r

\* The members a candidate asked are the ones whose votes it counts, and
\* they are what the cluster was when its election began.
VotersAreMembers ==
    /\ \A n \in Node : /\ running[n] => n \in members
                       /\ voters[n] \subseteq electorate[n]
                       /\ role[n] = Candidate => electorate[n] \in memberships
    /\ \A m \in voteRequests : m.awaited => m.to \in electorate[m.from]
    /\ \A r \in voteReplies : r.from \in electorate[r.to]

\* Q is a quorum of a cluster C and voted for n in term.
QuorumVoted(votes, C, Q, term, n) ==
    /\ Q \subseteq C
    /\ Cardinality(Q) >= QuorumSize(C)
    /\ \A v \in Q : <<v, term, n>> \in votes

\* A quorum of what the cluster was voted for every node that was elected.
ElectedByQuorum ==
    \A e \in elected : \E C \in memberships, Q \in SUBSET Node :
        QuorumVoted(votesCast, C, Q, e[1], e[2])

ElectionInvariant ==
    /\ OneVotePerTerm
    /\ VotesRemembered
    /\ GrantsAreVotes
    /\ TallyIsExact
    /\ VotersVoted
    /\ OneCallPerPeer
    /\ VotersAreMembers
    /\ ElectedByQuorum

-----------------------------------------------------------------------------
\* Types the steps below rely on.
LEMMA VoteMessageFields ==
  ASSUME TypeOK
  PROVE  /\ \A m \in voteRequests : m.from \in Node /\ m.to \in Node
                                     /\ m.term \in Nat
         /\ \A r \in voteReplies : /\ r.from \in Node /\ r.to \in Node
                                   /\ r.term \in Nat /\ r.callTerm \in Nat
         /\ \A v \in votesCast : /\ v[1] \in Node /\ v[2] \in Nat
                                 /\ v[3] \in Node
         /\ \A n \in Node : /\ currentTerm[n] \in Nat
                            /\ votesGranted[n] \in Nat
                            /\ voters[n] \in SUBSET Node
<1>1. \A m \in voteRequests : m.from \in Node /\ m.to \in Node
                                /\ m.term \in Nat
  BY DEF TypeOK, VoteRequest
<1>2. \A r \in voteReplies : /\ r.from \in Node /\ r.to \in Node
                             /\ r.term \in Nat /\ r.callTerm \in Nat
  BY DEF TypeOK, VoteReply
<1>3. \A v \in votesCast : v[1] \in Node /\ v[2] \in Nat /\ v[3] \in Node
  BY DEF TypeOK
<1>4. \A n \in Node : /\ currentTerm[n] \in Nat /\ votesGranted[n] \in Nat
                      /\ voters[n] \in SUBSET Node
  BY DEF TypeOK
<1> QED  BY <1>1, <1>2, <1>3, <1>4

\* The sets of nodes of this module are finite.
LEMMA VotersFinite ==
  ASSUME TypeOK, NEW n \in Node
  PROVE  IsFiniteSet(voters[n])
<1>1. voters[n] \subseteq Node
  BY DEF TypeOK
<1> QED  BY <1>1, NodeAssumption, FS_Subset

-----------------------------------------------------------------------------
\* A step that casts, counts and requests no vote may only end calls, give
\* them up, raise terms and end candidacies.
Quiet ==
    /\ UNCHANGED <<tallyVars, votesCast, elected>>
    /\ \A m \in voteRequests' : m.awaited => m \in voteRequests
    /\ voteReplies' \subseteq voteReplies
    /\ members \subseteq members' /\ memberships \subseteq memberships'
    /\ \A n \in Node : running'[n] => running[n] \/ n \in members'
    /\ \A n \in Node :
         /\ currentTerm'[n] >= currentTerm[n]
         /\ currentTerm'[n] = currentTerm[n] => votedFor'[n] = votedFor[n]
         /\ role'[n] = Candidate => /\ role[n] = Candidate
                                    /\ currentTerm'[n] = currentTerm[n]

LEMMA QuietStep ==
  ASSUME TypeOK, TypeOK', ElectionInvariant, Quiet
  PROVE  ElectionInvariant'
<1> USE DEF tallyVars
<1>1. OneVotePerTerm'
  BY DEF ElectionInvariant, OneVotePerTerm, Quiet
<1>2. VotesRemembered'
  <2> SUFFICES ASSUME NEW v \in votesCast
               PROVE  /\ v[2] <= currentTerm'[v[1]]
                      /\ v[2] = currentTerm'[v[1]] => votedFor'[v[1]] = v[3]
    BY DEF VotesRemembered, Quiet
  <2>1. /\ v[1] \in Node /\ v[2] \in Nat
        /\ currentTerm[v[1]] \in Nat
    BY VoteMessageFields
  <2>2. currentTerm'[v[1]] \in Nat
    BY <2>1 DEF TypeOK
  <2>3. /\ v[2] <= currentTerm[v[1]]
        /\ v[2] = currentTerm[v[1]] => votedFor[v[1]] = v[3]
    BY DEF ElectionInvariant, VotesRemembered
  <2>4. /\ currentTerm'[v[1]] >= currentTerm[v[1]]
        /\ currentTerm'[v[1]] = currentTerm[v[1]]
             => votedFor'[v[1]] = votedFor[v[1]]
    BY <2>1 DEF Quiet
  <2> QED  BY <2>1, <2>2, <2>3, <2>4
<1>3. GrantsAreVotes'
  BY DEF ElectionInvariant, GrantsAreVotes, GrantsVote, Quiet
<1>4. TallyIsExact'
  BY DEF ElectionInvariant, TallyIsExact, Quiet
<1>5. VotersVoted'
  BY DEF ElectionInvariant, VotersVoted, Quiet
<1>6. OneCallPerPeer'
  BY DEF ElectionInvariant, OneCallPerPeer, Quiet
<1>7. ElectedByQuorum'
  BY DEF ElectionInvariant, ElectedByQuorum, QuorumVoted, Quiet
<1>8. VotersAreMembers'
  BY DEF ElectionInvariant, VotersAreMembers, Quiet
<1> QED  BY <1>1, <1>2, <1>3, <1>4, <1>5, <1>6, <1>7, <1>8
         DEF ElectionInvariant

\* become_follower is quiet when the term is not lowered.
LEMMA BecomeFollowerQuiet ==
  ASSUME TypeOK, NEW n \in Node, NEW term \in Nat, term >= currentTerm[n],
         BecomeFollower(n, term)
  PROVE  \A k \in Node :
           /\ currentTerm'[k] >= currentTerm[k]
           /\ currentTerm'[k] = currentTerm[k] => votedFor'[k] = votedFor[k]
           /\ role'[k] = Candidate => /\ role[k] = Candidate
                                      /\ currentTerm'[k] = currentTerm[k]
<1> SUFFICES ASSUME NEW k \in Node
             PROVE  /\ currentTerm'[k] >= currentTerm[k]
                    /\ currentTerm'[k] = currentTerm[k]
                         => votedFor'[k] = votedFor[k]
                    /\ role'[k] = Candidate =>
                         /\ role[k] = Candidate
                         /\ currentTerm'[k] = currentTerm[k]
  OBVIOUS
<1>1. currentTerm[k] \in Nat
  BY DEF TypeOK
<1>2. CASE k = n
  BY <1>1, <1>2 DEF BecomeFollower, TypeOK, Follower, Candidate
<1>3. CASE k # n
  BY <1>1, <1>3 DEF BecomeFollower, TypeOK
<1> QED  BY <1>2, <1>3

\* A step that leaves terms, votes and roles alone is quiet about them.
LEMMA UnchangedQuiet ==
  ASSUME TypeOK, UNCHANGED <<currentTerm, votedFor, role>>
  PROVE  \A k \in Node :
           /\ currentTerm'[k] >= currentTerm[k]
           /\ currentTerm'[k] = currentTerm[k] => votedFor'[k] = votedFor[k]
           /\ role'[k] = Candidate => /\ role[k] = Candidate
                                      /\ currentTerm'[k] = currentTerm[k]
<1>1. \A k \in Node : currentTerm[k] \in Nat
  BY DEF TypeOK
<1> QED  BY <1>1

-----------------------------------------------------------------------------
\* The four actions that cast, request or count votes.
LEMMA StartElectionInvariant ==
  ASSUME TypeOK, ElectionInvariant, NEW n \in Node, StartElection(n)
  PROVE  ElectionInvariant'
<1> DEFINE t == currentTerm[n] + 1
<1>1. /\ currentTerm' = [currentTerm EXCEPT ![n] = t]
      /\ votedFor' = [votedFor EXCEPT ![n] = n]
      /\ votesCast' = votesCast \cup {<<n, t, n>>}
      /\ votesGranted' = [votesGranted EXCEPT ![n] = 1]
      /\ voters' = [voters EXCEPT ![n] = {n}]
      /\ role' = [role EXCEPT ![n] = Candidate]
      /\ electorate' = [electorate EXCEPT ![n] = members]
      /\ voteReplies' = voteReplies /\ elected' = elected
      /\ UNCHANGED <<members, memberships, running>>
      /\ running[n] /\ ~ElectionInProgress(n)
  BY DEF StartElection, BecomeCandidate, CanStartElection, clusterVars
<1>2. currentTerm[n] \in Nat /\ t \in Nat /\ t > currentTerm[n]
  BY DEF TypeOK
<1> HIDE DEF t
<1>3. ASSUME NEW v \in votesCast, v[1] = n
      PROVE  v[2] < t
  BY <1>2, <1>3, VoteMessageFields DEF ElectionInvariant, VotesRemembered
<1>4. OneVotePerTerm'
  BY <1>1, <1>2, <1>3, VoteMessageFields
  DEF ElectionInvariant, OneVotePerTerm
<1>5. VotesRemembered'
  <2> SUFFICES ASSUME NEW v \in votesCast'
               PROVE  /\ v[2] <= currentTerm'[v[1]]
                      /\ v[2] = currentTerm'[v[1]] => votedFor'[v[1]] = v[3]
    BY DEF VotesRemembered
  <2>0. currentTerm'[n] = t /\ votedFor'[n] = n
    BY <1>1 DEF TypeOK
  <2>1. CASE v = <<n, t, n>>
    BY <1>2, <2>0, <2>1
  <2>2. CASE v \in votesCast /\ v[1] = n
    <3>1. v[2] \in Nat /\ v[2] < t
      BY <1>3, <2>2, VoteMessageFields
    <3> QED  BY <1>2, <2>0, <2>2, <3>1
  <2>3. CASE v \in votesCast /\ v[1] # n
    BY <1>1, <2>3, VoteMessageFields
    DEF ElectionInvariant, VotesRemembered, TypeOK
  <2> QED  BY <1>1, <2>1, <2>2, <2>3
<1>6. GrantsAreVotes'
  BY <1>1 DEF ElectionInvariant, GrantsAreVotes, GrantsVote
<1>7. TallyIsExact'
  <2>1. Cardinality({n}) = 1
    BY FS_Singleton
  <2> QED  BY <1>1, <2>1 DEF ElectionInvariant, TallyIsExact, TypeOK
<1>8. VotersVoted'
  BY <1>1 DEF ElectionInvariant, VotersVoted, TypeOK, Candidate
<1>9. OneCallPerPeer'
  <2> DEFINE Call(p) == [from |-> n, to |-> p, term |-> t,
                         lastLogIndex |-> LastLogIndex(log[n]),
                         lastLogTerm |-> LastLogTerm(log[n]), awaited |-> TRUE]
  <2>1. voteRequests' = voteRequests \cup {Call(p) : p \in Peers(n)}
    BY DEF StartElection, t
  <2>2. \A m \in voteRequests' : m.awaited =>
          \/ m \in voteRequests /\ m.from # n
          \/ m.from = n /\ \E p \in Peers(n) : m = Call(p)
    BY <1>1, <2>1 DEF ElectionInProgress
  <2>3. \A r \in voteReplies : r.to # n
    BY <1>1 DEF ElectionInProgress
  <2>4. \A p \in Peers(n) : p \in Node /\ p # n
    BY DEF Peers, TypeOK
  <2>5. \A k \in Node : k # n => voters'[k] = voters[k]
    BY <1>1 DEF TypeOK
  <2>6. voters'[n] = {n}
    BY <1>1 DEF TypeOK
  <2>7. \A p \in Peers(n) : Call(p).from = n /\ Call(p).to = p
    OBVIOUS
  <2> HIDE DEF Call
  <2>8. ASSUME NEW m \in voteRequests', m.awaited
        PROVE  /\ m.to \notin voters'[m.from]
               /\ \A k \in voteRequests' :
                    k.awaited /\ k.from = m.from /\ k.to = m.to => k = m
               /\ \A r \in voteReplies : ~(r.to = m.from /\ r.from = m.to)
    <3>1. CASE m \in voteRequests /\ m.from # n
      BY <2>2, <2>5, <2>8, <3>1, VoteMessageFields
      DEF ElectionInvariant, OneCallPerPeer
    <3>2. CASE m.from = n /\ \E p \in Peers(n) : m = Call(p)
      BY <2>2, <2>3, <2>4, <2>6, <2>7, <3>2
    <3> QED  BY <2>2, <2>8, <3>1, <3>2
  <2>9. ASSUME NEW r \in voteReplies
        PROVE  /\ r.from \notin voters'[r.to]
               /\ \A s \in voteReplies : s.to = r.to /\ s.from = r.from => s = r
    BY <2>3, <2>5, VoteMessageFields DEF ElectionInvariant, OneCallPerPeer
  <2> QED  BY <1>1, <2>8, <2>9 DEF OneCallPerPeer
<1>10. ElectedByQuorum'
  BY <1>1 DEF ElectionInvariant, ElectedByQuorum, QuorumVoted
<1>11. VotersAreMembers'
  <2>1. /\ electorate'[n] = members /\ voters'[n] = {n}
        /\ \A k \in Node : k # n => /\ electorate'[k] = electorate[k]
                                    /\ voters'[k] = voters[k]
                                    /\ role'[k] = role[k]
    BY <1>1 DEF TypeOK
  <2>2. members \in memberships /\ n \in members
    BY <1>1 DEF ElectionInvariant, VotersAreMembers, TypeOK
  <2>3. ASSUME NEW m \in voteRequests', m.awaited
        PROVE  m.to \in electorate'[m.from]
    <3>1. CASE m \in voteRequests
      <4>1. m.from # n /\ m.from \in Node
        BY <1>1, <2>3, <3>1, VoteMessageFields DEF ElectionInProgress
      <4> QED  BY <2>1, <2>3, <3>1, <4>1
               DEF ElectionInvariant, VotersAreMembers
    <3>2. CASE m \notin voteRequests
      <4>1. m.from = n /\ m.to \in Peers(n)
        BY <3>2 DEF StartElection
      <4> QED  BY <2>1, <4>1 DEF Peers
    <3> QED  BY <3>1, <3>2
  <2>4. ASSUME NEW r \in voteReplies
        PROVE  r.from \in electorate'[r.to]
    BY <1>1, <2>1, VoteMessageFields
    DEF ElectionInProgress, ElectionInvariant, VotersAreMembers
  <2>5. \A k \in Node : /\ running'[k] => k \in members'
                        /\ voters'[k] \subseteq electorate'[k]
                        /\ role'[k] = Candidate => electorate'[k] \in memberships'
    BY <1>1, <2>1, <2>2 DEF ElectionInvariant, VotersAreMembers
  <2> QED  BY <1>1, <2>3, <2>4, <2>5 DEF VotersAreMembers
<1> QED  BY <1>4, <1>5, <1>6, <1>7, <1>8, <1>9, <1>10, <1>11
         DEF ElectionInvariant

LEMMA StartElectionAloneInvariant ==
  ASSUME TypeOK, ElectionInvariant, NEW n \in Node, StartElectionAlone(n)
  PROVE  ElectionInvariant'
<1> DEFINE t == currentTerm[n] + 1
<1>1. /\ currentTerm' = [currentTerm EXCEPT ![n] = t]
      /\ votedFor' = [votedFor EXCEPT ![n] = n]
      /\ votesCast' = votesCast \cup {<<n, t, n>>}
      /\ votesGranted' = [votesGranted EXCEPT ![n] = 1]
      /\ voters' = [voters EXCEPT ![n] = {n}]
      /\ role' = [role EXCEPT ![n] = Leader]
      /\ elected' = elected \cup {<<t, n>>}
      /\ electorate' = [electorate EXCEPT ![n] = members]
      /\ Quorum <= 1
      /\ running[n] /\ ~ElectionInProgress(n)
      /\ voteRequests' = voteRequests /\ voteReplies' = voteReplies
      /\ UNCHANGED <<members, memberships, running>>
  BY DEF StartElectionAlone, BecomeCandidate, BecomeLeader, CanStartElection,
         voteCalls, clusterVars
<1>2. currentTerm[n] \in Nat /\ t \in Nat /\ t > currentTerm[n]
  BY DEF TypeOK
<1> HIDE DEF t
<1>3. ASSUME NEW v \in votesCast, v[1] = n
      PROVE  v[2] < t
  BY <1>2, <1>3, VoteMessageFields DEF ElectionInvariant, VotesRemembered
<1>4. OneVotePerTerm'
  BY <1>1, <1>2, <1>3, VoteMessageFields
  DEF ElectionInvariant, OneVotePerTerm
<1>5. VotesRemembered'
  <2> SUFFICES ASSUME NEW v \in votesCast'
               PROVE  /\ v[2] <= currentTerm'[v[1]]
                      /\ v[2] = currentTerm'[v[1]] => votedFor'[v[1]] = v[3]
    BY DEF VotesRemembered
  <2>0. currentTerm'[n] = t /\ votedFor'[n] = n
    BY <1>1 DEF TypeOK
  <2>1. CASE v = <<n, t, n>>
    BY <1>2, <2>0, <2>1
  <2>2. CASE v \in votesCast /\ v[1] = n
    <3>1. v[2] \in Nat /\ v[2] < t
      BY <1>3, <2>2, VoteMessageFields
    <3> QED  BY <1>2, <2>0, <2>2, <3>1
  <2>3. CASE v \in votesCast /\ v[1] # n
    BY <1>1, <2>3, VoteMessageFields
    DEF ElectionInvariant, VotesRemembered, TypeOK
  <2> QED  BY <1>1, <2>1, <2>2, <2>3
<1>6. GrantsAreVotes'
  BY <1>1 DEF ElectionInvariant, GrantsAreVotes, GrantsVote
<1>7. Cardinality({n}) = 1
  BY FS_Singleton
<1>8. TallyIsExact'
  BY <1>1, <1>7 DEF ElectionInvariant, TallyIsExact, TypeOK
<1>9. VotersVoted'
  BY <1>1 DEF ElectionInvariant, VotersVoted, TypeOK, Candidate, Leader
<1>10. OneCallPerPeer'
  <2>1. \A m \in voteRequests : m.awaited => m.from # n
    BY <1>1 DEF ElectionInProgress
  <2>2. \A r \in voteReplies : r.to # n
    BY <1>1 DEF ElectionInProgress
  <2>3. \A k \in Node : k # n => voters'[k] = voters[k]
    BY <1>1 DEF TypeOK
  <2> QED  BY <1>1, <2>1, <2>2, <2>3, VoteMessageFields
           DEF ElectionInvariant, OneCallPerPeer
<1>11. VotersAreMembers'
  <2>1. /\ electorate'[n] = members /\ voters'[n] = {n}
        /\ role'[n] = Leader
        /\ \A k \in Node : k # n => /\ electorate'[k] = electorate[k]
                                    /\ voters'[k] = voters[k]
                                    /\ role'[k] = role[k]
    BY <1>1 DEF TypeOK
  <2>2. n \in members
    BY <1>1 DEF ElectionInvariant, VotersAreMembers
  <2>3. /\ \A m \in voteRequests : m.awaited => m.from # n
        /\ \A r \in voteReplies : r.to # n
    BY <1>1 DEF ElectionInProgress
  <2>4. /\ \A m \in voteRequests : m.awaited => m.to \in electorate'[m.from]
        /\ \A r \in voteReplies : r.from \in electorate'[r.to]
    BY <2>1, <2>3, VoteMessageFields DEF ElectionInvariant, VotersAreMembers
  <2>5. \A k \in Node : /\ running'[k] => k \in members'
                        /\ voters'[k] \subseteq electorate'[k]
                        /\ role'[k] = Candidate => electorate'[k] \in memberships'
    BY <1>1, <2>1, <2>2
    DEF ElectionInvariant, VotersAreMembers, Leader, Candidate
  <2> QED  BY <1>1, <2>4, <2>5 DEF VotersAreMembers
<1>12. ElectedByQuorum'
  <2>1. ASSUME NEW e \in elected
        PROVE  \E C \in memberships', Q \in SUBSET Node :
                 QuorumVoted(votesCast', C, Q, e[1], e[2])
    BY <1>1 DEF ElectionInvariant, ElectedByQuorum, QuorumVoted
  <2>2. /\ {n} \in SUBSET Node /\ members \in memberships'
        /\ QuorumVoted(votesCast', members, {n}, t, n)
    <3>1. members \in memberships /\ IsFiniteSet(members)
      BY NodeAssumption, FS_Subset DEF TypeOK
    <3>2. QuorumSize(members) \in Int
      BY <3>1, FS_CardinalityType DEF QuorumSize
    <3>3. n \in members
      BY <1>1 DEF ElectionInvariant, VotersAreMembers
    <3>4. Cardinality({n}) >= QuorumSize(members)
      BY <1>1, <1>7, <3>2 DEF Quorum
    <3> QED  BY <1>1, <3>1, <3>3, <3>4 DEF QuorumVoted
  <2> QED  BY <1>1, <2>1, <2>2 DEF ElectedByQuorum, QuorumVoted
<1> QED  BY <1>4, <1>5, <1>6, <1>8, <1>9, <1>10, <1>11, <1>12
         DEF ElectionInvariant

LEMMA HandleRequestVoteInvariant ==
  ASSUME TypeOK, ElectionInvariant, NEW m \in voteRequests,
         HandleRequestVote(m)
  PROVE  ElectionInvariant'
<1>1. m.to \in Node /\ m.from \in Node /\ m.term \in Nat
  BY VoteMessageFields
<1> DEFINE n == m.to
<1>2. currentTerm[n] \in Nat /\ votedFor[n] \in Node \cup {None}
  BY <1>1 DEF TypeOK
<1>3. PICK term \in Nat :
        term = IF m.term > currentTerm[n] THEN m.term ELSE currentTerm[n]
  BY <1>1, <1>2
<1>4. PICK vote \in Node \cup {None} :
        vote = IF m.term > currentTerm[n] THEN None ELSE votedFor[n]
  BY <1>2
<1>5. PICK granted \in BOOLEAN :
        granted = /\ m.term = term
                  /\ vote \in {None, m.from}
                  /\ IsLogUpToDate(m.lastLogTerm, m.lastLogIndex, log[n])
  OBVIOUS
<1>6. /\ currentTerm' = [currentTerm EXCEPT ![n] = term]
      /\ role' = [role EXCEPT ![n] =
                    IF m.term > currentTerm[n] THEN Follower ELSE @]
      /\ votedFor' = [votedFor EXCEPT ![n] = IF granted THEN m.from ELSE vote]
      /\ votesCast' = IF granted THEN votesCast \cup {<<n, term, m.from>>}
                                 ELSE votesCast
      /\ AnswerVote(m, term, granted)
      /\ UNCHANGED <<elected, votesGranted, electorate, voters>>
      /\ UNCHANGED <<members, memberships, running>>
  BY <1>3, <1>4, <1>5 DEF HandleRequestVote, tallyVars, clusterVars
<1>7. granted => m.term = term /\ vote \in {None, m.from}
  BY <1>5
<1>8. ASSUME NEW v \in votesCast, v[1] = n
      PROVE  /\ v[2] \in Nat /\ v[3] \in Node /\ v[2] <= term
             /\ v[2] = term => v[3] = vote
  <2>1. /\ v[2] \in Nat /\ v[3] \in Node
    BY VoteMessageFields
  <2>2. /\ v[2] <= currentTerm[n]
        /\ v[2] = currentTerm[n] => votedFor[n] = v[3]
    BY <1>8 DEF ElectionInvariant, VotesRemembered
  <2> QED  BY <1>1, <1>2, <1>3, <1>4, <2>1, <2>2
<1>9. /\ currentTerm'[n] = term
      /\ votedFor'[n] = IF granted THEN m.from ELSE vote
      /\ \A k \in Node : k # n => /\ currentTerm'[k] = currentTerm[k]
                                  /\ votedFor'[k] = votedFor[k]
                                  /\ role'[k] = role[k]
  BY <1>1, <1>6 DEF TypeOK
<1> HIDE DEF n
<1>10. ASSUME NEW v \in votesCast, v[1] = n, v[2] = term, granted
       PROVE  v[3] = m.from
  BY <1>7, <1>8, <1>10, NodeAssumption
<1>11. OneVotePerTerm'
  <2> SUFFICES ASSUME NEW a \in votesCast', NEW b \in votesCast',
                      a[1] = b[1], a[2] = b[2]
               PROVE  a[3] = b[3]
    BY DEF OneVotePerTerm
  <2>1. CASE a \in votesCast /\ b \in votesCast
    BY <2>1 DEF ElectionInvariant, OneVotePerTerm
  <2>2. CASE granted /\ a = <<n, term, m.from>> /\ b \in votesCast
    BY <1>10, <2>2
  <2>3. CASE granted /\ b = <<n, term, m.from>> /\ a \in votesCast
    BY <1>10, <2>3
  <2> QED  BY <1>6, <2>1, <2>2, <2>3
<1>12. VotesRemembered'
  <2> SUFFICES ASSUME NEW v \in votesCast'
               PROVE  /\ v[2] <= currentTerm'[v[1]]
                      /\ v[2] = currentTerm'[v[1]] => votedFor'[v[1]] = v[3]
    BY DEF VotesRemembered
  <2>1. CASE granted /\ v = <<n, term, m.from>>
    BY <1>9, <2>1
  <2>2. CASE v \in votesCast /\ v[1] = n
    BY <1>8, <1>9, <1>10, <2>2
  <2>3. CASE v \in votesCast /\ v[1] # n
    BY <1>9, <2>3, VoteMessageFields DEF ElectionInvariant, VotesRemembered
  <2> QED  BY <1>6, <2>1, <2>2, <2>3
<1>13. GrantsAreVotes'
  <2> SUFFICES ASSUME NEW r \in voteReplies', GrantsVote(r)
               PROVE  <<r.from, r.callTerm, r.to>> \in votesCast'
    BY DEF GrantsAreVotes, GrantsVote
  <2>1. CASE r \in voteReplies
    BY <1>6, <2>1 DEF ElectionInvariant, GrantsAreVotes
  <2>2. CASE r = [from |-> m.to, to |-> m.from, callTerm |-> m.term,
                  term |-> term, voteGranted |-> granted]
    BY <1>6, <1>7, <2>2 DEF GrantsVote, n
  <2> QED  BY <1>6, <2>1, <2>2 DEF AnswerVote
<1>14. TallyIsExact'
  BY <1>6 DEF ElectionInvariant, TallyIsExact
<1>15. VotersVoted'
  <2> SUFFICES ASSUME NEW k \in Node, role'[k] = Candidate,
                      NEW v \in voters[k]
               PROVE  <<v, currentTerm'[k], k>> \in votesCast'
    BY <1>6 DEF VotersVoted
  <2>1. role[k] = Candidate /\ currentTerm'[k] = currentTerm[k]
    <3>1. CASE k # n
      BY <1>9, <3>1
    <3>2. CASE k = n
      BY <1>1, <1>3, <1>6, <1>9, <3>2 DEF TypeOK, Follower, Candidate, n
    <3> QED  BY <3>1, <3>2
  <2> QED  BY <1>6, <2>1 DEF ElectionInvariant, VotersVoted
<1>16. OneCallPerPeer'
  <2>1. voteRequests' = voteRequests \ {m}
    BY <1>6 DEF AnswerVote
  <2>2. ASSUME NEW r \in voteReplies', r \notin voteReplies
        PROVE  m.awaited /\ r.from = m.to /\ r.to = m.from
    BY <1>6, <2>2 DEF AnswerVote
  <2>3. voteReplies \subseteq voteReplies'
    BY <1>6 DEF AnswerVote
  <2>4. \A r, s \in voteReplies' :
          r \notin voteReplies /\ s \notin voteReplies => r = s
    BY <1>6 DEF AnswerVote
  <2>5. ASSUME NEW k \in voteRequests', k.awaited
        PROVE  /\ k.to \notin voters[k.from]
               /\ \A j \in voteRequests' :
                    j.awaited /\ j.from = k.from /\ j.to = k.to => j = k
               /\ \A r \in voteReplies' : ~(r.to = k.from /\ r.from = k.to)
    BY <2>1, <2>2, <2>5 DEF ElectionInvariant, OneCallPerPeer
  <2>6. ASSUME NEW r \in voteReplies'
        PROVE  /\ r.from \notin voters[r.to]
               /\ \A s \in voteReplies' : s.to = r.to /\ s.from = r.from => s = r
    BY <2>2, <2>4 DEF ElectionInvariant, OneCallPerPeer
  <2> QED  BY <1>6, <2>5, <2>6 DEF OneCallPerPeer
<1>17. ElectedByQuorum'
  BY <1>6 DEF ElectionInvariant, ElectedByQuorum, QuorumVoted
<1>18. VotersAreMembers'
  <2>1. \A k \in Node : role'[k] = Candidate => role[k] = Candidate
    BY <1>6 DEF TypeOK, Follower, Candidate
  <2>2. voteRequests' = voteRequests \ {m}
    BY <1>6 DEF AnswerVote
  <2>3. ASSUME NEW r \in voteReplies'
        PROVE  r.from \in electorate[r.to]
    <3>1. CASE r \in voteReplies
      BY <3>1 DEF ElectionInvariant, VotersAreMembers
    <3>2. CASE r \notin voteReplies
      <4>1. m.awaited /\ r.from = m.to /\ r.to = m.from
        BY <1>6, <3>2 DEF AnswerVote
      <4> QED  BY <4>1 DEF ElectionInvariant, VotersAreMembers
    <3> QED  BY <3>1, <3>2
  <2> QED  BY <1>6, <2>1, <2>2, <2>3 DEF ElectionInvariant, VotersAreMembers
<1> QED  BY <1>11, <1>12, <1>13, <1>14, <1>15, <1>16, <1>17, <1>18
         DEF ElectionInvariant

LEMMA VoteReplyCountedInvariant ==
  ASSUME TypeOK, ElectionInvariant, NEW r \in voteReplies,
         VoteReplyCounted(r)
  PROVE  ElectionInvariant'
<1>1. r.to \in Node /\ r.from \in Node
  BY VoteMessageFields
<1> DEFINE n == r.to
<1>2. /\ role[n] = Candidate /\ currentTerm[n] = r.callTerm /\ GrantsVote(r)
      /\ votesGranted' = [votesGranted EXCEPT ![n] = @ + 1]
      /\ voters' = [voters EXCEPT ![n] = @ \cup {r.from}]
      /\ voteReplies' = voteReplies \ {r} /\ voteRequests' = voteRequests
      /\ UNCHANGED <<currentTerm, votedFor, votesCast, electorate>>
      /\ UNCHANGED <<members, memberships, running>>
      /\ \/ /\ votesGranted[n] + 1 >= QuorumSize(electorate[n])
            /\ role' = [role EXCEPT ![n] = Leader]
            /\ elected' = elected \cup {<<currentTerm[n], n>>}
         \/ role' = role /\ elected' = elected
  BY DEF VoteReplyCounted, ElectionGoesOn, BecomeLeader, termVars, clusterVars
<1> HIDE DEF n
<1>3. n \in Node
  BY <1>1 DEF n
<1>4. PICK Q \in SUBSET Node : Q = voters[n] \cup {r.from}
  BY <1>1, <1>3, VoteMessageFields
<1>5. voters'[n] = Q /\ \A k \in Node : k # n => voters'[k] = voters[k]
  BY <1>2, <1>3, <1>4 DEF TypeOK
<1>6. Cardinality(Q) = votesGranted[n] + 1
  <2>1. r.from \notin voters[n]
    BY DEF ElectionInvariant, OneCallPerPeer, n
  <2>2. IsFiniteSet(voters[n])
    BY <1>3, VotersFinite
  <2>3. Cardinality(voters[n] \cup {r.from}) = Cardinality(voters[n]) + 1
    BY <2>1, <2>2, FS_AddElement
  <2> QED  BY <1>3, <1>4, <2>3 DEF ElectionInvariant, TallyIsExact
<1>7. \A v \in Q : <<v, currentTerm[n], n>> \in votesCast
  <2>1. <<r.from, currentTerm[n], n>> \in votesCast
    BY <1>2 DEF ElectionInvariant, GrantsAreVotes, n
  <2>2. \A v \in voters[n] : <<v, currentTerm[n], n>> \in votesCast
    BY <1>2, <1>3 DEF ElectionInvariant, VotersVoted
  <2> QED  BY <1>4, <2>1, <2>2
<1>8. OneVotePerTerm' /\ VotesRemembered'
  BY <1>2 DEF ElectionInvariant, OneVotePerTerm, VotesRemembered
<1>9. GrantsAreVotes'
  BY <1>2 DEF ElectionInvariant, GrantsAreVotes, GrantsVote
<1>10. TallyIsExact'
  BY <1>2, <1>3, <1>5, <1>6 DEF ElectionInvariant, TallyIsExact, TypeOK
<1>11. VotersVoted'
  <2> SUFFICES ASSUME NEW k \in Node, role'[k] = Candidate,
                      NEW v \in voters'[k]
               PROVE  <<v, currentTerm[k], k>> \in votesCast
    BY <1>2 DEF VotersVoted
  <2>1. CASE k = n
    BY <1>5, <1>7, <2>1
  <2>2. CASE k # n
    <3>1. role[k] = Candidate
      BY <1>2, <2>2 DEF TypeOK
    <3> QED  BY <1>5, <2>2, <3>1 DEF ElectionInvariant, VotersVoted
  <2> QED  BY <2>1, <2>2
<1>12. OneCallPerPeer'
  <2>1. ASSUME NEW m \in voteRequests, m.awaited
        PROVE  m.to \notin voters'[m.from]
    <3>1. /\ m.to \notin voters[m.from]
          /\ ~(r.to = m.from /\ r.from = m.to)
      BY <2>1 DEF ElectionInvariant, OneCallPerPeer
    <3>2. m.from \in Node
      BY VoteMessageFields
    <3> QED  BY <1>4, <1>5, <3>1, <3>2 DEF n
  <2>2. ASSUME NEW s \in voteReplies, s # r
        PROVE  s.from \notin voters'[s.to]
    <3>1. /\ s.from \notin voters[s.to]
          /\ ~(s.to = r.to /\ s.from = r.from)
      BY <2>2 DEF ElectionInvariant, OneCallPerPeer
    <3>2. s.to \in Node
      BY VoteMessageFields
    <3> QED  BY <1>4, <1>5, <3>1, <3>2 DEF n
  <2> QED  BY <1>2, <2>1, <2>2 DEF ElectionInvariant, OneCallPerPeer
<1>13. VotersAreMembers'
  <2>1. r.from \in electorate[n] /\ voters[n] \subseteq electorate[n]
    BY <1>3 DEF ElectionInvariant, VotersAreMembers, n
  <2>2. \A k \in Node : role'[k] = Candidate => role[k] = Candidate
    BY <1>2 DEF TypeOK, Leader, Candidate
  <2>3. \A k \in Node : voters'[k] \subseteq electorate[k]
    BY <1>4, <1>5, <2>1 DEF ElectionInvariant, VotersAreMembers
  <2> QED  BY <1>2, <2>2, <2>3 DEF ElectionInvariant, VotersAreMembers
<1>14. ElectedByQuorum'
  <2>1. ASSUME NEW e \in elected
        PROVE  \E C \in memberships, P \in SUBSET Node :
                 QuorumVoted(votesCast, C, P, e[1], e[2])
    BY DEF ElectionInvariant, ElectedByQuorum
  <2>2. CASE elected' = elected
    BY <1>2, <2>1, <2>2 DEF ElectedByQuorum, QuorumVoted
  <2>3. CASE /\ votesGranted[n] + 1 >= QuorumSize(electorate[n])
             /\ elected' = elected \cup {<<currentTerm[n], n>>}
    <3>1. electorate[n] \in memberships /\ Q \subseteq electorate[n]
      BY <1>2, <1>3, <1>4 DEF ElectionInvariant, VotersAreMembers, n
    <3>2. QuorumVoted(votesCast, electorate[n], Q, currentTerm[n], n)
      BY <1>6, <1>7, <2>3, <3>1 DEF QuorumVoted
    <3> QED  BY <1>2, <2>1, <2>3, <3>1, <3>2 DEF ElectedByQuorum, QuorumVoted
  <2> QED  BY <1>2, <2>2, <2>3
<1> QED  BY <1>8, <1>9, <1>10, <1>11, <1>12, <1>13, <1>14
         DEF ElectionInvariant


-----------------------------------------------------------------------------
LEMMA ElectionInit == Init => ElectionInvariant
<1> SUFFICES ASSUME Init PROVE ElectionInvariant
  OBVIOUS
<1>1. TallyIsExact
  BY FS_EmptySet DEF Init, TallyIsExact
<1>2. VotersVoted
  BY DEF Init, VotersVoted, Follower, Candidate
<1>3. ElectedByQuorum /\ OneVotePerTerm /\ VotesRemembered
  BY DEF Init, ElectedByQuorum, OneVotePerTerm, VotesRemembered
<1>4. GrantsAreVotes /\ OneCallPerPeer
  BY DEF Init, GrantsAreVotes, OneCallPerPeer
<1>5. VotersAreMembers
  BY DEF Init, VotersAreMembers, Follower, Candidate
<1> QED  BY <1>1, <1>2, <1>3, <1>4, <1>5 DEF ElectionInvariant

LEMMA ElectionStep ==
  WellFormed /\ WellFormed' /\ ElectionInvariant /\ [Next]_vars
    => ElectionInvariant'
<1> SUFFICES ASSUME WellFormed, WellFormed', ElectionInvariant, [Next]_vars
             PROVE  ElectionInvariant'
  OBVIOUS
<1>t. TypeOK /\ TypeOK'
  BY DEF WellFormed
<1>q. Quiet => ElectionInvariant'
  BY <1>t, QuietStep
<1> USE DEF nodeVars, clusterVars, roleVars, termVars, tallyVars, voteCalls,
            historyVars
<1>1. ASSUME NEW n \in Node, StartElection(n) PROVE ElectionInvariant'
  BY <1>t, <1>1, StartElectionInvariant
<1>2. ASSUME NEW n \in Node, StartElectionAlone(n) PROVE ElectionInvariant'
  BY <1>t, <1>2, StartElectionAloneInvariant
<1>3. ASSUME NEW m \in voteRequests, HandleRequestVote(m) PROVE ElectionInvariant'
  BY <1>t, <1>3, HandleRequestVoteInvariant
<1>4. ASSUME NEW r \in voteReplies, VoteReplyCounted(r) PROVE ElectionInvariant'
  BY <1>t, <1>4, VoteReplyCountedInvariant
<1>5. ASSUME NEW n \in Node, Heartbeat(n) PROVE ElectionInvariant'
  BY <1>t, <1>q, <1>5, UnchangedQuiet DEF Heartbeat, Quiet
<1>6. ASSUME NEW n \in Node, ExecuteCommand(n) PROVE ElectionInvariant'
  BY <1>t, <1>q, <1>6, UnchangedQuiet DEF ExecuteCommand, Quiet
<1>7. ASSUME NEW n \in Node, ExecuteCommandAlone(n) PROVE ElectionInvariant'
  BY <1>t, <1>q, <1>7, UnchangedQuiet DEF ExecuteCommandAlone, Quiet
<1>8. ASSUME NEW m \in voteRequests, LoseVoteRequest(m) PROVE ElectionInvariant'
  BY <1>t, <1>q, <1>8, UnchangedQuiet DEF LoseVoteRequest, Quiet
<1>9. ASSUME NEW m \in voteRequests, VoteCallTimesOut(m) PROVE ElectionInvariant'
  <2>1. m \in VoteRequest
    BY <1>t DEF TypeOK
  <2>2. [m EXCEPT !.awaited = FALSE].awaited = FALSE
    BY <2>1 DEF VoteRequest
  <2>3. \A k \in voteRequests' : k.awaited => k \in voteRequests
    BY <1>9, <2>2 DEF VoteCallTimesOut, GiveUp
  <2> QED  BY <1>t, <1>q, <1>9, <2>3, UnchangedQuiet
           DEF VoteCallTimesOut, Quiet
<1>10. ASSUME NEW r \in voteReplies, VoteReplyIgnored(r) PROVE ElectionInvariant'
  BY <1>t, <1>q, <1>10, UnchangedQuiet DEF VoteReplyIgnored, Quiet
<1>11. ASSUME NEW r \in voteReplies, LoseVoteReply(r) PROVE ElectionInvariant'
  BY <1>t, <1>q, <1>11, UnchangedQuiet DEF LoseVoteReply, Quiet
<1>12. ASSUME NEW m \in appendRequests, RejectStaleAppend(m) PROVE ElectionInvariant'
  BY <1>t, <1>q, <1>12, UnchangedQuiet DEF RejectStaleAppend, Quiet
<1>13. ASSUME NEW m \in appendRequests, LoseAppendRequest(m) PROVE ElectionInvariant'
  BY <1>t, <1>q, <1>13, UnchangedQuiet DEF LoseAppendRequest, Quiet
<1>14. ASSUME NEW m \in appendRequests, AppendCallTimesOut(m) PROVE ElectionInvariant'
  BY <1>t, <1>q, <1>14, UnchangedQuiet DEF AppendCallTimesOut, Quiet
<1>15. ASSUME NEW r \in appendReplies, AppendReplyIgnored(r) PROVE ElectionInvariant'
  BY <1>t, <1>q, <1>15, UnchangedQuiet DEF AppendReplyIgnored, Quiet
<1>16. ASSUME NEW r \in appendReplies, AppendReplySuccess(r) PROVE ElectionInvariant'
  BY <1>t, <1>q, <1>16, UnchangedQuiet DEF AppendReplySuccess, Quiet
<1>17. ASSUME NEW r \in appendReplies, AppendReplyFailure(r) PROVE ElectionInvariant'
  BY <1>t, <1>q, <1>17, UnchangedQuiet DEF AppendReplyFailure, Quiet
<1>18. ASSUME NEW r \in appendReplies, LoseAppendReply(r) PROVE ElectionInvariant'
  BY <1>t, <1>q, <1>18, UnchangedQuiet DEF LoseAppendReply, Quiet
<1>19. ASSUME NEW c \in commands, CommandRetry(c) PROVE ElectionInvariant'
  BY <1>t, <1>q, <1>19, UnchangedQuiet DEF CommandRetry, Quiet
<1>20. ASSUME NEW c \in commands, CommandCommitted(c) PROVE ElectionInvariant'
  BY <1>t, <1>q, <1>20, UnchangedQuiet DEF CommandCommitted, Quiet
<1>21. ASSUME NEW c \in commands, CommandPending(c) PROVE ElectionInvariant'
  BY <1>t, <1>q, <1>21, UnchangedQuiet DEF CommandPending, Quiet
<1>22. ASSUME NEW c \in commands, CommandReturns(c) PROVE ElectionInvariant'
  BY <1>t, <1>q, <1>22, UnchangedQuiet DEF CommandReturns, Quiet
<1>23. ASSUME NEW r \in voteReplies, VoteReplyStepDown(r) PROVE ElectionInvariant'
  <2>1. r.to \in Node /\ r.term \in Nat /\ currentTerm[r.to] \in Nat
    BY <1>t DEF TypeOK, VoteReply
  <2>2. /\ BecomeFollower(r.to, r.term)
        /\ r.term >= currentTerm[r.to]
    BY <1>23, <2>1 DEF VoteReplyStepDown
  <2> QED  BY <1>t, <1>q, <1>23, <2>1, <2>2, BecomeFollowerQuiet
           DEF VoteReplyStepDown, Quiet
<1>24. ASSUME NEW r \in appendReplies, AppendReplyStepDown(r) PROVE ElectionInvariant'
  <2>1. r.to \in Node /\ r.term \in Nat /\ currentTerm[r.to] \in Nat
    BY <1>t DEF TypeOK, AppendReply
  <2>2. /\ BecomeFollower(r.to, r.term)
        /\ r.term >= currentTerm[r.to]
    BY <1>24, <2>1 DEF AppendReplyStepDown
  <2> QED  BY <1>t, <1>q, <1>24, <2>1, <2>2, BecomeFollowerQuiet
           DEF AppendReplyStepDown, Quiet
<1>25. ASSUME NEW m \in appendRequests, RejectAppend(m) PROVE ElectionInvariant'
  <2>1. m.to \in Node /\ m.term \in Nat /\ currentTerm[m.to] \in Nat
    BY <1>t DEF TypeOK, AppendRequest
  <2>2. /\ BecomeFollower(m.to, m.term)
        /\ m.term >= currentTerm[m.to]
    BY <1>25, <2>1 DEF RejectAppend, FollowLeader
  <2> QED  BY <1>t, <1>q, <1>25, <2>1, <2>2, BecomeFollowerQuiet
           DEF RejectAppend, FollowLeader, Quiet
<1>26. ASSUME NEW m \in appendRequests, AcceptAppend(m) PROVE ElectionInvariant'
  <2>1. m.to \in Node /\ m.term \in Nat /\ currentTerm[m.to] \in Nat
    BY <1>t DEF TypeOK, AppendRequest
  <2>2. /\ BecomeFollower(m.to, m.term)
        /\ m.term >= currentTerm[m.to]
    BY <1>26, <2>1 DEF AcceptAppend, FollowLeader
  <2> QED  BY <1>t, <1>q, <1>26, <2>1, <2>2, BecomeFollowerQuiet
           DEF AcceptAppend, FollowLeader, Quiet
<1>27. ASSUME NEW n \in Node, Stop(n) PROVE ElectionInvariant'
  BY <1>t, <1>q, <1>27, UnchangedQuiet DEF Stop, Quiet
<1>28. ASSUME NEW n \in Node, Revive(n) PROVE ElectionInvariant'
  <2>1. \A j \in Node : currentTerm[j] \in Nat
    BY <1>t DEF TypeOK
  <2>2. \A j \in Node : role'[j] = Candidate => role[j] = Candidate
    BY <1>t, <1>28 DEF TypeOK, Revive, Reborn, Follower, Candidate
  <2>3. /\ UNCHANGED <<members, memberships>>
        /\ \A j \in Node : running'[j] => running[j] \/ j \in members'
    BY <1>t, <1>28 DEF TypeOK, Revive, Reborn
  <2> QED  BY <1>q, <1>28, <2>1, <2>2, <2>3 DEF Revive, Quiet
<1>29. ASSUME NEW n \in Node, Restart(n) PROVE ElectionInvariant'
  <2>1. \A j \in Node : currentTerm[j] \in Nat
    BY <1>t DEF TypeOK
  <2>2. \A j \in Node : role'[j] = Candidate => role[j] = Candidate
    BY <1>t, <1>29 DEF TypeOK, Restart, Reborn, Follower, Candidate
  <2>3. /\ UNCHANGED <<members, memberships>>
        /\ \A j \in Node : running'[j] => running[j] \/ j \in members'
    BY <1>t, <1>29 DEF TypeOK, Restart, Reborn
  <2> QED  BY <1>q, <1>29, <2>1, <2>2, <2>3 DEF Restart, Quiet
<1>30. ASSUME NEW n \in Node, AddNode(n) PROVE ElectionInvariant'
  BY <1>t, <1>q, <1>30, UnchangedQuiet DEF AddNode, TypeOK, Quiet
<1>31. CASE UNCHANGED vars
  BY <1>t, <1>q, <1>31, UnchangedQuiet DEF vars, Quiet
<1> QED
  BY <1>1, <1>2, <1>3, <1>4, <1>5, <1>6, <1>7, <1>8, <1>9, <1>10,
         <1>11, <1>12, <1>13, <1>14, <1>15, <1>16, <1>17, <1>18, <1>19,
         <1>20, <1>21, <1>22, <1>23, <1>24, <1>25, <1>26, <1>27,
         <1>28, <1>29, <1>30, <1>31
  DEF Next, NodeStep, VoteRequestStep, VoteReplyStep, AppendRequestStep,
      AppendReplyStep, CommandStep

\* Every reachable state accounts for every vote: none is lost by a restart,
\* given twice, or counted twice.
THEOREM ElectionInvariantAlways == Spec => []ElectionInvariant
BY ElectionInit, ElectionStep, WellFormedAlways, PTL DEF Spec

\* A node votes for at most one candidate of a term over all its lives.
THEOREM OneVotePerTermAlways == Spec => []OneVotePerTerm
<1>1. ElectionInvariant => OneVotePerTerm
  BY DEF ElectionInvariant
<1> QED  BY <1>1, ElectionInvariantAlways, PTL

-----------------------------------------------------------------------------
\* add_node replaces the cluster at once, without a joint configuration.  One
\* node at a time is safe: quorums of a set and of the set with one node more
\* still meet.  The bound on add_node calls is what makes it one.
OneAddition ==
    \/ memberships = {members}
    \/ \E n \in Node : n \in members /\ memberships = {members, members \ {n}}

LEMMA OneAdditionInit == Init => OneAddition
BY DEF Init, OneAddition

LEMMA StepsOnMembers ==
  ASSUME [Next]_vars
  PROVE  (\E n \in Node : AddNode(n)) \/ UNCHANGED <<members, memberships>>
<1> USE DEF nodeVars, roleVars, clusterVars
<1>1. CASE UNCHANGED vars
  BY <1>1 DEF vars
<1>2. CASE Next
  <2>1. ASSUME NEW n \in Node, NodeStep(n)
        PROVE  AddNode(n) \/ UNCHANGED <<members, memberships>>
    BY <2>1 DEF NodeStep, StartElection, StartElectionAlone, Heartbeat,
                ExecuteCommand, ExecuteCommandAlone, Stop, Revive, Restart,
                Reborn
  <2>2. ASSUME NEW m \in voteRequests, VoteRequestStep(m)
        PROVE  UNCHANGED <<members, memberships>>
    BY <2>2 DEF VoteRequestStep, HandleRequestVote, LoseVoteRequest,
                VoteCallTimesOut
  <2>3. ASSUME NEW r \in voteReplies, VoteReplyStep(r)
        PROVE  UNCHANGED <<members, memberships>>
    BY <2>3 DEF VoteReplyStep, VoteReplyIgnored, VoteReplyStepDown,
                VoteReplyCounted, LoseVoteReply
  <2>4. ASSUME NEW m \in appendRequests, AppendRequestStep(m)
        PROVE  UNCHANGED <<members, memberships>>
    BY <2>4 DEF AppendRequestStep, RejectStaleAppend, RejectAppend,
                AcceptAppend, FollowLeader, LoseAppendRequest,
                AppendCallTimesOut
  <2>5. ASSUME NEW r \in appendReplies, AppendReplyStep(r)
        PROVE  UNCHANGED <<members, memberships>>
    BY <2>5 DEF AppendReplyStep, AppendReplyIgnored, AppendReplyStepDown,
                AppendReplySuccess, AppendReplyFailure, LoseAppendReply
  <2>6. ASSUME NEW c \in commands, CommandStep(c)
        PROVE  UNCHANGED <<members, memberships>>
    BY <2>6 DEF CommandStep, CommandRetry, CommandCommitted, CommandPending,
                CommandReturns
  <2> QED  BY <1>2, <2>1, <2>2, <2>3, <2>4, <2>5, <2>6 DEF Next
<1> QED  BY <1>1, <1>2

\* Only the first addition is made.
LEMMA AdditionIsFirst ==
  ASSUME MaxAdds <= 1, OneAddition, NEW n \in Node, AddNode(n)
  PROVE  memberships = {members}
<1> SUFFICES ASSUME NEW k \in Node, k \in members,
                    memberships = {members, members \ {k}}
             PROVE  FALSE
  BY DEF OneAddition
<1>1. /\ IsFiniteSet({members}) /\ Cardinality({members}) = 1
      /\ members \ {k} \notin {members}
  BY FS_Singleton
<1>2. Cardinality({members} \cup {members \ {k}}) = Cardinality({members}) + 1
  BY <1>1, FS_AddElement
<1>3. memberships = {members} \cup {members \ {k}}
  OBVIOUS
<1>4. Cardinality(memberships) = 1 + 1
  BY <1>1, <1>2, <1>3, Zenon
<1>5. Cardinality(memberships) <= MaxAdds /\ MaxAdds \in Nat
  BY BoundAssumption DEF AddNode
<1> QED  BY <1>4, <1>5

LEMMA OneAdditionStep ==
  ASSUME MaxAdds <= 1, OneAddition, [Next]_vars
  PROVE  OneAddition'
<1>1. ASSUME NEW n \in Node, AddNode(n) PROVE OneAddition'
  <2>1. memberships = {members}
    BY <1>1, AdditionIsFirst
  <2>2. (members \cup {n}) \ {n} = members
    BY <1>1 DEF AddNode
  <2> QED  BY <1>1, <2>1, <2>2 DEF AddNode, OneAddition
<1>2. UNCHANGED <<members, memberships>> => OneAddition'
  BY DEF OneAddition
<1> QED  BY <1>1, <1>2, StepsOnMembers

LEMMA OneAdditionAlways ==
  ASSUME MaxAdds <= 1 PROVE Spec => []OneAddition
<1>1. OneAddition /\ [Next]_vars => OneAddition'
  BY OneAdditionStep
<1> QED  BY <1>1, OneAdditionInit, PTL DEF Spec

\* Quorums of clusters that differ by one node share a voter.
LEMMA NeighbouringQuorumsIntersect ==
  ASSUME NEW C, IsFiniteSet(C), NEW x, x \notin C,
         NEW P \in SUBSET C, Cardinality(P) >= QuorumSize(C),
         NEW Q \in SUBSET (C \cup {x}),
         Cardinality(Q) >= QuorumSize(C \cup {x})
  PROVE  P \cap Q # {}
<1>1. IsFiniteSet(C \cup {x}) /\ Cardinality(C \cup {x}) = Cardinality(C) + 1
  BY FS_AddElement
<1>2. IsFiniteSet(P) /\ IsFiniteSet(Q)
  BY <1>1, FS_Subset
<1>3. /\ Cardinality(C) \in Nat /\ Cardinality(P) \in Nat
      /\ Cardinality(Q) \in Nat
  BY <1>2, FS_CardinalityType
<1>4. SUFFICES ASSUME P \cap Q = {} PROVE FALSE
  OBVIOUS
<1>5. Cardinality(P \cup Q) = Cardinality(P) + Cardinality(Q)
  <2>1. Cardinality(P \cap Q) = 0
    BY <1>4, FS_EmptySet
  <2>2. Cardinality(P \cup Q) =
          Cardinality(P) + Cardinality(Q) - Cardinality(P \cap Q)
    BY <1>2, FS_Union
  <2> QED  BY <1>3, <2>1, <2>2
<1>6. Cardinality(P \cup Q) <= Cardinality(C) + 1
  BY <1>1, FS_Subset
<1>7. PICK c \in Nat : c = Cardinality(C)
  BY <1>3
<1>8. /\ Cardinality(P) >= (c \div 2) + 1
      /\ Cardinality(Q) >= ((c + 1) \div 2) + 1
  BY <1>1, <1>7 DEF QuorumSize
<1>9. (c \div 2) + ((c + 1) \div 2) >= c
  BY <1>7
<1> QED  BY <1>3, <1>5, <1>6, <1>7, <1>8, <1>9

\* Quorums of any two memberships share a voter.
LEMMA MembershipQuorumsIntersect ==
  ASSUME TypeOK, OneAddition, NEW C \in memberships, NEW D \in memberships,
         NEW P \in SUBSET C, Cardinality(P) >= QuorumSize(C),
         NEW Q \in SUBSET D, Cardinality(Q) >= QuorumSize(D)
  PROVE  P \cap Q # {}
<1>1. IsFiniteSet(C) /\ IsFiniteSet(D)
  BY NodeAssumption, FS_Subset DEF TypeOK
<1>2. CASE C = D
  BY <1>1, <1>2, QuorumsIntersect
<1>3. CASE C # D
  <2>1. PICK n \in members : memberships = {members, members \ {n}}
    BY <1>3 DEF OneAddition
  <2>2. members = (members \ {n}) \cup {n}
    BY <2>1
  <2>3. CASE C = members \ {n} /\ D = members
    BY <1>1, <2>2, <2>3, NeighbouringQuorumsIntersect
  <2>4. CASE D = members \ {n} /\ C = members
    <3>1. Q \cap P # {}
      BY <1>1, <2>2, <2>4, NeighbouringQuorumsIntersect
    <3> QED  BY <3>1
  <2> QED  BY <1>3, <2>1, <2>3, <2>4
<1> QED  BY <1>2, <1>3

LEMMA InvariantGivesSafety ==
  ASSUME TypeOK, ElectionInvariant, OneAddition PROVE ElectionSafety
<1> SUFFICES ASSUME NEW a \in elected, NEW b \in elected, a[1] = b[1]
             PROVE  a[2] = b[2]
  BY DEF ElectionSafety
<1>1. PICK C \in memberships, P \in SUBSET Node : QuorumVoted(votesCast, C, P, a[1], a[2])
  BY DEF ElectionInvariant, ElectedByQuorum
<1>2. PICK D \in memberships, Q \in SUBSET Node : QuorumVoted(votesCast, D, Q, b[1], b[2])
  BY DEF ElectionInvariant, ElectedByQuorum
<1>3. PICK v \in P \cap Q : TRUE
  BY <1>1, <1>2, MembershipQuorumsIntersect DEF QuorumVoted
<1>4. <<v, a[1], a[2]>> \in votesCast /\ <<v, a[1], b[2]>> \in votesCast
  BY <1>1, <1>2, <1>3 DEF QuorumVoted
<1> QED  BY <1>4 DEF ElectionInvariant, OneVotePerTerm

\* At most one node ever leads a term, however many nodes there are, whatever
\* calls are lost, late or repeated and whenever nodes stop and come back,
\* when no more than one node is added to the cluster.
THEOREM ElectionSafetyAlways ==
  ASSUME MaxAdds <= 1 PROVE Spec => []ElectionSafety
<1>1. TypeOK /\ ElectionInvariant /\ OneAddition => ElectionSafety
  BY InvariantGivesSafety
<1> QED
  BY <1>1, TypeCorrect, ElectionInvariantAlways, OneAdditionAlways, PTL
=============================================================================
