----------------------------- MODULE MCRaftRead -----------------------------
(***************************************************************************)
(* RaftRead on a small instance.                                           *)
(***************************************************************************)
EXTENDS RaftRead, MCRaftNode

\* What the rest of a behaviour up to the first outcome can depend on: the
\* histories are read when the read begins, the other parts as in LiveState.
LiveReadState ==
    <<clusterVars, role, termVars, log, commitVars, commands,
      voteCalls, appendCalls, readVars,
      IF reads = {} THEN <<accepted, acked>> ELSE << >>,
      [n \in Node |-> CASE role[n] = Leader -> <<nextIndex[n], matchIndex[n]>>
                        [] role[n] = Candidate -> <<votesGranted[n], electorate[n]>>
                        [] OTHER -> << >>]>>

ReaderSymmetry == {f \in NodeSymmetry : {f[n] : n \in Readers} = Readers}

\* More calls than one broadcast makes are awaited where some are pings and
\* some are an election's.
PingsOverlapElection ==
    Cardinality(Awaited) > 2 =>
        /\ \E c \in appendRequests \cup appendReplies : c.task = PingTask
        /\ voteRequests \cup voteReplies # {}

\* Behaviours up to the first outcome, with reads that begin once there was a
\* candidate of the second term: the leader of the first misses nothing before.
FirstReadNext ==
    /\ outcomes = {}
    /\ ReadNext
    /\ reads = {} => reads' = {} \/ \E n \in Node : currentTerm[n] > 1
    /\ PingsOverlapElection'

FirstReadSpec == ReadInit /\ [][FirstReadNext]_allVars
=============================================================================
