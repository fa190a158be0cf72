----------------------------- MODULE MCRaftNode -----------------------------
(***************************************************************************)
(* RaftNode on a small instance.                                           *)
(***************************************************************************)
EXTENDS RaftNode, TLC

\* Nodes that the bounds treat alike are interchangeable.
NodeSymmetry == {f \in Permutations(Node) :
                   /\ {{f[n] : n \in C} : C \in Initial} = Initial
                   /\ {f[n] : n \in Contenders} = Contenders
                   /\ {f[n] : n \in Killable} = Killable}

\* What the rest of a behaviour can depend on: next_index and match_index
\* are read only while the node leads, a tally only while it is a candidate.
LiveState ==
    <<roleVars, termVars, logVars, commitVars, clientVars, voteCalls,
      appendCalls, historyVars,
      [n \in Node |-> IF role[n] = Leader
                      THEN <<nextIndex[n], matchIndex[n]>> ELSE <<>>],
      [n \in Node |-> IF role[n] = Candidate
                      THEN <<votesGranted[n], electorate[n], voters[n]>>
                      ELSE <<>>]>>

\* The same without the history of votes, elections and answers, for runs
\* whose properties do not read it, or only those of a node that is alone.
LiveLogState ==
    <<roleVars, termVars, logVars, commitVars, commands, voteCalls,
      appendCalls, IF Cardinality(members) = 1 THEN acked ELSE {},
      [n \in Node |-> IF role[n] = Leader
                      THEN <<nextIndex[n], matchIndex[n]>> ELSE <<>>],
      [n \in Node |-> IF role[n] = Candidate
                      THEN <<votesGranted[n], electorate[n], voters[n]>>
                      ELSE <<>>]>>

\* More calls than one broadcast makes are awaited where some of them are an
\* election's and some are not.
Overlap ==
    Cardinality(Awaited) > 2 =>
        /\ voteRequests \cup voteReplies # {}
        /\ {m \in appendRequests : m.awaited} \cup appendReplies # {}

OverlapSpec == Init /\ [][Next /\ Overlap']_vars
=============================================================================
