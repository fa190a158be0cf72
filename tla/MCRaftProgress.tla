--------------------------- MODULE MCRaftProgress ---------------------------
(***************************************************************************)
(* RaftProgress on a small instance.                                       *)
(***************************************************************************)
EXTENDS RaftProgress, MCRaftNode

\* Everything that a guard, a fairness condition or a property reads.
LiveProgressState ==
    <<clusterVars, role, termVars, log, commitVars, commands, voteCalls,
      appendCalls, healed,
      [n \in Node |-> CASE role[n] = Leader -> <<nextIndex[n], matchIndex[n]>>
                        [] role[n] = Candidate -> <<votesGranted[n], electorate[n]>>
                        [] OTHER -> << >>]>>
=============================================================================
