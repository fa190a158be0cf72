----------------------------- MODULE MCRaftWal -----------------------------
(***************************************************************************)
(* RaftWal on a small instance.                                            *)
(***************************************************************************)
EXTENDS RaftWal, TLC

\* The other candidates are interchangeable.
OtherSymmetry == Permutations(Other)

\* What the rest of a behaviour can depend on: a process that is down has no
\* memory, and a request is read only while its loop runs.
LiveState ==
    <<up, diskVars,
      IF up THEN <<role, termVars, log, campaign, todo>> ELSE << >>,
      IF Looping THEN <<request>> ELSE << >>>>
=============================================================================
