---------------------------- MODULE DurableState ----------------------------
(***************************************************************************)
(* What a node promises about the state it keeps over a crash: a term that *)
(* never goes back, one vote per term, and a log that changes only at its  *)
(* end.  Each step is what one WAL record makes durable; a crash is no     *)
(* step at all.                                                            *)
(***************************************************************************)
EXTENDS RaftLog

CONSTANTS Node, None

VARIABLES currentTerm, votedFor, log

vars == <<currentTerm, votedFor, log>>

Init == currentTerm = 0 /\ votedFor = None /\ log = NoEntries

\* A later term, with or without a vote in it; or the vote of this term.
AdvanceTerm ==
    /\ currentTerm' \in Nat /\ currentTerm' > currentTerm
    /\ votedFor' \in Node \cup {None}
    /\ UNCHANGED log

CastVote ==
    /\ votedFor = None /\ votedFor' \in Node
    /\ UNCHANGED <<currentTerm, log>>

AppendEntry ==
    /\ \E t \in 0 .. currentTerm :
         log' = Append(log, LogEntry(Len(log) + 1, t))
    /\ UNCHANGED <<currentTerm, votedFor>>

TruncateLog ==
    /\ \E k \in 0 .. Len(log) : log' = SubSeq(log, 1, k)
    /\ UNCHANGED <<currentTerm, votedFor>>

Next == AdvanceTerm \/ CastVote \/ AppendEntry \/ TruncateLog

Spec == Init /\ [][Next]_vars
=============================================================================
