------------------------------ MODULE RaftLog ------------------------------
(***************************************************************************)
(* The pure algorithms of a node's replicated log: the summary of a log    *)
(* that the RPCs carry (raft/state.py) and the two decisions the RPC       *)
(* handlers take from it (raft/node.py).  A log is a sequence of entries;  *)
(* an entry keeps its index and its term.  Its command is left out: one    *)
(* leader exists per term and it writes each index once, so the pair       *)
(* <<index, term>> names the command.                                      *)
(***************************************************************************)
EXTENDS Integers, Sequences, FiniteSets

NoEntries == << >>

Entry == [index : Nat, term : Nat]

\* LogEntry(index, term, command)
LogEntry(i, t) == [index |-> i, term |-> t]

\* Every entry carries the index of its place.
Positioned(log) == \A i \in DOMAIN log : log[i].index = i

\* The index stored in the last entry, which the code uses for the length.
LastLogIndex(log) == IF log = << >> THEN 0 ELSE log[Len(log)].index

LastLogTerm(log) == IF log = << >> THEN 0 ELSE log[Len(log)].term

\* Mutant: a voter that does not compare logs.
AnyLogIsUpToDate(candTerm, candIndex, log) == TRUE

\* The restriction of Section 5.4.1 a voter puts on a candidate's log.
IsLogUpToDate(candTerm, candIndex, log) ==
    \/ candTerm > LastLogTerm(log)
    \/ candTerm = LastLogTerm(log) /\ candIndex >= LastLogIndex(log)

\* The term of the entry before the first one sent; 0 where there is none,
\* also when prev points beyond the end of the sender's own log.
PrevTerm(log, prev) == IF prev \in DOMAIN log THEN log[prev].term ELSE 0

EntriesAfter(log, prev) ==
    IF prev < Len(log) THEN SubSeq(log, prev + 1, Len(log)) ELSE NoEntries

\* Mutant: without the term comparison.
MatchesPrevByLength(log, prev, prevTerm) == prev > 0 => prev <= Len(log)

\* The consistency check of AppendEntries.
MatchesPrev(log, prev, prevTerm) ==
    prev > 0 => prev <= Len(log) /\ log[prev].term = prevTerm

\* The positions of es that the append loop does not skip: the entry lies
\* beyond the log or conflicts with the one the log holds at its index.
Divergent(log, es) ==
    {k \in DOMAIN es : \/ es[k].index > Len(log)
                       \/ log[es[k].index].term # es[k].term}

\* What the append loop leaves in the log: nothing changes while entries
\* agree; from the first one that does not, the log is cut there and takes
\* the rest of es.
AppendLoop(log, es) ==
    IF Divergent(log, es) = {}
    THEN log
    ELSE LET first == CHOOSE k \in Divergent(log, es) :
                         \A j \in Divergent(log, es) : k <= j
         IN  SubSeq(log, 1, es[first].index - 1) \o SubSeq(es, first, Len(es))

\* (total_nodes // 2) + 1
QuorumSize(S) == (Cardinality(S) \div 2) + 1
=============================================================================
