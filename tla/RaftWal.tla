------------------------------ MODULE RaftWal ------------------------------
(***************************************************************************)
(* One node and its write-ahead log (raft/wal.py): the handlers of         *)
(* raft/node.py that change term, vote or log, at the grain of the WAL     *)
(* records they write.  A write may fail, the process may die between two  *)
(* records or in the middle of one, and recovery reads the file back.      *)
(*                                                                         *)
(* The handlers run one after the other and write each record right after  *)
(* the change of memory it stands for; a crash loses memory, so change and *)
(* record are one step.  The append loop of handle_append_entries takes a  *)
(* step per record.                                                        *)
(*                                                                         *)
(* recover() replays the file line by line, so the lines that are complete *)
(* are kept as the state they replay to.                                   *)
(***************************************************************************)
EXTENDS RaftLog

CONSTANTS
    Self,           \* this node's id
    Other,          \* the other candidates it may vote for
    None,
    MaxTerm,        \* bound: terms
    MaxLogLength,   \* bound: indices
    MaxTorn,        \* bound: crashes in the middle of a write
    MaxFailed       \* bound: writes that raise

ASSUME WalAssumption ==
    /\ None \notin Other /\ Self \notin Other \cup {None}
    /\ MaxTerm \in Nat /\ MaxLogLength \in Nat
    /\ MaxTorn \in Nat /\ MaxFailed \in Nat

VARIABLES
    up,             \* the process runs
    role,
    currentTerm, votedFor, log,     \* RaftState, in memory
    campaign,       \* the term of the latest election it asked votes for
    todo,           \* what the append loop being run has left
    file,           \* the file: what its complete lines replay to, and its tail
    buffer,         \* the records of failed writes, in the file object's buffer
    request,        \* history: that loop's entries, and the log it met
    torn, failed,   \* history: crashes in the middle of a write, failed writes
    welded          \* history: a record was written behind a torn one

termVars == <<currentTerm, votedFor>>
diskVars == <<file, buffer, torn, failed, welded>>
vars == <<up, role, termVars, log, campaign, todo, request, diskVars>>

NodeEntry == [index : 1 .. MaxLogLength, term : 1 .. MaxTerm]

-----------------------------------------------------------------------------
\* Records and lines

Metadata(term, vote) == [type |-> "METADATA", term |-> term, vote |-> vote]
EntryRecord(e) == [type |-> "ENTRY", entry |-> e]
Truncate(i) == [type |-> "TRUNCATE", from |-> i]

\* A line json.loads rejects, and an empty piece after the last newline.
Corrupt == [type |-> "CORRUPT"]
Empty == [type |-> "EMPTY"]

\* What a line makes of the log recovered so far.
ReplayedLog(l, line) ==
    IF line.type = "ENTRY"
    THEN IF line.entry.index <= Len(l)
         THEN [l EXCEPT ![line.entry.index] = line.entry]
         ELSE Append(l, line.entry)
    ELSE IF line.type = "TRUNCATE" /\ line.from <= Len(l)
         THEN SubSeq(l, 1, line.from - 1)
         ELSE l

\* And of all that was recovered.
Replay(s, line) ==
    IF line.type = "METADATA"
    THEN [s EXCEPT !.term = line.term, !.vote = line.vote]
    ELSE [s EXCEPT !.log = ReplayedLog(@, line)]

NoState == [term |-> 0, vote |-> None, log |-> NoEntries]

\* recover() reads the piece after the last newline like a line.
Recovered == Replay(file.done, file.tail)

\* A record and its newline behind f: they end the line that f's tail began.
EndLine(f, record) ==
    [done |-> IF f.tail = Empty THEN Replay(f.done, record) ELSE f.done,
     tail |-> Empty]

\* What the beginning of a record leaves behind f: some of it, or all of it
\* but the newline.
Pieces(f, record) ==
    {[f EXCEPT !.tail = t] :
        t \in {IF f.tail = Empty THEN record ELSE Corrupt, Corrupt}}

\* The file once the first k records in the buffer have reached it.
Reached(k) == IF k = 0 THEN file ELSE buffer[k].file

\* A flush writes what earlier ones have left in the buffer first.
Flushed == Reached(Len(buffer))

\* A record behind them, and what the file will be when it has followed them.
Pending(record) == [record |-> record, file |-> EndLine(Flushed, record)]

\* _write_record returns: flush and fsync went through.
WriteWhole(record) ==
    /\ file' = EndLine(Flushed, record)
    /\ buffer' = << >>
    /\ welded' = (welded \/ file.tail # Empty)
    /\ UNCHANGED <<up, torn, failed>>

\* Mutant: the file object drops a record whose flush failed.
WriteFailsDropping(record) ==
    /\ failed < MaxFailed
    /\ failed' = failed + 1
    /\ UNCHANGED <<up, torn, file, buffer, welded>>

\* It raises OSError: the flush failed and the record stays in the buffer, or
\* fsync did.
WriteFails(record) ==
    /\ failed < MaxFailed
    /\ failed' = failed + 1
    /\ \/ buffer' = Append(buffer, Pending(record)) /\ UNCHANGED <<file, welded>>
       \/ /\ file' = EndLine(Flushed, record)
          /\ buffer' = << >>
          /\ welded' = (welded \/ file.tail # Empty)
    /\ UNCHANGED <<up, torn>>

\* The process dies in it.
DieWriting(record) ==
    /\ torn < MaxTorn
    /\ torn' = torn + 1
    /\ file' \in Pieces(Flushed, record)
    /\ buffer' = << >>
    /\ welded' = (welded \/ (file.tail # Empty /\ buffer # << >>))
    /\ up' = FALSE
    /\ UNCHANGED failed

Write(record) == WriteWhole(record) \/ WriteFails(record) \/ DieWriting(record)

\* The write raised, and its caller with it.
Raised == failed' # failed

-----------------------------------------------------------------------------
Init ==
    /\ up = TRUE /\ role = "FOLLOWER"
    /\ currentTerm = 0 /\ votedFor = None /\ log = NoEntries
    /\ campaign = 0
    /\ todo = NoEntries
    /\ request = [entries |-> NoEntries, before |-> NoEntries]
    /\ file = [done |-> NoState, tail |-> Empty] /\ buffer = << >>
    /\ torn = 0 /\ failed = 0 /\ welded = FALSE

Idle == up /\ todo = NoEntries

SetTermVote(term, vote) ==
    /\ currentTerm' = term /\ votedFor' = vote
    /\ Write(Metadata(term, vote))
    /\ UNCHANGED <<log, todo, request>>

\* become_follower with a higher term, in whatever handler learns of it: if
\* the write raises, the role is not reached any more.
BecomeFollower ==
    /\ Idle
    /\ \E t \in (currentTerm + 1) .. MaxTerm : SetTermVote(t, None)
    /\ role' = IF Raised THEN role ELSE "FOLLOWER"
    /\ UNCHANGED campaign

\* become_candidate; start_election asks for votes if it returns.
BecomeCandidate ==
    /\ Idle
    /\ role # "LEADER"
    /\ currentTerm < MaxTerm
    /\ SetTermVote(currentTerm + 1, Self)
    /\ role' = IF Raised THEN role ELSE "CANDIDATE"
    /\ campaign' = IF Raised THEN campaign ELSE currentTerm + 1

BecomeLeader ==
    /\ Idle
    /\ role = "CANDIDATE" /\ campaign = currentTerm
    /\ role' = "LEADER"
    /\ UNCHANGED <<up, termVars, log, campaign, todo, request, diskVars>>

\* handle_request_vote grants its vote, again if it did before.
GrantVote ==
    /\ Idle
    /\ currentTerm > 0
    /\ \E c \in Other : votedFor \in {None, c} /\ SetTermVote(currentTerm, c)
    /\ UNCHANGED <<role, campaign>>

AppendToLog(e) ==
    /\ log' = Append(log, e)
    /\ Write(EntryRecord(e))
    /\ UNCHANGED <<role, termVars, campaign, request>>

ExecuteCommand ==
    /\ Idle
    /\ role = "LEADER"
    /\ LastLogIndex(log) < MaxLogLength
    /\ AppendToLog(LogEntry(LastLogIndex(log) + 1, currentTerm))
    /\ UNCHANGED todo

Holds(e) == e.index <= Len(log) /\ log[e.index].term = e.term

\* The entries another leader of this term may send after prev, where this
\* log matches its own: terms that never fall, and logs that agree up to the
\* last entry they share.
Requests(prev) ==
    {es \in UNION {[1 .. k -> NodeEntry] : k \in 1 .. MaxLogLength - prev} :
        \A k \in DOMAIN es :
            /\ es[k].index = prev + k
            /\ es[k].term <= currentTerm
            /\ es[k].term >= IF k = 1 THEN PrevTerm(log, prev)
                                      ELSE es[k - 1].term
            /\ k > 1 /\ Holds(es[k]) => Holds(es[k - 1])}

\* handle_append_entries up to its append loop.  Another node leads this term,
\* so this one was not elected in it.
BeginAppend ==
    /\ Idle
    /\ currentTerm > 0
    /\ role = "LEADER" => campaign # currentTerm
    /\ role' = "FOLLOWER"
    /\ \E prev \in 0 .. Len(log) : todo' \in Requests(prev)
    /\ request' = [entries |-> todo', before |-> log]
    /\ UNCHANGED <<up, termVars, log, campaign, diskVars>>

Looping == up /\ todo # NoEntries

\* A write that raises ends the handler.
GoOn(left) == todo' = IF Raised THEN NoEntries ELSE left

\* Mutant: skips an entry whose index the log has, whatever its term.
SkipPresent ==
    /\ Looping
    /\ Head(todo).index <= Len(log)
    /\ todo' = Tail(todo)
    /\ UNCHANGED <<up, role, termVars, log, campaign, request, diskVars>>

\* One pass of the loop: over an entry the log already has,
SkipEntry ==
    /\ Looping
    /\ Holds(Head(todo))
    /\ todo' = Tail(todo)
    /\ UNCHANGED <<up, role, termVars, log, campaign, request, diskVars>>

\* Mutant: the cut is not recorded.
CutLogUnrecorded ==
    LET e == Head(todo)
    IN  /\ Looping
        /\ e.index <= Len(log) /\ ~Holds(e)
        /\ log' = SubSeq(log, 1, e.index - 1)
        /\ UNCHANGED <<up, role, termVars, campaign, todo, request, diskVars>>

\* the first half of it at a conflict, which the cut puts beyond the log,
CutLog ==
    LET e == Head(todo)
    IN  /\ Looping
        /\ e.index <= Len(log) /\ ~Holds(e)
        /\ log' = SubSeq(log, 1, e.index - 1)
        /\ Write(Truncate(e.index))
        /\ GoOn(todo)
        /\ UNCHANGED <<role, termVars, campaign, request>>

\* and an entry beyond the log.
ExtendLog ==
    /\ Looping
    /\ Head(todo).index > Len(log)
    /\ AppendToLog(Head(todo))
    /\ GoOn(Tail(todo))

-----------------------------------------------------------------------------
\* The process dies between two writes; of the records left in the buffer,
\* some have reached the file, and perhaps a piece of the next.
Crash ==
    /\ up
    /\ up' = FALSE
    /\ buffer' = << >>
    /\ \E k \in 0 .. Len(buffer) :
          /\ \/ file' = Reached(k) /\ UNCHANGED torn
             \/ /\ k < Len(buffer) /\ torn < MaxTorn
                /\ torn' = torn + 1
                /\ file' \in Pieces(Reached(k), buffer[k + 1].record)
          /\ welded' = (welded \/ (k > 0 /\ file.tail # Empty))
    /\ UNCHANGED <<role, termVars, log, campaign, todo, request, failed>>

\* A new process: a RaftNode whose wal_dir holds the file.
Restart ==
    /\ ~up
    /\ up' = TRUE
    /\ role' = "FOLLOWER"
    /\ currentTerm' = Recovered.term
    /\ votedFor' = Recovered.vote
    /\ log' = Recovered.log
    /\ campaign' = 0
    /\ todo' = NoEntries
    /\ UNCHANGED <<request, diskVars>>

Next ==
    \/ BecomeFollower \/ BecomeCandidate \/ BecomeLeader
    \/ GrantVote \/ ExecuteCommand
    \/ BeginAppend \/ SkipEntry \/ CutLog \/ ExtendLog
    \/ Crash \/ Restart

Spec == Init /\ [][Next]_vars

-----------------------------------------------------------------------------
Memory == [term |-> currentTerm, vote |-> votedFor, log |-> log]

\* "guarantee durability of currentTerm, votedFor, and log entries before
\* responding to RPCs": whatever a node has when it answers, it would recover.
MemoryIsDurable == Idle => Recovered = Memory

\* The same, as long as no write failed after the last one that returned, and
\* no record was written behind a torn one: a crash costs nothing but the
\* record being written, and failed writes are made good by the next one that
\* returns.
DurableUnlessPending ==
    Idle /\ buffer = << >> /\ ~welded => Recovered = Memory

\* The record-by-record loop of handle_append_entries leaves the log that
\* AppendLoop says, on which RaftNode relies, unless a write ends it.
LoopIsAppendLoop ==
    [][Looping /\ up' /\ todo' = NoEntries /\ ~Raised =>
          log' = AppendLoop(request.before, request.entries)]_vars

\* DurableState, of what recovery would return.
Durable == INSTANCE DurableState WITH
               Node <- Other \cup {Self}, currentTerm <- Recovered.term,
               votedFor <- Recovered.vote, log <- Recovered.log

\* What a crash would leave behind changes only as DurableState allows, where
\* no write is pending and no torn line ends the file: the term never goes
\* back, a vote is never changed within its term, and the log is only cut or
\* extended at its end.
RecoverableIsDurable ==
    /\ Durable!Init
    /\ [][buffer = << >> /\ file.tail = Empty /\ ~welded
             => Durable!Next]_(Durable!vars)
=============================================================================
