--------------------------- MODULE RaftWalProofs ---------------------------
(***************************************************************************)
(* What recovery returns is what the node has in memory, for every number  *)
(* of terms, indices, torn and failed writes: as long as no record was     *)
(* written behind a torn one, and wherever no record of a failed write is  *)
(* left in the buffer.  And the append loop that writes a record per entry *)
(* computes what RaftNode takes for one step, without these exceptions.    *)
(***************************************************************************)
EXTENDS RaftWal, RaftLogProofs

Voter == Other \cup {Self, None}

State == [term : Nat, vote : Voter, log : Seq(Entry)]

\* A state that recovery may return: the entries carry their places.
Sound(s) == s \in State /\ Positioned(s.log)

\* What is left of a request continues the log, or repeats its end, and has no
\* term beyond the current one.
TodoOK ==
    /\ todo \in Seq(Entry)
    /\ todo # << >> => Head(todo).index \in 1 .. Len(log) + 1
    /\ \A k \in DOMAIN todo : /\ todo[k].index = Head(todo).index + k - 1
                              /\ todo[k].term <= currentTerm

FileOK ==
    /\ file = [done |-> file.done, tail |-> file.tail]
    /\ Sound(file.done)
    /\ Sound(Recovered)

\* The k-th record in the buffer takes the file from one sound state to another.
ImageOK(k) ==
    /\ Reached(k) = [done |-> Reached(k).done, tail |-> Empty]
    /\ Sound(Reached(k).done)
    /\ Replay(Reached(k - 1).done, buffer[k].record) = Reached(k).done

\* Memory is what the file replays to, once the buffer has reached it.
MirrorOK ==
    /\ buffer = << >> => Recovered = Memory
    /\ file.tail = Empty => /\ \A k \in DOMAIN buffer : ImageOK(k)
                            /\ Flushed = [done |-> Memory, tail |-> Empty]

Mirrored ==
    /\ ~up => buffer = << >>
    /\ welded \in BOOLEAN
    /\ ~welded => /\ FileOK
                  /\ up => Sound(Memory) /\ TodoOK /\ MirrorOK

-----------------------------------------------------------------------------
\* What the three kinds of record, and the two kinds of line that are none,
\* make of a state.
LEMMA ReplayCases ==
  ASSUME NEW s \in State
  PROVE  /\ \A t \in Nat, v \in Voter :
              Replay(s, Metadata(t, v)) = [term |-> t, vote |-> v, log |-> s.log]
         /\ \A e \in Entry : e.index > Len(s.log) =>
              Replay(s, EntryRecord(e)) =
                [term |-> s.term, vote |-> s.vote, log |-> Append(s.log, e)]
         /\ \A i \in 1 .. Len(s.log) :
              Replay(s, Truncate(i)) =
                [term |-> s.term, vote |-> s.vote, log |-> SubSeq(s.log, 1, i - 1)]
         /\ Replay(s, Corrupt) = s
         /\ Replay(s, Empty) = s
<1>0. s = [term |-> s.term, vote |-> s.vote, log |-> s.log] /\ s.log \in Seq(Entry)
  BY DEF State
<1>1. ASSUME NEW t \in Nat, NEW v \in Voter
      PROVE  Replay(s, Metadata(t, v)) = [term |-> t, vote |-> v, log |-> s.log]
  <2>1. /\ Metadata(t, v).type = "METADATA"
        /\ Metadata(t, v).term = t /\ Metadata(t, v).vote = v
    BY DEF Metadata
  <2>2. Replay(s, Metadata(t, v)) = [s EXCEPT !.term = t, !.vote = v]
    BY <2>1, Zenon DEF Replay
  <2> QED  BY <1>0, <2>2
<1>2. ASSUME NEW l, NEW line, line.type # "METADATA", ReplayedLog(s.log, line) = l
      PROVE  Replay(s, line) = [term |-> s.term, vote |-> s.vote, log |-> l]
  <2>1. Replay(s, line) = [s EXCEPT !.log = l]
    BY <1>2, Zenon DEF Replay
  <2> QED  BY <1>0, <2>1
<1>3. ASSUME NEW e \in Entry, e.index > Len(s.log)
      PROVE  Replay(s, EntryRecord(e)) =
                [term |-> s.term, vote |-> s.vote, log |-> Append(s.log, e)]
  <2>1. EntryRecord(e).type = "ENTRY" /\ EntryRecord(e).entry = e
    BY DEF EntryRecord
  <2>2. ~(e.index <= Len(s.log))
    BY <1>0, <1>3, EntryFields
  <2>3. ReplayedLog(s.log, EntryRecord(e)) = Append(s.log, e)
    BY <2>1, <2>2, Zenon DEF ReplayedLog
  <2> QED  BY <1>2, <2>1, <2>3
<1>4. ASSUME NEW i \in 1 .. Len(s.log)
      PROVE  Replay(s, Truncate(i)) =
                [term |-> s.term, vote |-> s.vote, log |-> SubSeq(s.log, 1, i - 1)]
  <2>1. Truncate(i).type = "TRUNCATE" /\ Truncate(i).from = i
    BY DEF Truncate
  <2>2. i <= Len(s.log)
    BY <1>0
  <2>3. ReplayedLog(s.log, Truncate(i)) = SubSeq(s.log, 1, i - 1)
    BY <2>1, <2>2 DEF ReplayedLog
  <2> QED  BY <1>2, <2>1, <2>3
<1>5. Replay(s, Corrupt) = s /\ Replay(s, Empty) = s
  <2>1. /\ Corrupt.type = "CORRUPT" /\ Empty.type = "EMPTY"
    BY DEF Corrupt, Empty
  <2>2. ReplayedLog(s.log, Corrupt) = s.log /\ ReplayedLog(s.log, Empty) = s.log
    BY <2>1 DEF ReplayedLog
  <2> QED  BY <1>0, <1>2, <2>1, <2>2
<1> QED  BY <1>1, <1>3, <1>4, <1>5

-----------------------------------------------------------------------------
\* Types, which hold whatever was written behind what.
Line == {Metadata(t, v) : t \in Nat, v \in Voter}
          \cup {EntryRecord(e) : e \in Entry}
          \cup {Truncate(i) : i \in Nat} \cup {Corrupt, Empty}

File == [done : State, tail : Line]

Image == [record : Line, file : File]

WalTypeOK ==
    /\ currentTerm \in Nat /\ votedFor \in Voter
    /\ log \in Seq(Entry) /\ todo \in Seq(Entry)
    /\ file \in File /\ buffer \in Seq(Image)

WalInvariant == WalTypeOK /\ Mirrored

LEMMA ReplayType ==
  ASSUME NEW s \in State, NEW line \in Line
  PROVE  Replay(s, line) \in State
<1>1. /\ s = [term |-> s.term, vote |-> s.vote, log |-> s.log]
      /\ s.term \in Nat /\ s.vote \in Voter /\ s.log \in Seq(Entry)
  BY DEF State
<1>2. ASSUME NEW l \in Seq(Entry), line.type # "METADATA",
             ReplayedLog(s.log, line) = l
      PROVE  Replay(s, line) \in State
  <2>1. Replay(s, line) = [s EXCEPT !.log = l]
    BY <1>2, Zenon DEF Replay
  <2>2. [s EXCEPT !.log = l] = [term |-> s.term, vote |-> s.vote, log |-> l]
    BY <1>1
  <2> QED  BY <1>1, <2>1, <2>2 DEF State
<1>3. ASSUME NEW t \in Nat, NEW v \in Voter, line = Metadata(t, v)
      PROVE  Replay(s, line) \in State
  <2>1. Replay(s, line) = [term |-> t, vote |-> v, log |-> s.log]
    BY <1>3, ReplayCases
  <2> QED  BY <1>1, <2>1 DEF State
<1>4. ASSUME NEW e \in Entry, line = EntryRecord(e) PROVE Replay(s, line) \in State
  <2>1. line.type = "ENTRY" /\ line.entry = e /\ e.index \in Nat
    BY <1>4, EntryFields DEF EntryRecord
  <2>2. PICK l \in Seq(Entry), i \in Nat : l = s.log /\ i = e.index
    BY <1>1, <2>1
  <2>3. CASE i <= Len(l)
    <3>1. [l EXCEPT ![i] = e] \in Seq(Entry)
      <4>1. Len(l) \in Nat /\ l \in [1 .. Len(l) -> Entry]
        OBVIOUS
      <4>2. [l EXCEPT ![i] = e] \in [1 .. Len(l) -> Entry]
        BY <4>1
      <4> QED  BY <4>1, <4>2
    <3>2. ReplayedLog(s.log, line) = [l EXCEPT ![i] = e]
      BY <2>1, <2>2, <2>3, Zenon DEF ReplayedLog
    <3> QED  BY <1>2, <2>1, <3>1, <3>2
  <2>4. CASE ~(i <= Len(l))
    <3>1. Append(l, e) \in Seq(Entry)
      OBVIOUS
    <3>2. ReplayedLog(s.log, line) = Append(l, e)
      BY <2>1, <2>2, <2>4, Zenon DEF ReplayedLog
    <3> QED  BY <1>2, <2>1, <3>1, <3>2
  <2> QED  BY <2>3, <2>4
<1>5. ASSUME NEW i \in Nat, line = Truncate(i) PROVE Replay(s, line) \in State
  <2>1. line.type = "TRUNCATE" /\ line.from = i
    BY <1>5 DEF Truncate
  <2>2. PICK l \in Seq(Entry) : l = s.log
    BY <1>1
  <2>3. CASE i <= Len(l)
    <3>1. SubSeq(l, 1, i - 1) \in Seq(Entry)
      <4>1. \A j \in 1 .. i - 1 : l[j] \in Entry
        BY <2>3
      <4> QED  BY <4>1, SubSeqProperties
    <3>2. ReplayedLog(s.log, line) = SubSeq(l, 1, i - 1)
      BY <2>1, <2>2, <2>3 DEF ReplayedLog
    <3> QED  BY <1>2, <2>1, <3>1, <3>2
  <2>4. CASE ~(i <= Len(l))
    <3>1. ReplayedLog(s.log, line) = l
      BY <2>1, <2>2, <2>4 DEF ReplayedLog
    <3> QED  BY <1>2, <2>1, <3>1
  <2> QED  BY <2>3, <2>4
<1>6. CASE line \in {Corrupt, Empty}
  BY <1>6, ReplayCases
<1> QED  BY <1>3, <1>4, <1>5, <1>6 DEF Line

LEMMA EndLineType ==
  ASSUME NEW f \in File, NEW record \in Line
  PROVE  EndLine(f, record) \in File /\ Pieces(f, record) \in SUBSET File
<1>1. /\ f.done \in State /\ f.tail \in Line
      /\ f = [done |-> f.done, tail |-> f.tail]
  BY DEF File
<1>2. Corrupt \in Line /\ Empty \in Line
  BY DEF Line
<1>3. EndLine(f, record) \in File
  <2>1. PICK s \in State : EndLine(f, record) = [done |-> s, tail |-> Empty]
    <3>1. Replay(f.done, record) \in State
      BY <1>1, ReplayType
    <3> QED  BY <1>1, <3>1, Zenon DEF EndLine
  <2> QED  BY <1>2, <2>1 DEF File
<1>4. ASSUME NEW g \in Pieces(f, record) PROVE g \in File
  <2>1. PICK t \in Line : g = [f EXCEPT !.tail = t]
    BY <1>2, Zenon DEF Pieces
  <2>2. g = [done |-> f.done, tail |-> t]
    BY <1>1, <2>1
  <2> QED  BY <1>1, <2>2 DEF File
<1> QED  BY <1>3, <1>4

LEMMA ReachedType ==
  ASSUME WalTypeOK, NEW k \in 0 .. Len(buffer)
  PROVE  Reached(k) \in File
<1>1. file \in File /\ buffer \in Seq(Image)
  BY DEF WalTypeOK
<1>2. CASE k = 0
  BY <1>1, <1>2 DEF Reached
<1>3. CASE k # 0
  <2>1. buffer[k] \in Image
    BY <1>1, <1>3
  <2> QED  BY <1>3, <2>1 DEF Reached, Image
<1> QED  BY <1>2, <1>3

LEMMA FlushedType == WalTypeOK => Flushed \in File
<1> SUFFICES ASSUME WalTypeOK PROVE Flushed \in File
  OBVIOUS
<1>1. Len(buffer) \in 0 .. Len(buffer)
  BY DEF WalTypeOK
<1> QED  BY <1>1, ReachedType DEF Flushed

LEMMA WriteKeepsTypes ==
  ASSUME WalTypeOK, NEW record \in Line, Write(record)
  PROVE  file' \in File /\ buffer' \in Seq(Image)
<1>1. file \in File /\ buffer \in Seq(Image) /\ Flushed \in File
  BY FlushedType DEF WalTypeOK
<1>2. \/ file' = file
      \/ file' = EndLine(Flushed, record)
      \/ file' \in Pieces(Flushed, record)
  BY DEF Write, WriteWhole, WriteFails, DieWriting
<1>3. file' \in File
  BY <1>1, <1>2, EndLineType
<1>4. Pending(record) \in Image
  BY <1>1, EndLineType DEF Pending, Image
<1>5. buffer' \in {buffer, << >>, Append(buffer, Pending(record))}
  BY DEF Write, WriteWhole, WriteFails, DieWriting
<1>6. \A b \in Seq(Image), p \in Image : Append(b, p) \in Seq(Image)
  OBVIOUS
<1>7. buffer' \in Seq(Image)
  <2>1. Append(buffer, Pending(record)) \in Seq(Image) /\ << >> \in Seq(Image)
    BY <1>1, <1>4, <1>6
  <2> QED  BY <1>1, <1>5, <2>1
<1> QED  BY <1>3, <1>7

LEMMA RecoveredType == WalTypeOK => Recovered \in State
BY ReplayType DEF WalTypeOK, File, Recovered

LEMMA RequestsType ==
  ASSUME NEW prev, prev \in Nat, NEW es \in Requests(prev)
  PROVE  /\ es \in Seq(Entry) /\ Len(es) >= 1
         /\ \A k \in DOMAIN es : es[k].index = prev + k
<1>1. PICK k \in 1 .. MaxLogLength - prev : es \in [1 .. k -> NodeEntry]
  BY DEF Requests
<1>2. NodeEntry \in SUBSET Entry
  BY WalAssumption DEF NodeEntry, Entry
<1>3. k \in Nat /\ k >= 1
  BY <1>1, WalAssumption
<1>4. es \in [1 .. k -> Entry]
  BY <1>1, <1>2
<1>5. es \in Seq(Entry) /\ Len(es) = k
  BY <1>3, <1>4
<1> QED  BY <1>3, <1>5 DEF Requests

LEMMA WalTypeInit == Init => WalTypeOK
<1> SUFFICES ASSUME Init PROVE WalTypeOK
  OBVIOUS
<1>1. NoState \in State /\ None \in Voter /\ NoEntries \in Seq(Entry)
  BY DEF NoState, State, Voter, NoEntries
<1>2. file = [done |-> NoState, tail |-> Empty] /\ Empty \in Line
  BY DEF Init, Line
<1>3. file \in File
  BY <1>1, <1>2 DEF File
<1> QED  BY <1>1, <1>3 DEF Init, WalTypeOK

LEMMA WalTypeStep == WalTypeOK /\ [Next]_vars => WalTypeOK'
<1> SUFFICES ASSUME WalTypeOK, [Next]_vars PROVE WalTypeOK'
  OBVIOUS
<1>0. /\ currentTerm \in Nat /\ votedFor \in Voter
      /\ log \in Seq(Entry) /\ todo \in Seq(Entry)
      /\ file \in File /\ buffer \in Seq(Image)
  BY DEF WalTypeOK
<1>v. None \in Voter /\ Self \in Voter /\ Other \in SUBSET Voter /\ MaxTerm \in Nat
  BY WalAssumption DEF Voter
<1>1. ASSUME NEW t \in Nat, NEW v \in Voter, SetTermVote(t, v) PROVE WalTypeOK'
  <2>1. Metadata(t, v) \in Line
    BY DEF Line
  <2> QED  BY <1>0, <1>1, <2>1, WriteKeepsTypes DEF SetTermVote, WalTypeOK
<1>2. ASSUME NEW e \in Entry, AppendToLog(e), todo' \in Seq(Entry)
      PROVE  WalTypeOK'
  <2>1. EntryRecord(e) \in Line
    BY DEF Line
  <2>2. log' \in Seq(Entry)
    BY <1>0, <1>2 DEF AppendToLog
  <2> QED  BY <1>0, <1>2, <2>1, <2>2, WriteKeepsTypes
           DEF AppendToLog, WalTypeOK, termVars
<1>3. ASSUME UNCHANGED <<termVars, log, diskVars>>, todo' \in Seq(Entry)
      PROVE  WalTypeOK'
  BY <1>0, <1>3 DEF WalTypeOK, termVars, diskVars
<1>4. NoEntries \in Seq(Entry) /\ (Looping => /\ Tail(todo) \in Seq(Entry)
                                             /\ Head(todo) \in Entry)
  BY <1>0 DEF NoEntries, Looping
<1>5. CASE BecomeFollower
  BY <1>0, <1>1, <1>v, <1>5 DEF BecomeFollower
<1>6. CASE BecomeCandidate
  <2>1. currentTerm + 1 \in Nat /\ SetTermVote(currentTerm + 1, Self)
    BY <1>0, <1>6 DEF BecomeCandidate
  <2> QED  BY <1>1, <1>v, <2>1
<1>7. CASE GrantVote
  BY <1>0, <1>1, <1>v, <1>7 DEF GrantVote
<1>8. CASE ExecuteCommand
  <2>1. LastLogIndex(log) + 1 \in Nat
    <3>1. log \in Seq(Entry) /\ 0 \in Nat
      BY <1>0
    <3>2. LastLogIndex(log) \in Nat
      BY <3>1, LogSummaryType
    <3> QED  BY <3>2
  <2>2. LogEntry(LastLogIndex(log) + 1, currentTerm) \in Entry
    BY <1>0, <2>1, EntryFields
  <2> QED  BY <1>0, <1>2, <1>8, <2>2 DEF ExecuteCommand
<1>9. CASE BeginAppend
  <2>1. Len(log) \in Nat
    BY <1>0
  <2>2. PICK prev \in Nat : todo' \in Requests(prev)
    BY <1>9, <2>1 DEF BeginAppend
  <2>3. todo' \in Seq(Entry)
    BY <2>2, RequestsType
  <2> QED  BY <1>3, <1>9, <2>3 DEF BeginAppend
<1>10. CASE SkipEntry
  BY <1>3, <1>4, <1>10 DEF SkipEntry
<1>11. CASE CutLog
  <2>1. PICK i \in Nat : i = Head(todo).index
    BY <1>4, <1>11, EntryFields DEF CutLog
  <2>2. Truncate(i) \in Line
    BY DEF Line
  <2>3. /\ i <= Len(log) /\ log' = SubSeq(log, 1, i - 1)
        /\ Write(Truncate(i)) /\ GoOn(todo) /\ UNCHANGED termVars
    BY <1>11, <2>1 DEF CutLog
  <2>4. log' \in Seq(Entry)
    <3>1. \A j \in 1 .. i - 1 : log[j] \in Entry
      BY <1>0, <2>3
    <3> QED  BY <2>3, <3>1, SubSeqProperties
  <2>5. todo' \in Seq(Entry)
    BY <1>0, <1>4, <2>3 DEF GoOn
  <2> QED  BY <1>0, <2>2, <2>3, <2>4, <2>5, WriteKeepsTypes
           DEF WalTypeOK, termVars
<1>12. CASE ExtendLog
  <2>1. todo' \in Seq(Entry)
    BY <1>4, <1>12 DEF ExtendLog, GoOn
  <2> QED  BY <1>2, <1>4, <1>12, <2>1 DEF ExtendLog
<1>13. CASE Crash
  <2>1. PICK k \in 0 .. Len(buffer) :
          \/ file' = Reached(k)
          \/ k < Len(buffer) /\ file' \in Pieces(Reached(k), buffer[k + 1].record)
    BY <1>13 DEF Crash
  <2>2. Reached(k) \in File
    BY ReachedType
  <2>3. file' \in File
    <3>1. CASE k < Len(buffer)
      <4>1. buffer[k + 1] \in Image
        BY <1>0, <3>1
      <4>2. buffer[k + 1].record \in Line
        BY <4>1 DEF Image
      <4> QED  BY <2>1, <2>2, <4>2, EndLineType
    <3> QED  BY <2>1, <2>2, <3>1
  <2> QED  BY <1>0, <1>13, <2>3 DEF Crash, WalTypeOK, termVars
<1>14. CASE Restart
  <2>1. Recovered \in State
    BY RecoveredType
  <2>2. /\ Recovered.term \in Nat /\ Recovered.vote \in Voter
        /\ Recovered.log \in Seq(Entry)
    BY <2>1 DEF State
  <2> QED  BY <1>0, <1>4, <1>14, <2>2 DEF Restart, WalTypeOK, diskVars
<1>15. CASE BecomeLeader \/ UNCHANGED vars
  BY <1>0, <1>3, <1>15 DEF BecomeLeader, vars
<1> QED  BY <1>5, <1>6, <1>7, <1>8, <1>9, <1>10, <1>11, <1>12, <1>13, <1>14,
            <1>15 DEF Next

-----------------------------------------------------------------------------
\* Where a flush begins, when nothing is welded: the complete lines replay to
\* what memory was, unless a piece of a record ends the file.
LEMMA FlushedIsMemory ==
  ASSUME WalInvariant, up, ~welded
  PROVE  /\ file.tail = Empty => Flushed = [done |-> Memory, tail |-> Empty]
         /\ buffer = << >> => Flushed = file
<1>1. MirrorOK
  BY DEF WalInvariant, Mirrored
<1>2. ASSUME buffer = << >> PROVE Flushed = file
  <2>1. Len(buffer) = 0
    BY <1>2
  <2> QED  BY <2>1 DEF Flushed, Reached
<1> QED  BY <1>1, <1>2 DEF MirrorOK

\* A line written behind an empty tail.
LEMMA EndLineBehindEmpty ==
  ASSUME NEW s, NEW record
  PROVE  EndLine([done |-> s, tail |-> Empty], record)
           = [done |-> Replay(s, record), tail |-> Empty]
BY Zenon DEF EndLine

\* What a file with a given end replays to.
LEMMA FileShape ==
  ASSUME NEW s, Sound(s), file' = [done |-> s, tail |-> Empty]
  PROVE  FileOK' /\ Recovered' = s
<1>1. Replay(s, Empty) = s
  BY ReplayCases DEF Sound
<1>2. file'.done = s /\ file'.tail = Empty
  OBVIOUS
<1>3. Recovered' = s
  BY <1>1, <1>2 DEF Recovered
<1> QED  BY <1>2, <1>3 DEF FileOK

\* The beginning of a record behind a sound file.
LEMMA PieceIsSound ==
  ASSUME NEW f, NEW s, NEW l, f = [done |-> s, tail |-> l], Sound(s),
         NEW record, Sound(Replay(s, record)) \/ l # Empty,
         file' \in Pieces(f, record)
  PROVE  /\ FileOK'
         /\ Recovered' = s \/ (Recovered' = Replay(s, record) /\ l = Empty)
<1>1. PICK t : /\ file' = [f EXCEPT !.tail = t]
               /\ t = Corrupt \/ (t = record /\ f.tail = Empty)
  BY Zenon DEF Pieces
<1>2. file' = [done |-> s, tail |-> t] /\ f.tail = l
  BY <1>1
<1>3. file'.done = s /\ file'.tail = t
  BY <1>2
<1>4. Replay(s, Corrupt) = s
  BY ReplayCases DEF Sound
<1>5. Recovered' = s \/ (Recovered' = Replay(s, record) /\ l = Empty)
  BY <1>1, <1>2, <1>3, <1>4 DEF Recovered
<1>6. Sound(Recovered')
  BY <1>5
<1> QED  BY <1>2, <1>3, <1>5, <1>6 DEF FileOK

\* An empty buffer mirrors memory that the file replays to.
LEMMA NothingPending ==
  ASSUME buffer' = << >>, FileOK', Recovered' = Memory'
  PROVE  MirrorOK'
<1>1. Len(buffer') = 0 /\ DOMAIN buffer' = {}
  OBVIOUS
<1>2. Flushed' = file'
  BY <1>1 DEF Flushed, Reached
<1>3. file'.tail = Empty => file' = [done |-> Memory', tail |-> Empty]
  <2> SUFFICES ASSUME file'.tail = Empty
               PROVE  file' = [done |-> Memory', tail |-> Empty]
    OBVIOUS
  <2>1. /\ file' = [done |-> file'.done, tail |-> Empty]
        /\ file'.done \in State
    BY DEF FileOK, Sound
  <2>2. Recovered' = file'.done
    BY <2>1, ReplayCases DEF Recovered
  <2> QED  BY <2>1, <2>2
<1> QED  BY <1>1, <1>2, <1>3 DEF MirrorOK

\* A record that fails to be written goes behind the others.
LEMMA BufferGrows ==
  ASSUME WalTypeOK, NEW record, NEW n, n = Len(buffer),
         buffer' = Append(buffer, Pending(record)), file' = file
  PROVE  /\ n \in Nat /\ buffer' # << >> /\ DOMAIN buffer' = 1 .. n + 1
         /\ \A k \in 1 .. n : buffer'[k] = buffer[k] /\ k \in DOMAIN buffer
         /\ buffer'[n + 1].record = record
         /\ \A k \in 0 .. n : Reached(k)' = Reached(k)
         /\ Reached(n + 1)' = EndLine(Flushed, record)
         /\ Flushed' = EndLine(Flushed, record)
<1> DEFINE p == Pending(record)
<1>1. p.record = record /\ p.file = EndLine(Flushed, record)
  BY DEF Pending
<1> HIDE DEF p
<1>2. /\ n \in Nat /\ buffer' # << >> /\ Len(buffer') = n + 1
      /\ DOMAIN buffer' = 1 .. n + 1 /\ DOMAIN buffer = 1 .. n
      /\ \A k \in 1 .. n : buffer'[k] = buffer[k]
      /\ buffer'[n + 1] = p
  <2>1. PICK b \in Seq(Image) : b = buffer
    BY DEF WalTypeOK
  <2>2. buffer' = Append(b, p)
    BY <2>1 DEF p
  <2>3. /\ n = Len(b) /\ n \in Nat /\ Len(Append(b, p)) = n + 1
        /\ DOMAIN Append(b, p) = 1 .. n + 1 /\ DOMAIN b = 1 .. n
        /\ \A k \in 1 .. n : Append(b, p)[k] = b[k]
        /\ Append(b, p)[n + 1] = p
    BY <2>1
  <2>4. Append(b, p) # << >>
    BY <2>3
  <2> QED  BY <2>1, <2>2, <2>3, <2>4
<1>3. ASSUME NEW k \in 0 .. n PROVE Reached(k)' = Reached(k)
  <2>1. CASE k = 0
    BY <2>1 DEF Reached
  <2>2. CASE k # 0
    <3>1. k \in 1 .. n
      BY <1>2, <2>2
    <3> QED  BY <1>2, <2>2, <3>1 DEF Reached
  <2> QED  BY <2>1, <2>2
<1>4. Reached(n + 1)' = EndLine(Flushed, record)
  BY <1>1, <1>2 DEF Reached
<1>5. Flushed' = EndLine(Flushed, record)
  BY <1>1, <1>2 DEF Flushed, Reached
<1> QED  BY <1>1, <1>2, <1>3, <1>4, <1>5

\* Where the file and the buffer stay, so does what they will be.
LEMMA DiskStays ==
  ASSUME UNCHANGED <<file, buffer>>
  PROVE  /\ Recovered' = Recovered /\ Flushed' = Flushed
         /\ \A k : Reached(k)' = Reached(k)
         /\ FileOK => FileOK'
         /\ \A k : ImageOK(k)' <=> ImageOK(k)
<1>1. \A k : Reached(k)' = Reached(k)
  BY DEF Reached
<1>2. Flushed' = Flushed
  BY DEF Flushed, Reached
<1>3. Recovered' = Recovered
  BY DEF Recovered
<1>4. FileOK => FileOK'
  BY <1>3 DEF FileOK
<1>5. \A k : ImageOK(k)' <=> ImageOK(k)
  BY <1>1 DEF ImageOK
<1> QED  BY <1>1, <1>2, <1>3, <1>4, <1>5

\* A step that writes nothing and leaves memory keeps the mirror.
LEMMA MirrorStays ==
  ASSUME Mirrored, UNCHANGED <<up, termVars, log, diskVars>>,
         up /\ ~welded => TodoOK'
  PROVE  Mirrored'
<1>1. UNCHANGED <<file, buffer, welded, up>> /\ Memory' = Memory
  BY DEF diskVars, termVars, Memory
<1>2. MirrorOK => MirrorOK'
  BY <1>1, DiskStays DEF MirrorOK
<1>3. FileOK => FileOK'
  BY <1>1, DiskStays
<1> QED  BY <1>1, <1>2, <1>3 DEF Mirrored

\* A write, whatever becomes of it, keeps the mirror: all that it needs is
\* that the record says what has happened to memory.
LEMMA WriteKeepsMirror ==
  ASSUME WalInvariant, up, NEW record, Write(record),
         ~welded => Sound(Memory') /\ Replay(Memory, record) = Memory'
  PROVE  /\ ~up' => buffer' = << >>
         /\ welded' \in BOOLEAN
         /\ welded => welded'
         /\ ~welded' => FileOK' /\ (up' => MirrorOK')
<1> DEFINE after == [done |-> Memory', tail |-> Empty]
<1>0. /\ welded \in BOOLEAN /\ WalTypeOK
      /\ ~welded => FileOK /\ Sound(Memory) /\ MirrorOK
  BY DEF WalInvariant, Mirrored
<1>1. ASSUME ~welded, file.tail = Empty
      PROVE  EndLine(Flushed, record) = after
  BY <1>1, FlushedIsMemory, EndLineBehindEmpty
<1>2. ASSUME ~welded, file' = after
      PROVE  FileOK' /\ Recovered' = Memory'
  BY <1>2, FileShape
<1>3. ASSUME file' = EndLine(Flushed, record), buffer' = << >>,
             welded' = (welded \/ file.tail # Empty), ~welded'
      PROVE  FileOK' /\ MirrorOK'
  <2>1. ~welded /\ file.tail = Empty
    BY <1>0, <1>3
  <2>2. FileOK' /\ Recovered' = Memory'
    BY <1>1, <1>2, <1>3, <2>1
  <2> QED  BY <1>3, <2>2, NothingPending
<1>4. CASE WriteWhole(record)
  BY <1>0, <1>3, <1>4 DEF WriteWhole
<1>5. CASE WriteFails(record)
  <2>1. up'
    BY <1>5 DEF WriteFails
  <2>2. CASE buffer' = Append(buffer, Pending(record)) /\ UNCHANGED <<file, welded>>
    <3>1. ASSUME ~welded PROVE FileOK' /\ MirrorOK'
      <4>1. FileOK'
        BY <1>0, <2>2, <3>1 DEF FileOK, Recovered
      <4>2. PICK n : n = Len(buffer)
        OBVIOUS
      <4>3. /\ n \in Nat /\ buffer' # << >> /\ DOMAIN buffer' = 1 .. n + 1
            /\ \A k \in 1 .. n : buffer'[k] = buffer[k] /\ k \in DOMAIN buffer
            /\ buffer'[n + 1].record = record
            /\ \A k \in 0 .. n : Reached(k)' = Reached(k)
            /\ Reached(n + 1)' = EndLine(Flushed, record)
            /\ Flushed' = EndLine(Flushed, record)
        BY <1>0, <2>2, <4>2, BufferGrows
      <4>4. ASSUME file'.tail = Empty
            PROVE  /\ \A k \in DOMAIN buffer' : ImageOK(k)'
                   /\ Flushed' = [done |-> Memory', tail |-> Empty]
        <5>1. /\ EndLine(Flushed, record) = after /\ file.tail = Empty
              /\ Reached(n).done = Memory
          BY <1>1, <2>2, <3>1, <4>2, <4>4, FlushedIsMemory DEF Flushed
        <5>2. ASSUME NEW k \in 1 .. n PROVE ImageOK(k)'
          <6>1. ImageOK(k) /\ k \in 0 .. n /\ k - 1 \in 0 .. n
            BY <1>0, <3>1, <4>3, <5>1 DEF MirrorOK
          <6> QED  BY <4>3, <6>1 DEF ImageOK
        <5>3. ImageOK(n + 1)'
          <6>1. (n + 1) - 1 = n /\ n \in 0 .. n
            BY <4>3
          <6> QED  BY <1>0, <3>1, <4>3, <5>1, <6>1 DEF ImageOK
        <5>4. \A k \in DOMAIN buffer' : k \in 1 .. n \/ k = n + 1
          BY <4>3
        <5> QED  BY <4>3, <5>1, <5>2, <5>3, <5>4
      <4> QED  BY <4>1, <4>3, <4>4 DEF MirrorOK
    <3> QED  BY <1>0, <2>1, <2>2, <3>1
  <2>3. CASE /\ file' = EndLine(Flushed, record) /\ buffer' = << >>
             /\ welded' = (welded \/ file.tail # Empty)
    BY <1>0, <1>3, <2>1, <2>3
  <2> QED  BY <1>5, <2>2, <2>3 DEF WriteFails
<1>6. CASE DieWriting(record)
  <2>1. /\ file' \in Pieces(Flushed, record) /\ buffer' = << >> /\ up' = FALSE
        /\ welded' = (welded \/ (file.tail # Empty /\ buffer # << >>))
    BY <1>6 DEF DieWriting
  <2>2. ASSUME ~welded' PROVE FileOK'
    <3>1. ~welded /\ (file.tail = Empty \/ buffer = << >>) /\ Sound(Memory) /\ FileOK
      BY <1>0, <2>1, <2>2
    <3>2. PICK s, l : Flushed = [done |-> s, tail |-> l] /\ Sound(s)
                      /\ (l = Empty => s = Memory)
      <4>1. CASE file.tail = Empty
        BY <3>1, <4>1, FlushedIsMemory
      <4>2. CASE file.tail # Empty
        <5>1. Flushed = file
          BY <3>1, <4>2, FlushedIsMemory
        <5>2. file = [done |-> file.done, tail |-> file.tail] /\ Sound(file.done)
          BY <3>1 DEF FileOK
        <5> QED  BY <4>2, <5>1, <5>2
      <4> QED  BY <4>1, <4>2
    <3>3. Sound(Replay(s, record)) \/ l # Empty
      BY <1>0, <2>1, <3>1, <3>2
    <3> QED  BY <2>1, <3>2, <3>3, PieceIsSound
  <2> QED  BY <1>0, <2>1, <2>2
<1> QED  BY <1>4, <1>5, <1>6 DEF Write

\* So it keeps the invariant, if the append loop has its place as well.
LEMMA WriteKeepsInvariant ==
  ASSUME WalInvariant, up, NEW record, Write(record),
         ~welded => /\ Sound(Memory') /\ TodoOK'
                    /\ Replay(Memory, record) = Memory'
  PROVE  Mirrored'
<1>1. /\ ~up' => buffer' = << >>
      /\ welded' \in BOOLEAN /\ (welded => welded')
      /\ ~welded' => FileOK' /\ (up' => MirrorOK')
  BY WriteKeepsMirror
<1>2. ~welded' => Sound(Memory') /\ TodoOK'
  BY <1>1
<1> QED  BY <1>1, <1>2 DEF Mirrored

-----------------------------------------------------------------------------
\* Nothing is left of a request when no loop runs.
LEMMA NothingToDo ==
  ASSUME todo' = NoEntries
  PROVE  TodoOK'
<1>1. todo' = << >> /\ << >> \in Seq(Entry)
  BY DEF NoEntries
<1>2. DOMAIN todo' = {}
  BY <1>1
<1> QED  BY <1>1, <1>2 DEF TodoOK

\* The fields of what is in memory.
LEMMA MemoryFields ==
  ASSUME Sound(Memory)
  PROVE  /\ currentTerm \in Nat /\ votedFor \in Voter
         /\ log \in Seq(Entry) /\ Positioned(log)
         /\ Memory \in State
         /\ Memory = [term |-> currentTerm, vote |-> votedFor, log |-> log]
<1>1. /\ Memory = [term |-> currentTerm, vote |-> votedFor, log |-> log]
      /\ Memory.term = currentTerm /\ Memory.vote = votedFor /\ Memory.log = log
  BY DEF Memory
<1>2. Memory \in State /\ Positioned(log)
  BY <1>1 DEF Sound
<1>3. Memory.term \in Nat /\ Memory.vote \in Voter /\ Memory.log \in Seq(Entry)
  BY <1>2 DEF State
<1> QED  BY <1>1, <1>2, <1>3

\* And what makes it sound after a step.
LEMMA MemoryIsSound ==
  ASSUME currentTerm' \in Nat, votedFor' \in Voter,
         log' \in Seq(Entry), Positioned(log)'
  PROVE  Sound(Memory')
<1>1. /\ Memory' = [term |-> currentTerm', vote |-> votedFor', log |-> log']
      /\ Memory'.log = log'
  BY DEF Memory
<1>2. Memory' \in State
  BY <1>1 DEF State
<1> QED  BY <1>1, <1>2 DEF Sound, Positioned

\* A log cut at its end, and one extended by the entry that belongs there.
LEMMA LogEnds ==
  ASSUME NEW l \in Seq(Entry), Positioned(l)
  PROVE  /\ \A i \in 1 .. Len(l) :
              /\ SubSeq(l, 1, i - 1) \in Seq(Entry)
              /\ Len(SubSeq(l, 1, i - 1)) = i - 1
              /\ Positioned(SubSeq(l, 1, i - 1))
         /\ \A e \in Entry : e.index = Len(l) + 1 =>
              /\ Append(l, e) \in Seq(Entry)
              /\ Len(Append(l, e)) = Len(l) + 1
              /\ Positioned(Append(l, e))
<1>1. ASSUME NEW i \in 1 .. Len(l)
      PROVE  /\ SubSeq(l, 1, i - 1) \in Seq(Entry)
             /\ Len(SubSeq(l, 1, i - 1)) = i - 1
             /\ Positioned(SubSeq(l, 1, i - 1))
  <2>1. \A j \in 1 .. (i - 1) : l[j] \in Entry
    OBVIOUS
  <2>2. SubSeq(l, 1, i - 1) \in Seq(Entry)
    BY <2>1, SubSeqProperties
  <2>3. /\ Len(SubSeq(l, 1, i - 1)) = i - 1
        /\ \A j \in 1 .. i - 1 : SubSeq(l, 1, i - 1)[j] = l[j]
    OBVIOUS
  <2> QED  BY <2>2, <2>3 DEF Positioned
<1>2. ASSUME NEW e \in Entry, e.index = Len(l) + 1
      PROVE  /\ Append(l, e) \in Seq(Entry)
             /\ Len(Append(l, e)) = Len(l) + 1
             /\ Positioned(Append(l, e))
  <2>1. /\ Append(l, e) \in Seq(Entry) /\ Len(Append(l, e)) = Len(l) + 1
        /\ \A i \in 1 .. Len(l) : Append(l, e)[i] = l[i]
        /\ Append(l, e)[Len(l) + 1] = e
    BY AppendProperties
  <2> QED  BY <1>2, <2>1 DEF Positioned
<1> QED  BY <1>1, <1>2

-----------------------------------------------------------------------------
\* Nothing is written when the node starts, and nothing is missing.
LEMMA InitInvariant == Init => WalInvariant
<1> SUFFICES ASSUME Init PROVE WalInvariant
  OBVIOUS
<1>1. NoState \in State /\ NoState.log = << >> /\ Memory = NoState
  BY DEF Init, NoState, State, Voter, NoEntries, Memory
<1>2. Positioned(NoState.log)
  BY <1>1 DEF Positioned
<1>3. /\ file = [done |-> NoState, tail |-> Empty]
      /\ file.done = NoState /\ file.tail = Empty
  BY DEF Init
<1>4. Recovered = NoState
  BY <1>1, <1>3, ReplayCases DEF Recovered
<1>5. FileOK /\ Sound(Memory)
  BY <1>1, <1>2, <1>3, <1>4 DEF FileOK, Sound
<1>6. todo = << >> /\ << >> \in Seq(Entry) /\ DOMAIN << >> = {}
  BY DEF Init, NoEntries
<1>7. TodoOK
  BY <1>6 DEF TodoOK
<1>8. buffer = << >> /\ welded = FALSE /\ Len(buffer) = 0 /\ DOMAIN buffer = {}
  BY DEF Init
<1>9. MirrorOK
  BY <1>1, <1>3, <1>4, <1>8 DEF MirrorOK, Flushed, Reached
<1> QED  BY <1>5, <1>7, <1>8, <1>9, WalTypeInit DEF WalInvariant, Mirrored

\* A new term, a new vote, or the same vote once more.
LEMMA SetTermVoteKeeps ==
  ASSUME WalInvariant, Idle, NEW t, NEW v, SetTermVote(t, v),
         ~welded => t \in Nat /\ v \in Voter
  PROVE  Mirrored'
<1>1. /\ up /\ todo' = NoEntries /\ log' = log
      /\ currentTerm' = t /\ votedFor' = v /\ Write(Metadata(t, v))
  BY DEF Idle, SetTermVote
<1>2. ASSUME ~welded
      PROVE  Sound(Memory') /\ TodoOK' /\ Replay(Memory, Metadata(t, v)) = Memory'
  <2>1. Sound(Memory)
    BY <1>1, <1>2 DEF WalInvariant, Mirrored
  <2>2. Sound(Memory') /\ TodoOK'
    BY <1>1, <1>2, <2>1, MemoryFields, MemoryIsSound, NothingToDo DEF Positioned
  <2>3. Memory \in State /\ Memory.log = log
    BY <2>1, MemoryFields DEF Memory
  <2>4. Replay(Memory, Metadata(t, v)) = [term |-> t, vote |-> v, log |-> log]
    BY <1>2, <2>3, ReplayCases
  <2> QED  BY <1>1, <2>2, <2>4 DEF Memory
<1> QED  BY <1>1, <1>2, WriteKeepsInvariant

\* An entry that goes behind the last one.
LEMMA AppendToLogKeeps ==
  ASSUME WalInvariant, up, NEW e, AppendToLog(e),
         UNCHANGED termVars,
         ~welded => e \in Entry /\ e.index = Len(log) + 1 /\ TodoOK'
  PROVE  Mirrored'
<1>1. /\ log' = Append(log, e) /\ Write(EntryRecord(e))
      /\ currentTerm' = currentTerm /\ votedFor' = votedFor
  BY DEF AppendToLog, termVars
<1>2. ASSUME ~welded
      PROVE  Sound(Memory') /\ TodoOK' /\ Replay(Memory, EntryRecord(e)) = Memory'
  <2>1. Sound(Memory)
    BY <1>2 DEF WalInvariant, Mirrored
  <2>2. /\ log \in Seq(Entry) /\ Positioned(log) /\ e \in Entry
        /\ e.index = Len(log) + 1 /\ TodoOK'
    BY <1>2, <2>1, MemoryFields
  <2>3. log' \in Seq(Entry) /\ Positioned(log)'
    BY <1>1, <2>2, LogEnds DEF Positioned
  <2>4. Sound(Memory')
    BY <1>1, <2>1, <2>3, MemoryFields, MemoryIsSound
  <2>5. /\ Memory \in State /\ Memory.log = log
        /\ Memory.term = currentTerm /\ Memory.vote = votedFor
    BY <2>1, MemoryFields DEF Memory
  <2>6. e.index > Len(Memory.log)
    BY <2>2, <2>5
  <2>7. Replay(Memory, EntryRecord(e))
          = [term |-> currentTerm, vote |-> votedFor, log |-> Append(log, e)]
    BY <2>2, <2>5, <2>6, ReplayCases
  <2> QED  BY <1>1, <2>2, <2>4, <2>7 DEF Memory
<1> QED  BY <1>1, <1>2, WriteKeepsInvariant

\* A leader appends its command's entry behind its last one.
LEMMA ExecuteCommandKeeps ==
  ASSUME WalInvariant, ExecuteCommand
  PROVE  Mirrored'
<1> DEFINE e == LogEntry(LastLogIndex(log) + 1, currentTerm)
<1>1. up /\ todo' = NoEntries /\ AppendToLog(e) /\ UNCHANGED termVars
  BY DEF ExecuteCommand, Idle, AppendToLog
<1>2. ASSUME ~welded
      PROVE  e \in Entry /\ e.index = Len(log) + 1 /\ TodoOK'
  <2>1. log \in Seq(Entry) /\ Positioned(log) /\ currentTerm \in Nat
    BY <1>1, <1>2, MemoryFields DEF WalInvariant, Mirrored
  <2>2. LastLogIndex(log) = Len(log) /\ Len(log) + 1 \in Nat
    BY <2>1, LastLogIndexIsLen
  <2> QED  BY <1>1, <2>1, <2>2, EntryFields, NothingToDo
<1> HIDE DEF e
<1> QED  BY <1>1, <1>2, AppendToLogKeeps

-----------------------------------------------------------------------------
\* The append loop has entries left: the first is of the log or follows it.
LEMMA LoopFields ==
  ASSUME WalInvariant, Looping, ~welded
  PROVE  /\ log \in Seq(Entry) /\ Positioned(log) /\ Sound(Memory) /\ TodoOK
         /\ todo \in Seq(Entry) /\ todo # << >>
         /\ Head(todo) \in Entry /\ Head(todo).index \in 1 .. Len(log) + 1
         /\ Head(todo).term <= currentTerm
         /\ \A k \in DOMAIN todo : /\ todo[k].index = Head(todo).index + k - 1
                                   /\ todo[k].term <= currentTerm
<1>1. up /\ todo # << >>
  BY DEF Looping, NoEntries
<1>2. TodoOK /\ Sound(Memory)
  BY <1>1 DEF WalInvariant, Mirrored
<1>3. todo \in Seq(Entry) /\ Head(todo) \in Entry
  BY <1>1, <1>2 DEF TodoOK
<1>4. Head(todo) = todo[1] /\ 1 \in DOMAIN todo
  BY <1>1, <1>3
<1> QED  BY <1>1, <1>2, <1>3, <1>4, MemoryFields DEF TodoOK

\* What is left after one entry has its place in the log.
LEMMA TailFollows ==
  ASSUME NEW es \in Seq(Entry), es # << >>, NEW n \in Nat, NEW m,
         Head(es).index <= n, Head(es).index \in Nat,
         \A k \in DOMAIN es : /\ es[k].index = Head(es).index + k - 1
                             /\ es[k].term <= m
  PROVE  /\ Tail(es) \in Seq(Entry)
         /\ Tail(es) # << >> => Head(Tail(es)).index \in 1 .. n + 1
         /\ \A k \in DOMAIN Tail(es) :
              /\ Tail(es)[k].index = Head(Tail(es)).index + k - 1
              /\ Tail(es)[k].term <= m
<1>1. /\ Tail(es) \in Seq(Entry) /\ Len(Tail(es)) = Len(es) - 1
      /\ \A k \in 1 .. Len(es) - 1 : Tail(es)[k] = es[k + 1]
      /\ DOMAIN Tail(es) = 1 .. Len(es) - 1
      /\ DOMAIN es = 1 .. Len(es) /\ Len(es) \in Nat
  OBVIOUS
<1>2. \A k \in 1 .. Len(es) - 1 : Tail(es)[k].index = Head(es).index + k
  <2> SUFFICES ASSUME NEW k \in 1 .. Len(es) - 1
               PROVE  Tail(es)[k].index = Head(es).index + k
    OBVIOUS
  <2>1. k + 1 \in DOMAIN es
    BY <1>1
  <2>2. Tail(es)[k].index = es[k + 1].index
    BY <1>1
  <2>3. es[k + 1].index = Head(es).index + (k + 1) - 1
    BY <2>1
  <2> QED  BY <2>2, <2>3
<1>3. ASSUME Tail(es) # << >>
      PROVE  /\ 1 \in 1 .. Len(es) - 1 /\ Head(Tail(es)) = Tail(es)[1]
             /\ Head(Tail(es)).index = Head(es).index + 1
  <2>1. 1 \in 1 .. Len(es) - 1 /\ Head(Tail(es)) = Tail(es)[1]
    BY <1>1, <1>3
  <2> QED  BY <1>2, <2>1
<1>4. \A k \in DOMAIN Tail(es) :
         Tail(es)[k].index = Head(Tail(es)).index + k - 1
  <2> SUFFICES ASSUME NEW k \in DOMAIN Tail(es)
               PROVE  Tail(es)[k].index = Head(Tail(es)).index + k - 1
    OBVIOUS
  <2>1. k \in 1 .. Len(es) - 1 /\ Tail(es) # << >>
    BY <1>1
  <2>2. Tail(es)[k].index = Head(es).index + k
    BY <1>2, <2>1
  <2>3. Head(Tail(es)).index = Head(es).index + 1
    BY <1>3, <2>1
  <2>4. k \in Int
    BY <1>1, <2>1
  <2>5. Head(es).index + k = (Head(es).index + 1) + k - 1
    BY <2>4
  <2> QED  BY <2>2, <2>3, <2>5
<1>5. ASSUME NEW k \in DOMAIN Tail(es) PROVE Tail(es)[k].term <= m
  <2>1. Tail(es)[k] = es[k + 1] /\ k + 1 \in DOMAIN es
    BY <1>1
  <2> QED  BY <2>1
<1> QED  BY <1>1, <1>3, <1>4, <1>5

\* The loop passes over an entry that the log has.
LEMMA SkipEntryKeeps ==
  ASSUME WalInvariant, SkipEntry
  PROVE  Mirrored'
<1>1. /\ Looping /\ up /\ Head(todo).index <= Len(log) /\ todo' = Tail(todo)
      /\ UNCHANGED <<up, termVars, log, diskVars>>
  BY DEF SkipEntry, Looping, Holds
<1>2. ASSUME ~welded PROVE TodoOK'
  <2>1. /\ Len(log) \in Nat /\ Head(todo).index \in Nat
        /\ todo \in Seq(Entry) /\ todo # << >>
        /\ \A k \in DOMAIN todo : /\ todo[k].index = Head(todo).index + k - 1
                                  /\ todo[k].term <= currentTerm
    BY <1>1, <1>2, LoopFields
  <2>2. /\ Tail(todo) \in Seq(Entry)
        /\ Tail(todo) # << >> => Head(Tail(todo)).index \in 1 .. Len(log) + 1
        /\ \A k \in DOMAIN Tail(todo) :
             /\ Tail(todo)[k].index = Head(Tail(todo)).index + k - 1
             /\ Tail(todo)[k].term <= currentTerm
    BY <1>1, <2>1, TailFollows
  <2> QED  BY <1>1, <2>2 DEF TodoOK, termVars
<1> QED  BY <1>1, <1>2, MirrorStays DEF WalInvariant

\* It cuts the log at a conflict: the entry it stands at comes next.
LEMMA CutLogKeeps ==
  ASSUME WalInvariant, CutLog
  PROVE  Mirrored'
<1> DEFINE i == Head(todo).index
<1>1. /\ Looping /\ up /\ i <= Len(log)
      /\ log' = SubSeq(log, 1, i - 1)
      /\ Write(Truncate(i)) /\ UNCHANGED termVars
      /\ todo' = NoEntries \/ todo' = todo
  BY DEF CutLog, Looping, GoOn
<1>2. ASSUME ~welded
      PROVE  Sound(Memory') /\ TodoOK' /\ Replay(Memory, Truncate(i)) = Memory'
  <2>1. /\ Sound(Memory) /\ log \in Seq(Entry) /\ Positioned(log)
        /\ i \in 1 .. Len(log) /\ TodoOK
    <3>1. i \in 1 .. Len(log) + 1 /\ log \in Seq(Entry)
      BY <1>1, <1>2, LoopFields
    <3>2. i \in 1 .. Len(log)
      BY <1>1, <3>1
    <3> QED  BY <1>1, <1>2, <3>2, LoopFields
  <2> HIDE DEF i
  <2>2. log' \in Seq(Entry) /\ Len(log') = i - 1 /\ Positioned(log)'
    BY <1>1, <2>1, LogEnds DEF Positioned
  <2>3. Sound(Memory')
    BY <1>1, <2>1, <2>2, MemoryFields, MemoryIsSound DEF termVars
  <2>4. TodoOK'
    <3>1. CASE todo' = NoEntries
      BY <3>1, NothingToDo
    <3>2. CASE todo' = todo
      <4>1. Head(todo').index \in 1 .. Len(log') + 1
        BY <2>1, <2>2, <3>2 DEF i
      <4> QED  BY <1>1, <2>1, <3>2, <4>1 DEF TodoOK, termVars
    <3> QED  BY <1>1, <3>1, <3>2
  <2>5. /\ Memory \in State /\ Memory.log = log
        /\ Memory.term = currentTerm /\ Memory.vote = votedFor
    BY <2>1, MemoryFields DEF Memory
  <2>6. Replay(Memory, Truncate(i))
          = [term |-> currentTerm, vote |-> votedFor, log |-> SubSeq(log, 1, i - 1)]
    BY <2>1, <2>5, ReplayCases
  <2> QED  BY <1>1, <2>3, <2>4, <2>6 DEF Memory, termVars
<1> HIDE DEF i
<1> QED  BY <1>1, <1>2, WriteKeepsInvariant

\* It appends the entry that follows the log.
LEMMA ExtendLogKeeps ==
  ASSUME WalInvariant, ExtendLog
  PROVE  Mirrored'
<1>1. /\ Looping /\ up /\ Head(todo).index > Len(log)
      /\ AppendToLog(Head(todo)) /\ UNCHANGED termVars
      /\ log' = Append(log, Head(todo))
      /\ todo' = NoEntries \/ todo' = Tail(todo)
  BY DEF ExtendLog, Looping, GoOn, AppendToLog
<1>2. ASSUME ~welded
      PROVE  Head(todo) \in Entry /\ Head(todo).index = Len(log) + 1 /\ TodoOK'
  <2>1. /\ log \in Seq(Entry) /\ Positioned(log) /\ Len(log) \in Nat
        /\ todo \in Seq(Entry) /\ todo # << >> /\ Head(todo) \in Entry
        /\ Head(todo).index \in 1 .. Len(log) + 1
        /\ \A k \in DOMAIN todo : /\ todo[k].index = Head(todo).index + k - 1
                                  /\ todo[k].term <= currentTerm
    BY <1>1, <1>2, LoopFields
  <2>2. Head(todo).index = Len(log) + 1
    BY <1>1, <2>1
  <2>3. Len(log') = Len(log) + 1 /\ Len(log') \in Nat
    BY <1>1, <2>1, <2>2, LogEnds
  <2>4. TodoOK'
    <3>1. CASE todo' = NoEntries
      BY <3>1, NothingToDo
    <3>2. CASE todo' = Tail(todo)
      <4>1. /\ Tail(todo) \in Seq(Entry)
            /\ Tail(todo) # << >> =>
                 Head(Tail(todo)).index \in 1 .. Len(log') + 1
            /\ \A k \in DOMAIN Tail(todo) :
                 /\ Tail(todo)[k].index = Head(Tail(todo)).index + k - 1
                 /\ Tail(todo)[k].term <= currentTerm
        <5>1. Head(todo).index \in Nat /\ Head(todo).index <= Len(log')
          BY <2>1, <2>2, <2>3
        <5> QED  BY <2>1, <2>3, <5>1, TailFollows
      <4> QED  BY <1>1, <3>2, <4>1 DEF TodoOK, termVars
    <3> QED  BY <1>1, <3>1, <3>2
  <2> QED  BY <2>1, <2>2, <2>4
<1> QED  BY <1>1, <1>2, AppendToLogKeeps

-----------------------------------------------------------------------------
\* A request of another leader continues the log somewhere.
LEMMA BeginAppendKeeps ==
  ASSUME WalInvariant, BeginAppend
  PROVE  Mirrored'
<1>1. /\ up /\ UNCHANGED <<up, termVars, log, diskVars>>
  BY DEF BeginAppend, Idle
<1>2. ASSUME ~welded PROVE TodoOK'
  <2>1. log \in Seq(Entry) /\ Len(log) \in Nat
    BY <1>1, <1>2, MemoryFields DEF WalInvariant, Mirrored
  <2>2. PICK prev \in 0 .. Len(log) : todo' \in Requests(prev)
    BY DEF BeginAppend
  <2>3. PICK k \in 1 .. MaxLogLength - prev : todo' \in [1 .. k -> NodeEntry]
    BY <2>2 DEF Requests
  <2>4. \A j \in DOMAIN todo' : todo'[j].index = prev + j
    BY <2>2 DEF Requests
  <2>5. NodeEntry \in SUBSET Entry
    BY WalAssumption DEF NodeEntry, Entry
  <2>6. /\ k \in Nat /\ prev \in Nat /\ MaxLogLength \in Nat
    BY <2>1, WalAssumption
  <2>7. todo' \in Seq(Entry) /\ DOMAIN todo' = 1 .. k /\ Head(todo') = todo'[1]
    <3>1. todo' \in [1 .. k -> Entry]
      BY <2>3, <2>5
    <3>2. todo' \in Seq(Entry)
      BY <2>6, <3>1
    <3> QED  BY <2>3, <3>2
  <2>8. Head(todo').index = prev + 1
    BY <2>4, <2>6, <2>7
  <2>9. \A j \in DOMAIN todo' : todo'[j].index = Head(todo').index + j - 1
    <3> SUFFICES ASSUME NEW j \in DOMAIN todo'
                 PROVE  todo'[j].index = Head(todo').index + j - 1
      OBVIOUS
    <3>1. j \in Int /\ todo'[j].index = prev + j
      BY <2>4, <2>6, <2>7
    <3>2. prev + j = (prev + 1) + j - 1
      BY <2>6, <3>1
    <3> QED  BY <2>8, <3>1, <3>2
  <2>10. Head(todo').index \in 1 .. Len(log') + 1
    BY <1>1, <2>1, <2>2, <2>8
  <2>11. \A j \in DOMAIN todo' : todo'[j].term <= currentTerm
    BY <2>2 DEF Requests
  <2> QED  BY <1>1, <2>7, <2>9, <2>10, <2>11 DEF TodoOK, termVars
<1> QED  BY <1>1, <1>2, MirrorStays DEF WalInvariant

\* A crash leaves some of the records in the buffer behind the file, and perhaps
\* a piece of the next.
LEMMA CrashKeeps ==
  ASSUME WalInvariant, Crash
  PROVE  Mirrored'
<1>1. up /\ up' = FALSE /\ buffer' = << >> /\ welded \in BOOLEAN
  BY DEF Crash, WalInvariant, Mirrored
<1>2. PICK k \in 0 .. Len(buffer) :
        /\ \/ file' = Reached(k)
           \/ k < Len(buffer) /\ file' \in Pieces(Reached(k), buffer[k + 1].record)
        /\ welded' = (welded \/ (k > 0 /\ file.tail # Empty))
  BY DEF Crash
<1>3. ASSUME ~welded' PROVE FileOK'
  <2>1. /\ ~welded /\ FileOK /\ MirrorOK /\ Len(buffer) \in Nat
        /\ k = 0 \/ file.tail = Empty
        /\ DOMAIN buffer = 1 .. Len(buffer)
    <3>1. /\ Len(buffer) \in Nat
          /\ DOMAIN buffer = 1 .. Len(buffer)
      BY DEF WalInvariant, WalTypeOK
    <3>2. ~welded /\ ~(k > 0 /\ file.tail # Empty)
      BY <1>1, <1>2, <1>3
    <3>3. k = 0 \/ file.tail = Empty
      BY <3>1, <3>2
    <3> QED  BY <1>1, <3>1, <3>2, <3>3 DEF WalInvariant, Mirrored
  <2>2. PICK s, l : /\ Reached(k) = [done |-> s, tail |-> l]
                    /\ Sound(s) /\ Sound(Replay(s, l))
                    /\ l = Empty => file.tail = Empty
    <3>1. CASE k = 0
      BY <2>1, <3>1 DEF Reached, FileOK, Recovered
    <3>2. CASE k # 0
      <4>1. ImageOK(k) /\ file.tail = Empty
        BY <2>1, <3>2 DEF MirrorOK
      <4>2. Sound(Replay(Reached(k).done, Empty))
        BY <4>1, ReplayCases DEF ImageOK, Sound
      <4> QED  BY <4>1, <4>2 DEF ImageOK
    <3> QED  BY <3>1, <3>2
  <2>3. CASE file' = Reached(k)
    BY <2>2, <2>3 DEF FileOK, Recovered
  <2>4. CASE /\ k < Len(buffer)
             /\ file' \in Pieces(Reached(k), buffer[k + 1].record)
    <3>1. l = Empty => Sound(Replay(s, buffer[k + 1].record))
      <4> SUFFICES ASSUME l = Empty PROVE Sound(Replay(s, buffer[k + 1].record))
        OBVIOUS
      <4>1. k + 1 \in DOMAIN buffer /\ (k + 1) - 1 = k
        BY <2>1, <2>4
      <4>2. ImageOK(k + 1)
        BY <2>1, <2>2, <4>1 DEF MirrorOK
      <4> QED  BY <2>2, <4>1, <4>2 DEF ImageOK
    <3> QED  BY <2>2, <2>4, <3>1, PieceIsSound
  <2> QED  BY <1>2, <2>3, <2>4
<1> QED  BY <1>1, <1>2, <1>3 DEF Mirrored

\* A restart takes over what the file replays to.
LEMMA RestartKeeps ==
  ASSUME WalInvariant, Restart
  PROVE  Mirrored'
<1>1. /\ ~up /\ buffer = << >> /\ UNCHANGED diskVars /\ todo' = NoEntries
      /\ currentTerm' = Recovered.term /\ votedFor' = Recovered.vote
      /\ log' = Recovered.log
  BY DEF Restart, WalInvariant, Mirrored
<1>2. ASSUME ~welded PROVE FileOK' /\ Sound(Memory') /\ TodoOK' /\ MirrorOK'
  <2>1. FileOK /\ Sound(Recovered) /\ Recovered \in State
    BY <1>2 DEF WalInvariant, Mirrored, FileOK, Sound
  <2>2. Memory' = Recovered
    BY <1>1, <2>1 DEF Memory, State
  <2>3. FileOK' /\ Recovered' = Recovered /\ buffer' = << >>
    BY <1>1, <2>1, DiskStays DEF diskVars
  <2> QED  BY <1>1, <2>1, <2>2, <2>3, NothingToDo, NothingPending
<1> QED  BY <1>1, <1>2 DEF WalInvariant, Mirrored, diskVars

-----------------------------------------------------------------------------
\* Every step keeps the invariant.
LEMMA NextKeepsInvariant == WalInvariant /\ [Next]_vars => WalInvariant'
<1> SUFFICES ASSUME WalInvariant, [Next]_vars PROVE Mirrored'
  BY WalTypeStep DEF WalInvariant
<1>0. /\ currentTerm \in Nat
      /\ None \in Voter /\ Self \in Voter /\ Other \in SUBSET Voter
      /\ MaxTerm \in Nat
  BY WalAssumption DEF WalInvariant, WalTypeOK, Voter
<1>1. CASE BecomeFollower
  <2>1. PICK t \in (currentTerm + 1) .. MaxTerm : SetTermVote(t, None)
    BY <1>1 DEF BecomeFollower
  <2>2. ~welded => t \in Nat
    BY <1>0, <1>1 DEF BecomeFollower
  <2> QED  BY <1>0, <1>1, <2>1, <2>2, SetTermVoteKeeps DEF BecomeFollower
<1>2. CASE BecomeCandidate
  <2>1. ~welded => currentTerm + 1 \in Nat
    BY <1>0, <1>2 DEF BecomeCandidate
  <2> QED  BY <1>0, <1>2, <2>1, SetTermVoteKeeps DEF BecomeCandidate
<1>3. CASE BecomeLeader
  <2>1. UNCHANGED <<up, termVars, log, diskVars, todo>> /\ todo = NoEntries
    BY <1>3 DEF BecomeLeader, Idle
  <2>2. TodoOK'
    BY <2>1, NothingToDo
  <2> QED  BY <2>1, <2>2, MirrorStays DEF WalInvariant
<1>4. CASE GrantVote
  <2>1. PICK c \in Other : SetTermVote(currentTerm, c)
    BY <1>4 DEF GrantVote
  <2> QED  BY <1>0, <1>4, <2>1, SetTermVoteKeeps DEF GrantVote
<1>5. CASE ExecuteCommand
  BY <1>5, ExecuteCommandKeeps
<1>6. CASE BeginAppend
  BY <1>6, BeginAppendKeeps
<1>7. CASE SkipEntry
  BY <1>7, SkipEntryKeeps
<1>8. CASE CutLog
  BY <1>8, CutLogKeeps
<1>9. CASE ExtendLog
  BY <1>9, ExtendLogKeeps
<1>10. CASE Crash
  BY <1>10, CrashKeeps
<1>11. CASE Restart
  BY <1>11, RestartKeeps
<1>12. CASE UNCHANGED vars
  <2>1. UNCHANGED <<up, termVars, log, diskVars, todo>>
    BY <1>12 DEF vars
  <2>2. TodoOK => TodoOK'
    BY <2>1 DEF TodoOK, termVars
  <2>3. up /\ ~welded => TodoOK
    BY DEF WalInvariant, Mirrored
  <2> QED  BY <2>1, <2>2, <2>3, MirrorStays DEF WalInvariant
<1> QED  BY <1>1, <1>2, <1>3, <1>4, <1>5, <1>6, <1>7, <1>8, <1>9, <1>10, <1>11,
            <1>12 DEF Next

\* Every behaviour of the node keeps memory, file and buffer in step: what the
\* file will replay to once it has taken the buffer is what is in memory, unless
\* a record was written behind a torn one.
THEOREM WalInvariantAlways == Spec => []WalInvariant
<1>1. Init => WalInvariant
  BY InitInvariant
<1>2. WalInvariant /\ [Next]_vars => WalInvariant'
  BY NextKeepsInvariant
<1> QED  BY <1>1, <1>2, PTL DEF Spec

\* Whenever a handler has returned and no failed write is waiting in the
\* buffer, what the file replays to is what the node has in memory: the next
\* recovery takes back no term, vote or entry that an RPC was answered from,
\* whichever records were torn or failed before, as long as none was written
\* behind a torn one.
THEOREM DurableUnlessPendingAlways == Spec => []DurableUnlessPending
<1>1. WalInvariant => DurableUnlessPending
  BY DEF WalInvariant, Mirrored, MirrorOK, DurableUnlessPending, Idle
<1> QED  BY <1>1, WalInvariantAlways, PTL

-----------------------------------------------------------------------------
\* Where no record is torn and no write fails, there is nothing to be behind.
LEMMA CleanFile ==
  ASSUME MaxTorn = 0, MaxFailed = 0
  PROVE  Spec => [](/\ torn = 0 /\ failed = 0 /\ buffer = << >>
                    /\ file.tail = Empty /\ ~welded)
<1> DEFINE Clean == /\ torn = 0 /\ failed = 0 /\ buffer = << >>
                    /\ file.tail = Empty /\ ~welded
<1>1. Init => Clean
  BY DEF Init
<1>2. Clean /\ [Next]_vars => Clean'
  <2> SUFFICES ASSUME Clean, [Next]_vars PROVE Clean'
    OBVIOUS
  <2>1. ASSUME NEW record, Write(record) PROVE Clean'
    <3>1. WriteWhole(record)
      BY <2>1 DEF Write, WriteFails, DieWriting
    <3>2. EndLine(Flushed, record).tail = Empty
      BY DEF EndLine
    <3> QED  BY <3>1, <3>2 DEF WriteWhole
  <2>2. CASE \/ BecomeFollower \/ BecomeCandidate \/ GrantVote
             \/ ExecuteCommand \/ CutLog \/ ExtendLog
    <3>1. \E record : Write(record)
      BY <2>2 DEF BecomeFollower, BecomeCandidate, GrantVote, SetTermVote,
                  ExecuteCommand, AppendToLog, CutLog, ExtendLog
    <3> QED  BY <2>1, <3>1
  <2>3. CASE BecomeLeader \/ BeginAppend \/ SkipEntry \/ Restart
    BY <2>3 DEF BecomeLeader, BeginAppend, SkipEntry, Restart, diskVars
  <2>4. CASE Crash
    <3>1. Len(buffer) = 0
      OBVIOUS
    <3>2. PICK k \in 0 .. Len(buffer) :
            /\ \/ file' = Reached(k) /\ UNCHANGED torn
               \/ k < Len(buffer)
            /\ welded' = (welded \/ (k > 0 /\ file.tail # Empty))
      BY <2>4 DEF Crash
    <3>3. k = 0 /\ ~(k < Len(buffer)) /\ Reached(k) = file
      BY <3>1, <3>2 DEF Reached
    <3> QED  BY <2>4, <3>2, <3>3 DEF Crash
  <2>5. CASE UNCHANGED vars
    BY <2>5 DEF vars, diskVars
  <2> QED  BY <2>2, <2>3, <2>4, <2>5 DEF Next
<1> QED  BY <1>1, <1>2, PTL DEF Spec

\* Without torn and failed writes the promise of wal.py holds as it stands:
\* currentTerm, votedFor and the log are durable before an RPC is answered.
THEOREM MemoryIsDurableWhenWritesAreWhole ==
  ASSUME MaxTorn = 0, MaxFailed = 0
  PROVE  Spec => []MemoryIsDurable
<1>1. DurableUnlessPending /\ buffer = << >> /\ ~welded => MemoryIsDurable
  BY DEF DurableUnlessPending, MemoryIsDurable
<1> QED  BY <1>1, DurableUnlessPendingAlways, CleanFile, PTL

-----------------------------------------------------------------------------
\* A write that begins behind complete lines leaves a file that replays to
\* memory as it was, or as it is now.
LEMMA WriteLeavesEither ==
  ASSUME WalInvariant, up, NEW record, Write(record),
         buffer = << >>, file.tail = Empty, ~welded,
         Sound(Memory'), Replay(Memory, record) = Memory'
  PROVE  Recovered = Memory /\ Recovered' \in {Memory, Memory'}
<1>1. /\ Flushed = [done |-> Memory, tail |-> Empty] /\ Flushed = file
      /\ Recovered = Memory /\ Sound(Memory)
  BY FlushedIsMemory DEF WalInvariant, Mirrored, MirrorOK
<1>2. EndLine(Flushed, record) = [done |-> Memory', tail |-> Empty]
  BY <1>1, EndLineBehindEmpty
<1>3. CASE file' = EndLine(Flushed, record)
  BY <1>1, <1>2, <1>3, FileShape
<1>4. CASE UNCHANGED file
  BY <1>1, <1>4 DEF Recovered
<1>5. CASE file' \in Pieces(Flushed, record)
  <2>1. PICK t : /\ file' = [Flushed EXCEPT !.tail = t]
                 /\ t = Corrupt \/ t = record
    BY <1>5, Zenon DEF Pieces
  <2>2. file' = [done |-> Memory, tail |-> t]
    BY <1>1, <2>1
  <2>3. file'.done = Memory /\ file'.tail = t
    BY <2>2
  <2>4. Replay(Memory, Corrupt) = Memory
    BY <1>1, ReplayCases DEF Sound
  <2> QED  BY <1>1, <2>1, <2>3, <2>4 DEF Recovered
<1> QED  BY <1>1, <1>3, <1>4, <1>5 DEF Write, WriteWhole, WriteFails, DieWriting

\* The variables of DurableState are the fields of what recovery returns.
LEMMA DurableFields ==
  ASSUME Recovered = Memory
  PROVE  /\ Recovered.term = currentTerm /\ Recovered.vote = votedFor
         /\ Recovered.log = log
         /\ Recovered' = Memory' =>
              /\ Recovered'.term = currentTerm' /\ Recovered'.vote = votedFor'
              /\ Recovered'.log = log'
         /\ Recovered' = Memory =>
              UNCHANGED <<Recovered.term, Recovered.vote, Recovered.log>>
<1>1. /\ Memory.term = currentTerm /\ Memory.vote = votedFor
      /\ Memory.log = log
  BY DEF Memory
<1>2. /\ Memory'.term = currentTerm' /\ Memory'.vote = votedFor'
      /\ Memory'.log = log'
  BY DEF Memory
<1> QED  BY <1>1, <1>2

\* A term or a vote that becomes durable.
LEMMA SetTermVoteIsDurable ==
  ASSUME WalInvariant, Idle, buffer = << >>, file.tail = Empty, ~welded,
         NEW t \in Nat, NEW v \in Voter, SetTermVote(t, v),
         t > currentTerm \/ (t = currentTerm /\ v # None /\ votedFor \in {None, v})
  PROVE  [Durable!Next]_(Durable!vars)
<1>1. /\ up /\ log' = log /\ currentTerm' = t /\ votedFor' = v
      /\ Write(Metadata(t, v)) /\ Sound(Memory)
  BY DEF Idle, SetTermVote, WalInvariant, Mirrored
<1>2. /\ Sound(Memory') /\ currentTerm \in Nat /\ Memory \in State
      /\ Memory.log = log
  BY <1>1, MemoryFields, MemoryIsSound DEF Positioned, Memory
<1>3. Replay(Memory, Metadata(t, v)) = Memory'
  <2>1. Replay(Memory, Metadata(t, v)) = [term |-> t, vote |-> v, log |-> log]
    BY <1>2, ReplayCases
  <2> QED  BY <1>1, <2>1 DEF Memory
<1>4. Recovered = Memory /\ Recovered' \in {Memory, Memory'}
  BY <1>1, <1>2, <1>3, WriteLeavesEither
<1>5. CASE Recovered' = Memory
  BY <1>4, <1>5, DurableFields DEF Durable!vars
<1>6. CASE Recovered' = Memory'
  <2>1. /\ Recovered.term = currentTerm /\ Recovered.vote = votedFor
        /\ Recovered.log = log /\ Recovered'.term = t
        /\ Recovered'.vote = v /\ Recovered'.log = log
    BY <1>1, <1>4, <1>6, DurableFields
  <2>2. CASE t > currentTerm
    BY <2>1, <2>2 DEF Durable!Next, Durable!AdvanceTerm, Voter
  <2>3. CASE t = currentTerm /\ votedFor = v
    BY <2>1, <2>3 DEF Durable!vars
  <2>4. CASE t = currentTerm /\ votedFor = None /\ v # None
    BY <2>1, <2>4 DEF Durable!Next, Durable!CastVote, Voter
  <2> QED  BY <2>2, <2>3, <2>4
<1> QED  BY <1>4, <1>5, <1>6

\* An entry that becomes durable.
LEMMA AppendToLogIsDurable ==
  ASSUME WalInvariant, up, buffer = << >>, file.tail = Empty, ~welded,
         NEW e \in Entry, AppendToLog(e),
         e.index = Len(log) + 1, e.term <= currentTerm
  PROVE  [Durable!Next]_(Durable!vars)
<1>1. /\ log' = Append(log, e) /\ currentTerm' = currentTerm
      /\ votedFor' = votedFor /\ Write(EntryRecord(e)) /\ Sound(Memory)
  BY DEF AppendToLog, WalInvariant, Mirrored, termVars
<1>2. /\ currentTerm \in Nat /\ votedFor \in Voter
      /\ log \in Seq(Entry) /\ Positioned(log)
      /\ Memory \in State /\ Memory.log = log
      /\ Memory.term = currentTerm /\ Memory.vote = votedFor
  BY <1>1, MemoryFields DEF Memory
<1>3. Sound(Memory')
  <2>1. log' \in Seq(Entry) /\ Positioned(log)'
    BY <1>1, <1>2, LogEnds DEF Positioned
  <2> QED  BY <1>1, <1>2, <2>1, MemoryIsSound
<1>4. Replay(Memory, EntryRecord(e)) = Memory'
  <2>1. e.index > Len(Memory.log)
    BY <1>2
  <2>2. Replay(Memory, EntryRecord(e))
          = [term |-> currentTerm, vote |-> votedFor, log |-> Append(log, e)]
    BY <1>2, <2>1, ReplayCases
  <2> QED  BY <1>1, <2>2 DEF Memory
<1>5. Recovered = Memory /\ Recovered' \in {Memory, Memory'}
  BY <1>1, <1>3, <1>4, WriteLeavesEither
<1>6. CASE Recovered' = Memory
  BY <1>5, <1>6, DurableFields DEF Durable!vars
<1>7. CASE Recovered' = Memory'
  <2>1. /\ Recovered.term = currentTerm /\ Recovered.vote = votedFor
        /\ Recovered.log = log /\ Recovered'.term = currentTerm
        /\ Recovered'.vote = votedFor /\ Recovered'.log = Append(log, e)
    BY <1>1, <1>5, <1>7, DurableFields
  <2>2. e = LogEntry(Len(log) + 1, e.term) /\ e.term \in 0 .. currentTerm
    BY <1>2 DEF Entry, LogEntry
  <2>3. Durable!LogEntry(Len(log) + 1, e.term) = e
    BY <2>2 DEF Durable!LogEntry, LogEntry
  <2> QED  BY <2>1, <2>2, <2>3 DEF Durable!Next, Durable!AppendEntry
<1> QED  BY <1>5, <1>6, <1>7

\* A cut that becomes durable.
LEMMA CutLogIsDurable ==
  ASSUME WalInvariant, buffer = << >>, file.tail = Empty, ~welded, CutLog
  PROVE  [Durable!Next]_(Durable!vars)
<1> DEFINE i == Head(todo).index
<1>1. /\ up /\ i <= Len(log) /\ Looping /\ Sound(Memory)
      /\ log' = SubSeq(log, 1, i - 1) /\ currentTerm' = currentTerm
      /\ votedFor' = votedFor /\ Write(Truncate(i))
  BY DEF CutLog, Looping, WalInvariant, Mirrored, termVars
<1>2. i \in 1 .. Len(log) + 1
  BY <1>1, LoopFields
<1> HIDE DEF i
<1>3. /\ currentTerm \in Nat /\ votedFor \in Voter
      /\ log \in Seq(Entry) /\ Positioned(log) /\ i \in 1 .. Len(log)
      /\ Memory \in State /\ Memory.log = log
      /\ Memory.term = currentTerm /\ Memory.vote = votedFor
  BY <1>1, <1>2, MemoryFields DEF Memory
<1>4. Sound(Memory')
  <2>1. log' \in Seq(Entry) /\ Positioned(log)'
    BY <1>1, <1>3, LogEnds DEF Positioned
  <2> QED  BY <1>1, <1>3, <2>1, MemoryIsSound
<1>5. Replay(Memory, Truncate(i)) = Memory'
  <2>1. Replay(Memory, Truncate(i))
          = [term |-> currentTerm, vote |-> votedFor, log |-> SubSeq(log, 1, i - 1)]
    BY <1>3, ReplayCases
  <2> QED  BY <1>1, <2>1 DEF Memory
<1>6. Recovered = Memory /\ Recovered' \in {Memory, Memory'}
  BY <1>1, <1>4, <1>5, WriteLeavesEither
<1>7. CASE Recovered' = Memory
  BY <1>6, <1>7, DurableFields DEF Durable!vars
<1>8. CASE Recovered' = Memory'
  <2>1. /\ Recovered.term = currentTerm /\ Recovered.vote = votedFor
        /\ Recovered.log = log /\ Recovered'.term = currentTerm
        /\ Recovered'.vote = votedFor /\ Recovered'.log = SubSeq(log, 1, i - 1)
    BY <1>1, <1>6, <1>8, DurableFields
  <2>2. i - 1 \in 0 .. Len(log)
    BY <1>3
  <2> QED  BY <2>1, <2>2 DEF Durable!Next, Durable!TruncateLog
<1> QED  BY <1>6, <1>7, <1>8

\* Recovery implements DurableState, step by step, where no failed write is
\* pending, no torn line ends the file and none was written behind: a crash or a
\* restart changes nothing of what is durable there, and a write changes it as
\* one step of DurableState, or not at all.
THEOREM RecoverableIsDurableAlways == Spec => RecoverableIsDurable
<1>1. Init => Durable!Init
  <2> SUFFICES ASSUME Init PROVE Durable!Init
    OBVIOUS
  <2>1. /\ file.done = NoState /\ file.tail = Empty
        /\ NoState \in State
    BY DEF Init, NoState, State, Voter, NoEntries
  <2>2. Recovered = NoState
    BY <2>1, ReplayCases DEF Recovered
  <2> QED  BY <2>2 DEF Durable!Init, NoState, Durable!NoEntries, NoEntries
<1>2. WalInvariant /\ [Next]_vars
        => [buffer = << >> /\ file.tail = Empty /\ ~welded
              => Durable!Next]_(Durable!vars)
  <2> SUFFICES ASSUME WalInvariant, [Next]_vars,
                      buffer = << >>, file.tail = Empty, ~welded
               PROVE  [Durable!Next]_(Durable!vars)
    OBVIOUS
  <2>0. /\ up => currentTerm \in Nat /\ Sound(Memory)
        /\ None \in Voter /\ Self \in Voter /\ Other \in SUBSET Voter
        /\ None # Self /\ None \notin Other /\ MaxTerm \in Nat
    BY MemoryFields, WalAssumption DEF WalInvariant, Mirrored, Voter
  <2>1. CASE BecomeFollower
    <3>1. PICK t \in (currentTerm + 1) .. MaxTerm : SetTermVote(t, None)
      BY <2>1 DEF BecomeFollower
    <3>2. Idle /\ t \in Nat /\ t > currentTerm
      BY <2>0, <2>1 DEF BecomeFollower, Idle
    <3> QED  BY <2>0, <3>1, <3>2, SetTermVoteIsDurable
  <2>2. CASE BecomeCandidate
    <3>1. Idle /\ SetTermVote(currentTerm + 1, Self) /\ currentTerm \in Nat
      BY <2>0, <2>2 DEF BecomeCandidate, Idle
    <3> QED  BY <2>0, <3>1, SetTermVoteIsDurable
  <2>3. CASE GrantVote
    <3>1. PICK c \in Other : votedFor \in {None, c} /\ SetTermVote(currentTerm, c)
      BY <2>3 DEF GrantVote
    <3>2. Idle /\ currentTerm \in Nat
      BY <2>0, <2>3 DEF GrantVote, Idle
    <3> QED  BY <2>0, <3>1, <3>2, SetTermVoteIsDurable
  <2>4. CASE ExecuteCommand
    <3> DEFINE e == LogEntry(LastLogIndex(log) + 1, currentTerm)
    <3>1. up /\ AppendToLog(e)
      BY <2>4 DEF ExecuteCommand, Idle
    <3>2. log \in Seq(Entry) /\ Positioned(log) /\ currentTerm \in Nat
      BY <2>0, <3>1, MemoryFields
    <3>3. e \in Entry /\ e.index = Len(log) + 1 /\ e.term <= currentTerm
      BY <3>2, LastLogIndexIsLen, EntryFields
    <3> QED  BY <3>1, <3>3, AppendToLogIsDurable
  <2>5. CASE CutLog
    BY <2>5, CutLogIsDurable
  <2>6. CASE ExtendLog
    <3>1. Looping /\ up /\ AppendToLog(Head(todo)) /\ Head(todo).index > Len(log)
      BY <2>6 DEF ExtendLog, Looping
    <3>2. /\ Head(todo) \in Entry /\ Head(todo).index \in 1 .. Len(log) + 1
          /\ Head(todo).term <= currentTerm /\ log \in Seq(Entry)
      BY <3>1, LoopFields
    <3>3. Head(todo).index = Len(log) + 1
      BY <3>1, <3>2
    <3> QED  BY <3>1, <3>2, <3>3, AppendToLogIsDurable
  <2>7. CASE \/ BecomeLeader \/ BeginAppend \/ SkipEntry \/ Crash \/ Restart
             \/ UNCHANGED vars
    <3>1. UNCHANGED file
      <4>1. CASE Crash
        <5>1. Len(buffer) = 0
          OBVIOUS
        <5> QED  BY <4>1, <5>1 DEF Crash, Reached
      <4> QED  BY <2>7, <4>1 DEF BecomeLeader, BeginAppend, SkipEntry, Restart,
                                 vars, diskVars
    <3> QED  BY <3>1 DEF Recovered, Durable!vars
  <2> QED  BY <2>1, <2>2, <2>3, <2>4, <2>5, <2>6, <2>7 DEF Next
<1> QED  BY <1>1, <1>2, WalInvariantAlways, PTL DEF Spec, RecoverableIsDurable

-----------------------------------------------------------------------------
\* The append loop.  Its result depends on no more than types, which hold of
\* what a welded file replays to as well.

\* The position of the first entry that differs is d: the loop has cut b there
\* and has taken es from there up to position k.
Spliced(l, b, es, prev, k, d) ==
    /\ d \in Divergent(b, es) /\ d <= k + 1
    /\ prev + d - 1 <= Len(b)
    /\ l \in Seq(Entry) /\ Len(l) = prev + k
    /\ \A i \in 1 .. prev + d - 1 : l[i] = b[i]
    /\ \A i \in prev + d .. prev + k : l[i] = es[i - prev]

\* Before it, the entries agree.
AgreeBefore(b, es, prev, d) ==
    \A j \in 1 .. d - 1 : prev + j <= Len(b) /\ b[prev + j].term = es[j].term

\* What the loop has made of the log b after k of the entries es.
LoopMade(l, b, es, prev, k) ==
    \/ l = b /\ AgreeBefore(b, es, prev, k + 1)
    \/ \E d \in 1 .. Len(es) : /\ AgreeBefore(b, es, prev, d)
                               /\ Spliced(l, b, es, prev, k, d)

Continues(es, prev, b) ==
    /\ b \in Seq(Entry) /\ es \in Seq(Entry)
    /\ prev \in Nat /\ prev <= Len(b)
    /\ \A j \in DOMAIN es : es[j].index = prev + j

LEMMA LoopSkips ==
  ASSUME NEW b, NEW es, NEW prev, Continues(es, prev, b),
         NEW k \in Nat, k < Len(es), NEW l, LoopMade(l, b, es, prev, k),
         prev + k + 1 <= Len(l), l[prev + k + 1].term = es[k + 1].term
  PROVE  LoopMade(l, b, es, prev, k + 1)
<1>1. /\ Len(es) \in Nat /\ Len(b) \in Nat /\ prev \in Nat
  BY DEF Continues
<1>2. ASSUME NEW d, Spliced(l, b, es, prev, k, d) PROVE FALSE
  BY <1>1, <1>2 DEF Spliced
<1>3. l = b /\ AgreeBefore(b, es, prev, k + 1)
  BY <1>2 DEF LoopMade
<1>4. AgreeBefore(b, es, prev, (k + 1) + 1)
  <2> SUFFICES ASSUME NEW j \in 1 .. (k + 1) + 1 - 1
               PROVE  prev + j <= Len(b) /\ b[prev + j].term = es[j].term
    BY DEF AgreeBefore
  <2>1. CASE j = k + 1
    <3>1. prev + j = prev + k + 1
      BY <1>1, <2>1
    <3> QED  BY <1>3, <2>1, <3>1
  <2>2. CASE j # k + 1
    <3>1. j \in 1 .. (k + 1) - 1
      BY <2>2
    <3> QED  BY <1>3, <3>1 DEF AgreeBefore
  <2> QED  BY <2>1, <2>2
<1> QED  BY <1>3, <1>4 DEF LoopMade

LEMMA LoopCuts ==
  ASSUME NEW b, NEW es, NEW prev, Continues(es, prev, b),
         NEW k \in Nat, k < Len(es), NEW l, LoopMade(l, b, es, prev, k),
         prev + k + 1 <= Len(l), l[prev + k + 1].term # es[k + 1].term
  PROVE  LoopMade(SubSeq(l, 1, prev + k), b, es, prev, k)
<1>1. /\ Len(es) \in Nat /\ Len(b) \in Nat /\ prev \in Nat /\ b \in Seq(Entry)
      /\ k + 1 \in DOMAIN es
  BY DEF Continues
<1>2. ASSUME NEW d, Spliced(l, b, es, prev, k, d) PROVE FALSE
  BY <1>1, <1>2 DEF Spliced
<1>3. l = b /\ AgreeBefore(b, es, prev, k + 1)
  BY <1>2 DEF LoopMade
<1>4. PICK i \in Nat : i = prev + k /\ i + 1 = prev + k + 1 /\ i + 1 <= Len(b)
  BY <1>1, <1>3
<1>5. k + 1 \in Divergent(b, es)
  <2>1. es[k + 1].index = i + 1
    BY <1>1, <1>4 DEF Continues
  <2> QED  BY <1>1, <1>3, <1>4, <2>1 DEF Divergent
<1>6. PICK s \in Seq(Entry) : /\ s = SubSeq(b, 1, i) /\ Len(s) = i
                              /\ \A j \in 1 .. i : s[j] = b[j]
  <2>1. \A j \in 1 .. i : b[j] \in Entry
    BY <1>1, <1>4
  <2>2. SubSeq(b, 1, i) \in Seq(Entry)
    BY <2>1, SubSeqProperties
  <2>3. /\ Len(SubSeq(b, 1, i)) = i
        /\ \A j \in 1 .. i : SubSeq(b, 1, i)[j] = b[j]
    BY <1>1, <1>4
  <2> QED  BY <2>2, <2>3
<1>7. Spliced(s, b, es, prev, k, k + 1)
  <2>1. /\ prev + (k + 1) - 1 = i /\ prev + (k + 1) = i + 1
        /\ prev + k = i
    BY <1>1, <1>4
  <2>2. \A j \in prev + (k + 1) .. prev + k : s[j] = es[j - prev]
    BY <1>4, <2>1
  <2> QED  BY <1>4, <1>5, <1>6, <2>1, <2>2 DEF Spliced
<1>8. k + 1 \in 1 .. Len(es)
  BY <1>1
<1> QED  BY <1>3, <1>4, <1>6, <1>7, <1>8 DEF LoopMade

LEMMA LoopExtends ==
  ASSUME NEW b, NEW es, NEW prev, Continues(es, prev, b),
         NEW k \in Nat, k < Len(es), NEW l, LoopMade(l, b, es, prev, k),
         ~(prev + k + 1 <= Len(l))
  PROVE  LoopMade(Append(l, es[k + 1]), b, es, prev, k + 1)
<1>1. /\ Len(es) \in Nat /\ Len(b) \in Nat /\ prev \in Nat /\ b \in Seq(Entry)
      /\ k + 1 \in DOMAIN es /\ es[k + 1] \in Entry
  BY DEF Continues
<1>2. PICK i \in Nat, e \in Entry : i = prev + k /\ e = es[k + 1]
  BY <1>1
<1>3. ASSUME NEW d, d \in 1 .. Len(es), Spliced(l, b, es, prev, k, d)
      PROVE  Spliced(Append(l, e), b, es, prev, k + 1, d)
  <2>1. l \in Seq(Entry) /\ Len(l) = i /\ d \in Nat
    BY <1>2, <1>3 DEF Spliced
  <2>2. PICK s \in Seq(Entry) : /\ s = Append(l, e) /\ Len(s) = i + 1
                                /\ \A j \in 1 .. i : s[j] = l[j]
                                /\ s[i + 1] = e
    BY <2>1, AppendProperties
  <2>3. prev + (k + 1) = i + 1 /\ prev + d - 1 <= i /\ d <= (k + 1) + 1
    BY <1>1, <1>2, <1>3, <2>1 DEF Spliced
  <2>4. \A j \in 1 .. prev + d - 1 : s[j] = b[j]
    BY <1>1, <1>3, <2>1, <2>2, <2>3 DEF Spliced
  <2>5. ASSUME NEW j \in prev + d .. i + 1 PROVE s[j] = es[j - prev]
    <3>1. CASE j = i + 1
      <4>1. j - prev = k + 1
        BY <1>1, <1>2, <3>1
      <4> QED  BY <1>2, <2>2, <3>1, <4>1
    <3>2. CASE j # i + 1
      <4>1. j \in prev + d .. prev + k /\ j \in 1 .. i
        BY <1>1, <1>2, <1>3, <2>1, <2>5, <3>2
      <4> QED  BY <1>3, <2>2, <4>1 DEF Spliced
    <3> QED  BY <3>1, <3>2
  <2> QED  BY <1>3, <2>2, <2>3, <2>4, <2>5 DEF Spliced
<1>4. ASSUME l = b, AgreeBefore(b, es, prev, k + 1)
      PROVE  Spliced(Append(l, e), b, es, prev, k + 1, k + 1)
  <2>1. i <= Len(b)
    <3>1. CASE k = 0
      BY <1>1, <1>2, <3>1 DEF Continues
    <3>2. CASE k # 0
      <4>1. k \in 1 .. (k + 1) - 1
        BY <3>2
      <4> QED  BY <1>2, <1>4, <4>1 DEF AgreeBefore
    <3> QED  BY <3>1, <3>2
  <2>2. Len(b) = i
    BY <1>1, <1>2, <1>4, <2>1
  <2>3. PICK s \in Seq(Entry) : /\ s = Append(b, e) /\ Len(s) = i + 1
                                /\ \A j \in 1 .. i : s[j] = b[j]
                                /\ s[i + 1] = e
    BY <1>1, <2>2, AppendProperties
  <2>4. k + 1 \in Divergent(b, es)
    <3>1. es[k + 1].index = i + 1
      BY <1>1, <1>2 DEF Continues
    <3> QED  BY <1>1, <2>2, <3>1 DEF Divergent
  <2>5. prev + (k + 1) = i + 1 /\ prev + (k + 1) - 1 = i
    BY <1>1, <1>2
  <2>6. ASSUME NEW j \in i + 1 .. i + 1 PROVE s[j] = es[j - prev]
    <3>1. j = i + 1 /\ j - prev = k + 1
      BY <1>1, <1>2
    <3> QED  BY <1>2, <2>3, <3>1
  <2> QED  BY <1>4, <2>2, <2>3, <2>4, <2>5, <2>6 DEF Spliced
<1>5. k + 1 \in 1 .. Len(es)
  BY <1>1
<1> QED  BY <1>2, <1>3, <1>4, <1>5 DEF LoopMade

LEMMA LoopIsDone ==
  ASSUME NEW b, NEW es, NEW prev, Continues(es, prev, b),
         NEW l, LoopMade(l, b, es, prev, Len(es))
  PROVE  l = AppendLoop(b, es)
<1>1. /\ Len(es) \in Nat /\ Len(b) \in Nat /\ prev \in Nat
      /\ b \in Seq(Entry) /\ es \in Seq(Entry) /\ DOMAIN es = 1 .. Len(es)
      /\ \A j \in DOMAIN es : es[j].index = prev + j
  BY DEF Continues
<1>2. ASSUME NEW d \in Nat, AgreeBefore(b, es, prev, d),
             NEW j \in 1 .. d - 1, j \in Divergent(b, es)
      PROVE  FALSE
  <2>1. j \in DOMAIN es
    BY <1>2 DEF Divergent
  <2>2. /\ es[j].index = prev + j /\ prev + j <= Len(b)
        /\ b[prev + j].term = es[j].term
    BY <1>1, <1>2, <2>1 DEF AgreeBefore
  <2>3. PICK i \in Int : i = prev + j
    BY <1>1
  <2> QED  BY <1>1, <1>2, <2>2, <2>3 DEF Divergent
<1>3. CASE l = b /\ AgreeBefore(b, es, prev, Len(es) + 1)
  <2>1. Len(es) + 1 \in Nat /\ 1 .. (Len(es) + 1) - 1 = 1 .. Len(es)
    BY <1>1
  <2>2. \A j \in 1 .. Len(es) : j \notin Divergent(b, es)
    BY <1>2, <1>3, <2>1
  <2>3. Divergent(b, es) = {}
    BY <1>1, <2>2 DEF Divergent
  <2> QED  BY <1>3, <2>3 DEF AppendLoop
<1>4. ASSUME NEW d \in 1 .. Len(es), AgreeBefore(b, es, prev, d),
             Spliced(l, b, es, prev, Len(es), d)
      PROVE  l = AppendLoop(b, es)
  <2>1. prev \in 0 .. Len(b) /\ Divergent(b, es) # {}
    BY <1>1, <1>4 DEF Continues, Spliced
  <2>2. PICK first \in 1 .. Len(es) :
          /\ AgreeBefore(b, es, prev, first)
          /\ first \in Divergent(b, es)
          /\ prev + first - 1 \in 0 .. Len(b)
          /\ AppendLoop(b, es) = SubSeq(b, 1, prev + first - 1)
                                   \o SubSeq(es, first, Len(es))
    BY <1>1, <2>1, FirstDivergent DEF AgreeBefore
  <2>3. d = first
    <3>1. d \in Nat /\ first \in Nat /\ d \in Divergent(b, es)
      BY <1>4 DEF Spliced
    <3>2. ~(d < first)
      <4> SUFFICES ASSUME d < first PROVE FALSE
        OBVIOUS
      <4>1. d \in 1 .. first - 1
        BY <3>1
      <4> QED  BY <1>2, <2>2, <3>1, <4>1
    <3>3. ~(first < d)
      <4> SUFFICES ASSUME first < d PROVE FALSE
        OBVIOUS
      <4>1. first \in 1 .. d - 1
        BY <3>1
      <4> QED  BY <1>2, <1>4, <2>2, <3>1, <4>1
    <3> QED  BY <3>1, <3>2, <3>3
  <2>4. PICK cut \in 0 .. Len(b) : cut = prev + d - 1
    BY <2>2, <2>3
  <2>5. PICK r \in Seq(Entry) :
          /\ r = AppendLoop(b, es)
          /\ Len(r) = cut + Len(es) - d + 1
          /\ \A i \in 1 .. Len(r) :
               r[i] = IF i <= cut THEN b[i] ELSE es[i - cut + d - 1]
    <3>1. AppendLoop(b, es) = SubSeq(b, 1, cut) \o SubSeq(es, d, Len(es))
      BY <2>2, <2>3, <2>4
    <3> QED  BY <1>1, <3>1, PrefixThenSuffix
  <2>6. l \in Seq(Entry) /\ Len(l) = prev + Len(es)
    BY <1>4 DEF Spliced
  <2>7. Len(r) = Len(l)
    BY <1>1, <2>4, <2>5, <2>6
  <2>8. ASSUME NEW i \in 1 .. Len(l) PROVE l[i] = r[i]
    <3>1. CASE i <= cut
      <4>1. i \in 1 .. prev + d - 1
        BY <2>4, <3>1
      <4>2. l[i] = b[i]
        BY <1>4, <4>1 DEF Spliced
      <4> QED  BY <2>5, <2>7, <3>1, <4>2
    <3>2. CASE i > cut
      <4>1. i \in prev + d .. prev + Len(es) /\ i - cut + d - 1 = i - prev
        BY <1>1, <2>4, <2>6, <3>2
      <4>2. l[i] = es[i - prev]
        BY <1>4, <4>1 DEF Spliced
      <4>3. r[i] = es[i - cut + d - 1]
        <5>1. i \in 1 .. Len(r) /\ ~(i <= cut)
          BY <2>4, <2>7, <3>2
        <5> QED  BY <2>5, <5>1
      <4> QED  BY <4>1, <4>2, <4>3
    <3> QED  BY <2>4, <3>1, <3>2
  <2>9. l = r
    BY <2>6, <2>7, <2>8, SeqEqual
  <2> QED  BY <2>5, <2>9
<1> QED  BY <1>1, <1>3, <1>4 DEF LoopMade

\* What is left of the request, of which the loop has passed k entries.
Left(es, k) ==
    /\ Len(todo) = Len(es) - k
    /\ \A j \in 1 .. Len(es) - k : todo[j] = es[k + j]

LoopAt(b, es, prev, k) ==
    /\ Continues(es, prev, b) /\ k < Len(es)
    /\ LoopMade(log, b, es, prev, k)
    /\ Left(es, k)

LoopInvariant ==
    Looping => \E prev, k \in Nat : LoopAt(request.before, request.entries, prev, k)

LEMMA HeadLeft ==
  ASSUME WalTypeOK, Looping, NEW b, NEW es, NEW prev \in Nat, NEW k \in Nat,
         LoopAt(b, es, prev, k)
  PROVE  /\ Head(todo) = es[k + 1] /\ Head(todo).index = prev + k + 1
         /\ Tail(todo) = NoEntries => k + 1 = Len(es)
         /\ Tail(todo) # NoEntries =>
              k + 1 < Len(es) /\ (todo' = Tail(todo) => Left(es, k + 1)')
<1>1. /\ todo \in Seq(Entry) /\ todo # << >> /\ Len(todo) = Len(es) - k
      /\ \A j \in 1 .. Len(es) - k : todo[j] = es[k + j]
      /\ Len(es) \in Nat /\ es \in Seq(Entry)
      /\ \A j \in DOMAIN es : es[j].index = prev + j
  BY DEF WalTypeOK, Looping, NoEntries, LoopAt, Left, Continues
<1>2. 1 \in 1 .. Len(es) - k /\ Head(todo) = todo[1] /\ k + 1 \in DOMAIN es
  BY <1>1
<1>3. Head(todo) = es[k + 1] /\ es[k + 1].index = prev + (k + 1)
  BY <1>1, <1>2
<1>4. /\ Tail(todo) \in Seq(Entry) /\ Len(Tail(todo)) = Len(todo) - 1
      /\ \A j \in 1 .. Len(todo) - 1 : Tail(todo)[j] = todo[j + 1]
  BY <1>1
<1>5. ASSUME Tail(todo) = NoEntries PROVE k + 1 = Len(es)
  <2> SUFFICES ASSUME k + 1 # Len(es) PROVE FALSE
    OBVIOUS
  <2>1. PICK t \in Seq(Entry) : t = Tail(todo) /\ Len(t) = Len(todo) - 1
    BY <1>4, Zenon
  <2>2. k < Len(es)
    BY DEF LoopAt
  <2>3. 1 \in DOMAIN t
    BY <1>1, <2>1, <2>2
  <2>4. DOMAIN t = {}
    BY <1>5, <2>1 DEF NoEntries
  <2> QED  BY <2>3, <2>4
<1>6. Tail(todo) # NoEntries => k + 1 < Len(es)
  BY <1>1, <1>4 DEF NoEntries
<1>7. ASSUME todo' = Tail(todo) PROVE Left(es, k + 1)'
  <2>1. Len(todo') = Len(es) - (k + 1)
    BY <1>1, <1>4, <1>7
  <2>2. ASSUME NEW j \in 1 .. Len(es) - (k + 1)
        PROVE  todo'[j] = es[(k + 1) + j]
    <3>1. /\ j \in 1 .. Len(todo) - 1 /\ j + 1 \in 1 .. Len(es) - k
          /\ (k + 1) + j = k + (j + 1)
      BY <1>1
    <3>2. todo'[j] = todo[j + 1]
      BY <1>4, <1>7, <3>1
    <3>3. todo[j + 1] = es[k + (j + 1)]
      BY <1>1, <3>1
    <3> QED  BY <3>1, <3>2, <3>3
  <2> QED  BY <2>1, <2>2 DEF Left
<1> QED  BY <1>1, <1>3, <1>5, <1>6, <1>7

\* What a pass of the loop does: it ends with AppendLoop, is ended by a write
\* that raises or a crash, or goes on.
LEMMA PassKeepsLoop ==
  ASSUME WalTypeOK, LoopInvariant, SkipEntry \/ CutLog \/ ExtendLog
  PROVE  /\ LoopInvariant'
         /\ up' /\ todo' = NoEntries /\ ~Raised =>
              log' = AppendLoop(request.before, request.entries)
<1>1. Looping /\ request' = request
  BY DEF SkipEntry, CutLog, ExtendLog, AppendToLog
<1>2. PICK b, es : b = request.before /\ es = request.entries
  OBVIOUS
<1>3. PICK prev \in Nat, k \in Nat : LoopAt(b, es, prev, k)
  BY <1>1, <1>2 DEF LoopInvariant
<1>4. /\ Head(todo) = es[k + 1] /\ Head(todo).index = prev + k + 1
      /\ Tail(todo) = NoEntries => k + 1 = Len(es)
      /\ Tail(todo) # NoEntries =>
           k + 1 < Len(es) /\ (todo' = Tail(todo) => Left(es, k + 1)')
  BY <1>1, <1>3, HeadLeft
<1>5. /\ Continues(es, prev, b) /\ k < Len(es)
      /\ LoopMade(log, b, es, prev, k) /\ Left(es, k)
  BY <1>3 DEF LoopAt
<1>6. ASSUME todo' = NoEntries, Raised PROVE LoopInvariant'
  BY <1>6 DEF LoopInvariant, Looping
<1>7. ASSUME todo' = Tail(todo), LoopMade(log', b, es, prev, k + 1)
      PROVE  /\ LoopInvariant'
             /\ todo' = NoEntries =>
                  log' = AppendLoop(request.before, request.entries)
  <2>1. CASE Tail(todo) = NoEntries
    <3>1. log' = AppendLoop(b, es)
      BY <1>4, <1>5, <1>7, <2>1, LoopIsDone
    <3> QED  BY <1>2, <1>7, <2>1, <3>1 DEF LoopInvariant, Looping
  <2>2. CASE Tail(todo) # NoEntries
    <3>1. LoopAt(b, es, prev, k + 1)'
      BY <1>4, <1>5, <1>7, <2>2 DEF LoopAt, Continues, LoopMade, AgreeBefore, Spliced
    <3>2. k + 1 \in Nat
      OBVIOUS
    <3> QED  BY <1>1, <1>2, <1>7, <2>2, <3>1, <3>2 DEF LoopInvariant
  <2> QED  BY <2>1, <2>2
<1>8. CASE SkipEntry
  <2>1. /\ prev + k + 1 <= Len(log) /\ log[prev + k + 1].term = es[k + 1].term
        /\ todo' = Tail(todo) /\ log' = log
    BY <1>4, <1>8 DEF SkipEntry, Holds
  <2>2. LoopMade(log', b, es, prev, k + 1)
    BY <1>5, <2>1, LoopSkips
  <2> QED  BY <1>7, <2>1, <2>2
<1>9. CASE CutLog
  <2>1. /\ prev + k + 1 <= Len(log) /\ log[prev + k + 1].term # es[k + 1].term
        /\ log' = SubSeq(log, 1, (prev + k + 1) - 1)
        /\ GoOn(todo) /\ todo # NoEntries
    BY <1>4, <1>9 DEF CutLog, Holds, Looping
  <2>2. (prev + k + 1) - 1 = prev + k
    OBVIOUS
  <2>3. LoopMade(log', b, es, prev, k)
    BY <1>5, <2>1, <2>2, LoopCuts
  <2>4. CASE Raised
    BY <1>6, <2>1, <2>4 DEF GoOn
  <2>5. CASE ~Raised
    <3>1. todo' = todo /\ todo' # NoEntries
      BY <2>1, <2>5 DEF GoOn
    <3>2. LoopAt(b, es, prev, k)'
      BY <1>5, <2>3, <3>1
      DEF LoopAt, Continues, LoopMade, AgreeBefore, Spliced, Left
    <3>3. LoopInvariant'
      BY <1>1, <1>2, <3>2 DEF LoopInvariant
    <3> QED  BY <3>1, <3>3
  <2> QED  BY <2>4, <2>5
<1>10. CASE ExtendLog
  <2>1. /\ ~(prev + k + 1 <= Len(log)) /\ log' = Append(log, es[k + 1])
        /\ GoOn(Tail(todo))
    <3>1. Len(log) \in Nat /\ prev + k + 1 > Len(log)
      BY <1>4, <1>10 DEF ExtendLog, WalTypeOK
    <3>2. log' = Append(log, es[k + 1]) /\ GoOn(Tail(todo))
      BY <1>4, <1>10 DEF ExtendLog, AppendToLog
    <3> QED  BY <3>1, <3>2
  <2>2. LoopMade(log', b, es, prev, k + 1)
    BY <1>5, <2>1, LoopExtends
  <2>3. CASE Raised
    BY <1>6, <2>1, <2>3 DEF GoOn
  <2>4. CASE ~Raised
    <3>1. todo' = Tail(todo)
      BY <2>1, <2>4 DEF GoOn
    <3> QED  BY <1>7, <2>2, <3>1
  <2> QED  BY <2>3, <2>4
<1> QED  BY <1>8, <1>9, <1>10

LEMMA BeginKeepsLoop ==
  ASSUME WalTypeOK, BeginAppend
  PROVE  LoopInvariant'
<1>0. PICK es : es = todo'
  OBVIOUS
<1>1. PICK b \in Seq(Entry) : b = log /\ es = todo'
  BY <1>0 DEF WalTypeOK
<1>2. PICK prev \in 0 .. Len(b) : es \in Requests(prev)
  BY <1>1 DEF BeginAppend
<1>3. Len(b) \in Nat /\ prev \in Nat /\ prev <= Len(b)
  BY <1>2
<1>4. /\ es \in Seq(Entry) /\ Len(es) >= 1 /\ Len(es) \in Nat
      /\ \A j \in DOMAIN es : es[j].index = prev + j
  BY <1>2, <1>3, RequestsType
<1>5. request' = [entries |-> es, before |-> b] /\ log' = b
  BY <1>1 DEF BeginAppend
<1>6. request'.entries = es /\ request'.before = b
  BY <1>5
<1>7. Continues(es, prev, b) /\ 0 < Len(es)
  BY <1>3, <1>4 DEF Continues
<1>8. LoopMade(b, b, es, prev, 0)
  <2>1. AgreeBefore(b, es, prev, 0 + 1)
    BY DEF AgreeBefore
  <2> QED  BY <2>1 DEF LoopMade
<1>9. Left(es, 0)'
  <2>1. Len(todo') = Len(es) - 0
    BY <1>1, <1>4
  <2>2. \A j \in 1 .. Len(es) - 0 : todo'[j] = es[0 + j]
    BY <1>1, <1>4
  <2> QED  BY <2>1, <2>2 DEF Left
<1>10. LoopAt(b, es, prev, 0)'
  BY <1>5, <1>7, <1>8, <1>9 DEF LoopAt, Continues, LoopMade, AgreeBefore, Spliced
<1> QED  BY <1>3, <1>6, <1>10 DEF LoopInvariant

LEMMA LoopStep ==
  WalTypeOK /\ LoopInvariant /\ [Next]_vars
    => /\ LoopInvariant'
       /\ Looping /\ up' /\ todo' = NoEntries /\ ~Raised =>
            log' = AppendLoop(request.before, request.entries)
<1> SUFFICES ASSUME WalTypeOK, LoopInvariant, [Next]_vars
             PROVE  /\ LoopInvariant'
                    /\ Looping /\ up' /\ todo' = NoEntries /\ ~Raised =>
                         log' = AppendLoop(request.before, request.entries)
  OBVIOUS
<1>1. CASE SkipEntry \/ CutLog \/ ExtendLog
  BY <1>1, PassKeepsLoop
<1>2. CASE BeginAppend
  BY <1>2, BeginKeepsLoop DEF BeginAppend, Idle, Looping
<1>3. CASE \/ BecomeFollower \/ BecomeCandidate \/ BecomeLeader
           \/ GrantVote \/ ExecuteCommand
  <2>1. Idle /\ UNCHANGED todo
    BY <1>3 DEF BecomeFollower, BecomeCandidate, BecomeLeader, GrantVote,
                ExecuteCommand, SetTermVote
  <2> QED  BY <2>1 DEF Idle, Looping, LoopInvariant
<1>4. CASE Crash \/ Restart
  BY <1>4 DEF Crash, Restart, Looping, LoopInvariant
<1>5. CASE UNCHANGED vars
  BY <1>5 DEF vars, Looping, LoopInvariant, LoopAt, Left
<1> QED  BY <1>1, <1>2, <1>3, <1>4, <1>5 DEF Next

\* The loop of handle_append_entries, which goes through the entries of a
\* request one by one, cuts at most once and records as it goes, leaves in the
\* log what AppendLoop says, on which RaftNode relies: for every log and
\* request, also over a log that a welded file was recovered to.
THEOREM LoopIsAppendLoopAlways == Spec => LoopIsAppendLoop
<1>1. Init => LoopInvariant
  BY DEF Init, LoopInvariant, Looping
<1>2. WalTypeOK /\ LoopInvariant /\ [Next]_vars
        => [Looping /\ up' /\ todo' = NoEntries /\ ~Raised =>
              log' = AppendLoop(request.before, request.entries)]_vars
  BY LoopStep
<1>3. WalTypeOK /\ LoopInvariant /\ [Next]_vars => LoopInvariant'
  BY LoopStep
<1> QED  BY <1>1, <1>2, <1>3, WalTypeInit, WalTypeStep, PTL
         DEF Spec, LoopIsAppendLoop
=============================================================================
