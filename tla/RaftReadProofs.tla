---------------------------- MODULE RaftReadProofs ----------------------------
(***************************************************************************)
(* What a read, whose read index covers its leader's term, may miss, for   *)
(* every set of nodes, of which one may be added, and any number of reads. *)
(*                                                                         *)
(* Every step of a cluster with reads is one of RaftNode, for RaftNode, or *)
(* a leader sends pings; what was proved of RaftNode holds over pings.     *)
(* Then: a leader has committed what it answered in its term, and what a   *)
(* quorum stored before is in its log below the entry the read index       *)
(* covers, and stays there.  What a quorum stored after it was deposed     *)
(* outvotes the read: too few nodes are left that still answer its pings   *)
(* with success.  So what was answered before, and is stored by a quorum,  *)
(* lies in the reader's log where its state machine has applied an entry;  *)
(* if it is another one, the log has lost that one since.  This happens,   *)
(* as commands are answered that no quorum stored (falsecommit.cfg).       *)
(***************************************************************************)
EXTENDS RaftRead, CompletenessProofs

\* What a read does to the rest of the cluster beyond what RaftNode does: n
\* sends pings, and the command its read waited for is over.
Pinging(n) ==
    /\ running[n] /\ role[n] = Leader
    /\ appendRequests' = appendRequests \cup Pings(n)
    /\ commands' \subseteq commands
    /\ \A e \in acked' : \/ e \in acked
                         \/ \E c \in commands :
                              c.phase = "announce" /\ c.entry = e
    /\ acked \subseteq acked'
    /\ UNCHANGED <<nodeVars, voteCalls, appendReplies, historyVars>>

Step == [Next]_vars \/ \E n \in Node : Pinging(n)

-----------------------------------------------------------------------------
LEMMA NewReadNode == \A n \in Node : NewRead(n).node = n
BY DEF NewRead

LEMMA ReadsAreSteps ==
  ASSUME TypeOK, ReadTypeOK, \A rd \in reads : running[rd.node],
         [ReadNext]_allVars
  PROVE  Step
<1>1. ASSUME NEW n \in Node, BeginRead(n) PROVE Step
  <2>1. /\ running[n] /\ role[n] = Leader
        /\ Confirm(NewRead(n))
        /\ UNCHANGED <<nodeVars, clientVars, voteCalls, appendReplies,
                       historyVars>>
    BY <1>1 DEF BeginRead, MayRead
  <2>2. Pinging(n)
    BY <2>1, NewReadNode DEF Confirm, Pinging, clientVars
  <2> QED  BY <2>2 DEF Step
<1>2. ASSUME NEW n \in Node, BeginReadWithNoop(n) PROVE Step
  <2>1. NodeStep(n)
    BY <1>2 DEF BeginReadWithNoop, NodeStep
  <2> QED  BY <2>1 DEF Step, Next
<1>3. ASSUME NEW n \in Node, ReadAlone(n) PROVE Step
  <2>1. NodeStep(n) \/ UNCHANGED vars
    BY <1>3 DEF ReadAlone, NodeStep
  <2> QED  BY <2>1 DEF Step, Next
<1>4. ASSUME NEW n \in Node, NodeStepWithReads(n) PROVE Step
  BY <1>4 DEF NodeStepWithReads, Step, Next
<1>5. ASSUME NEW c \in commands, NEW rd \in reads, NoopReturns(c, rd) PROVE Step
  <2>1. rd.node \in Node /\ running[rd.node]
    BY DEF ReadTypeOK, Read
  <2>2. CASE role[rd.node] = Leader
    <3>1. /\ ReturnTrue(c) \/ ReturnFalse(c)
          /\ Confirm(rd)
          /\ UNCHANGED <<nodeVars, voteCalls, appendReplies, historyVars>>
      BY <1>5, <2>2 DEF NoopReturns
    <3>2. /\ commands' \subseteq commands
          /\ \A e \in acked' :
               \/ e \in acked
               \/ \E d \in commands : d.phase = "announce" /\ d.entry = e
          /\ acked \subseteq acked'
      BY <3>1 DEF ReturnTrue, ReturnFalse
    <3>3. Pinging(rd.node)
      BY <2>1, <2>2, <3>1, <3>2 DEF Confirm, Pinging
    <3> QED  BY <2>1, <3>3 DEF Step
  <2>3. CASE role[rd.node] # Leader
    <3>1. CommandReturns(c)
      BY <1>5, <2>3 DEF NoopReturns, CommandReturns, appendCalls
    <3> QED  BY <3>1 DEF Step, Next, CommandStep
  <2> QED  BY <2>2, <2>3
<1>6. ASSUME NEW r \in appendReplies, PingReplyStep(r) PROVE Step
  <2>1. AppendReplyStep(r)
    BY <1>6 DEF PingReplyStep, PingSucceeds, PingFails, AppendReplyStep,
                LoseAppendReply
  <2> QED  BY <2>1 DEF Step, Next
<1>7. ASSUME NEW rd \in reads, ReadReturns(rd) \/ ReadFails(rd)
      PROVE  UNCHANGED vars
  BY <1>7 DEF ReadReturns, ReadFails
<1>8. CASE UNCHANGED allVars
  BY <1>8 DEF allVars, Step
<1>9. CASE ReadNext
  <2>1. ASSUME NEW m \in voteRequests, VoteRequestStep(m) PROVE Step
    BY <2>1 DEF Step, Next
  <2>2. ASSUME NEW r \in voteReplies, VoteReplyStep(r) PROVE Step
    BY <2>2 DEF Step, Next
  <2>3. ASSUME NEW m \in appendRequests, AppendRequestStep(m) PROVE Step
    BY <2>3 DEF Step, Next
  <2>4. ASSUME NEW r \in appendReplies, AppendReplyStep(r) PROVE Step
    BY <2>4 DEF Step, Next
  <2>5. ASSUME NEW c \in commands, CommandStepWithReads(c) PROVE Step
    BY <2>5 DEF CommandStepWithReads, Step, Next
  <2>6. ASSUME NEW rd \in reads, ReadReturns(rd) \/ ReadFails(rd) PROVE Step
    BY <1>7, <2>6 DEF Step
  <2> QED  BY <1>1, <1>2, <1>3, <1>4, <1>5, <1>6, <1>9, <2>1, <2>2, <2>3,
              <2>4, <2>5, <2>6 DEF ReadNext
<1> QED  BY <1>8, <1>9

-----------------------------------------------------------------------------
\* What holds of RaftNode holds over pings

LEMMA PingFields ==
  ASSUME TypeOK, NEW n \in Node, NEW m \in Pings(n)
  PROVE  /\ m \in AppendRequest /\ m.from = n /\ m.task = PingTask
         /\ m.to \in Peers(n) /\ m.term = currentTerm[n] /\ m.awaited
         /\ m.entries = NoEntries
<1>1. PICK p \in Peers(n) :
        m = [from |-> n, to |-> p, task |-> PingTask, term |-> currentTerm[n],
             prevLogIndex |-> LastLogIndex(log[n]),
             prevLogTerm |-> LastLogTerm(log[n]),
             entries |-> NoEntries, leaderCommit |-> commitIndex[n],
             awaited |-> TRUE]
  BY DEF Pings
<1>2. /\ p \in Node /\ PingTask \in Entry /\ currentTerm[n] \in Nat
      /\ commitIndex[n] \in Nat /\ NoEntries \in Seq(Entry)
  BY EntryFields DEF TypeOK, Peers, PingTask, NoEntries
<1>3. LastLogIndex(log[n]) \in Nat /\ LastLogTerm(log[n]) \in Nat
  <2>1. log[n] \in Seq(Entry) /\ 0 \in Nat
    BY DEF TypeOK
  <2> QED  BY <2>1, LogSummaryType
<1> QED  BY <1>1, <1>2, <1>3 DEF AppendRequest

LEMMA PingIsShort ==
  ASSUME TypeOK, NEW n \in Node, NEW m \in Pings(n)
  PROVE  Above(RequestTerms(m)) = {}
<1>1. m \in AppendRequest /\ m.entries = NoEntries
  BY PingFields
<1>2. m.prevLogIndex \in Nat /\ m.entries \in Seq(Entry)
  BY <1>1 DEF AppendRequest
<1>3. Len(m.entries) = 0
  BY <1>1 DEF NoEntries
<1>4. DOMAIN RequestTerms(m) = m.prevLogIndex .. m.prevLogIndex + Len(m.entries)
  BY <1>2, RequestTermsAre
<1>5. PICK p \in Nat : p = m.prevLogIndex /\ DOMAIN RequestTerms(m) = {p}
  <2>1. PICK p \in Nat : p = m.prevLogIndex
    BY <1>2
  <2>2. DOMAIN RequestTerms(m) = p .. p + 0
    BY <1>3, <1>4, <2>1
  <2> QED  BY <2>1, <2>2
<1> QED  BY <1>5 DEF Above

LEMMA PingingWellFormed ==
  ASSUME WellFormed, NEW n \in Node, Pinging(n) PROVE WellFormed'
<1>t. TypeOK
  BY DEF WellFormed
<1>p. /\ RolePart /\ TermPart /\ LogPart /\ CommitPart /\ LeaderPart
      /\ TallyPart /\ ClientPart /\ VotePart /\ AppendPart /\ HistoryPart
  BY WellFormedParts
<1>1. ClientPart'
  <2>1. acked' \subseteq Entry
    BY <1>p DEF Pinging, ClientPart, Command
  <2> QED  BY <1>p, <2>1 DEF Pinging, ClientPart
<1>2. AppendPart'
  <2>1. appendRequests' \subseteq AppendRequest
    BY <1>t, <1>p, PingFields DEF Pinging, AppendPart
  <2>2. \A m \in Pings(n) : DOMAIN m.entries = {}
    BY <1>t, PingFields DEF NoEntries
  <2>3. ContiguousRequests'
    BY <1>p, <2>2 DEF Pinging, AppendPart, ContiguousRequests
  <2> QED  BY <1>p, <2>1, <2>3 DEF Pinging, AppendPart
<1> QED  BY <1>1, <1>2, UnchangedParts, WellFormedParts DEF Pinging, nodeVars

LEMMA PingingElection ==
  ASSUME WellFormed, WellFormed', ElectionInvariant, NEW n \in Node, Pinging(n)
  PROVE  ElectionInvariant'
<1>t. TypeOK /\ TypeOK'
  BY DEF WellFormed
<1>1. Quiet
  BY <1>t, UnchangedQuiet
  DEF Pinging, Quiet, nodeVars, roleVars, clusterVars, termVars, tallyVars,
      voteCalls, historyVars
<1> QED  BY <1>t, <1>1, QuietStep

LEMMA PingingOneAddition ==
  ASSUME OneAddition, NEW n \in Node, Pinging(n) PROVE OneAddition'
BY DEF Pinging, OneAddition, nodeVars, roleVars, clusterVars

LEMMA PingingCompleteness ==
  ASSUME TypeOK, CompletenessInvariant, NEW n \in Node, Pinging(n)
  PROVE  CompletenessInvariant'
<1> USE DEF nodeVars, roleVars, clusterVars, termVars, logVars, voteCalls,
            historyVars
<1>1. PICK W : Ledger(W) /\ Complete(W)
  BY DEF CompletenessInvariant
<1>2. LeadersElected' /\ LogsInTerm'
  BY DEF Pinging, CompletenessInvariant, LeadersElected, LogsInTerm
<1>3. UNCHANGED <<Won, Choosable>>
  BY DEF Pinging, Won, Choosable, Clusters, MayStore
<1>4. Ledger(W)'
  <2>1. currentTerm[n] \in Won
    <3>1. <<currentTerm[n], n>> \in elected
      BY DEF Pinging, CompletenessInvariant, LeadersElected
    <3> QED  BY <3>1 DEF Won
  <2>2. \A m \in Pings(n) : /\ m.term \in Won
                            /\ Stretch(RequestTerms(m), W[m.term])
    BY <2>1, PingFields, PingIsShort DEF Stretch
  <2>3. \A m \in appendRequests : /\ m.term \in Won
                                  /\ Stretch(RequestTerms(m), W[m.term])
    BY <1>1 DEF Ledger
  <2>4. \A m \in appendRequests' : /\ m.term \in Won
                                   /\ Stretch(RequestTerms(m), W[m.term])
    BY <2>2, <2>3 DEF Pinging
  <2> QED  BY <1>1, <1>3, <2>4 DEF Pinging, Ledger
<1>5. Complete(W)'
  <2>1. VotesOfCandidates'
    BY <1>1 DEF Pinging, Complete, VotesOfCandidates
  <2>2. ChosenInLedger(W)'
    BY <1>1, <1>3 DEF Complete, ChosenInLedger
  <2>3. ChoosableKept'
    BY <1>1, <1>3 DEF Pinging, Complete, ChoosableKept, Stores
  <2>4. VotersHandOver'
    BY <1>1, <1>3 DEF Pinging, Complete, VotersHandOver, Stores
  <2> QED  BY <2>1, <2>2, <2>3, <2>4 DEF Complete
<1> QED  BY <1>2, <1>4, <1>5 DEF CompletenessInvariant

LEMMA PingingAlone ==
  ASSUME AloneInvariant, VotersAreMembers, NEW n \in Node, Pinging(n)
  PROVE  AloneInvariant'
<1> USE DEF nodeVars, roleVars, clusterVars, logVars, voteCalls
<1> SUFFICES ASSUME NEW k \in Node, members \subseteq {k}
             PROVE  /\ voteRequests' = {} /\ voteReplies' = {} /\ commands' = {}
                    /\ appendRequests' = {} /\ appendReplies' = {}
                    /\ \A e \in acked' : Stores(k, e)'
  BY DEF AloneInvariant, Pinging
<1>1. /\ voteRequests = {} /\ voteReplies = {} /\ commands = {}
      /\ appendRequests = {} /\ appendReplies = {}
      /\ \A e \in acked : Stores(k, e)
  BY DEF AloneInvariant
<1>2. Pings(n) = {}
  <2>1. n \in members
    BY DEF Pinging, VotersAreMembers
  <2> QED  BY <2>1 DEF Pings, Peers
<1>3. \A e \in acked' : Stores(k, e)'
  BY <1>1 DEF Pinging, Stores
<1> QED  BY <1>1, <1>2, <1>3 DEF Pinging

-----------------------------------------------------------------------------
\* Types

\* A read of a stopped node comes to nothing.
ReadsRun == \A rd \in reads : running[rd.node]

ReadsWellFormed == ReadTypeOK /\ ReadsRun

\* The read that goes on with the confirmation of rd.
Confirming(rd) ==
    [rd EXCEPT !.phase = "confirm", !.readIndex = commitIndex[rd.node],
               !.quorum = ConfirmQuorum, !.successCount = 1,
               !.covered = HasCommittedCurrentTerm(rd.node)]

LEMMA ReadFields ==
  \A rd \in Read : /\ rd.node \in Node /\ rd.phase \in {"noop", "confirm"}
                   /\ rd.noop \in Entry /\ rd.readIndex \in Nat
                   /\ rd.quorum \in Nat /\ rd.successCount \in Nat
                   /\ rd.covered \in BOOLEAN /\ rd.before \in SUBSET Entry
BY DEF Read

LEMMA QuorumSizeType ==
  ASSUME NEW C, IsFiniteSet(C) PROVE QuorumSize(C) \in Nat
BY FS_CardinalityType DEF QuorumSize

LEMMA MembersFinite ==
  ASSUME TypeOK PROVE members \subseteq Node /\ IsFiniteSet(members)
<1>1. members \subseteq Node
  BY DEF TypeOK
<1> QED  BY <1>1, NodeAssumption, FS_Subset

LEMMA NewReadType ==
  ASSUME TypeOK, NEW n \in Node
  PROVE  NewRead(n) \in Read /\ NewRead(n).before = acked \cap Chosen
<1>1. NewEntry(n) \in Entry
  <2>1. log[n] \in Seq(Entry) /\ currentTerm[n] \in Nat /\ 0 \in Nat
    BY DEF TypeOK
  <2>2. LastLogIndex(log[n]) \in Nat
    BY <2>1, LogSummaryType
  <2> QED  BY <2>1, <2>2, EntryFields DEF NewEntry
<1>2. acked \cap Chosen \in SUBSET Entry
  BY DEF TypeOK
<1> QED  BY <1>1, <1>2 DEF NewRead, Read

LEMMA ConfirmingType ==
  ASSUME TypeOK, NEW rd \in Read
  PROVE  /\ Confirming(rd) \in Read
         /\ Confirming(rd).node = rd.node /\ Confirming(rd).before = rd.before
         /\ Confirming(rd).phase = "confirm"
         /\ Confirming(rd).readIndex = commitIndex[rd.node]
         /\ Confirming(rd).quorum = QuorumSize(members)
         /\ Confirming(rd).successCount = 1
         /\ Confirming(rd).covered = HasCommittedCurrentTerm(rd.node)
<1>1. rd.node \in Node /\ commitIndex[rd.node] \in Nat
  BY ReadFields DEF TypeOK
<1>2. ConfirmQuorum \in Nat /\ ConfirmQuorum = QuorumSize(members)
  BY MembersFinite, QuorumSizeType DEF ConfirmQuorum
<1>3. PICK h \in BOOLEAN : h = HasCommittedCurrentTerm(rd.node)
  BY DEF HasCommittedCurrentTerm
<1>4. PICK i \in Nat, q \in Nat : i = commitIndex[rd.node] /\ q = ConfirmQuorum
  BY <1>1, <1>2
<1>5. PICK c : c = [rd EXCEPT !.phase = "confirm", !.readIndex = i,
                              !.quorum = q, !.successCount = 1, !.covered = h]
  OBVIOUS
<1>6. /\ c \in Read /\ c.node = rd.node /\ c.before = rd.before
      /\ c.phase = "confirm" /\ c.readIndex = i /\ c.quorum = q
      /\ c.successCount = 1 /\ c.covered = h
  BY <1>5 DEF Read
<1>7. Confirming(rd) = c
  BY <1>3, <1>4, <1>5, Zenon DEF Confirming
<1> QED  BY <1>2, <1>3, <1>4, <1>6, <1>7

LEMMA ConfirmReads ==
  ASSUME NEW rd, Confirm(rd)
  PROVE  reads' = (reads \ {rd}) \cup {Confirming(rd)}
BY DEF Confirm, Confirming

\* A ping of n's read succeeded.
Counted(rd, n) == IF rd.node = n /\ rd.phase = "confirm"
                  THEN [rd EXCEPT !.successCount = @ + 1] ELSE rd

LEMMA CountedType ==
  ASSUME NEW rd \in Read, NEW n
  PROVE  /\ Counted(rd, n) \in Read /\ Counted(rd, n).node = rd.node
         /\ Counted(rd, n).phase = rd.phase /\ Counted(rd, n).before = rd.before
         /\ Counted(rd, n).readIndex = rd.readIndex
         /\ Counted(rd, n).quorum = rd.quorum
         /\ Counted(rd, n).covered = rd.covered
         /\ Counted(rd, n).successCount =
              IF rd.node = n /\ rd.phase = "confirm"
              THEN rd.successCount + 1 ELSE rd.successCount
BY DEF Counted, Read

LEMMA CountReads ==
  ASSUME NEW r, PingSucceeds(r)
  PROVE  reads' = {Counted(rd, r.to) : rd \in reads}
BY DEF PingSucceeds, Counted

\* rd, which has begun now or waited for its NOOP, goes on to confirm.
GoesOn(rd) ==
    /\ rd \in reads \/ \E n \in Node : rd = NewRead(n)
    /\ running[rd.node] /\ role[rd.node] = Leader
    /\ Confirm(rd)
    /\ UNCHANGED <<nodeVars, appendReplies>>

\* What a step may do to the reads in progress.
StepsOnReads ==
    \/ \A rd \in reads' : \/ rd \in reads
                          \/ \E n \in Node : running[n] /\ rd = NewRead(n)
    \/ \E rd : GoesOn(rd)
    \/ \E r \in appendReplies : r.task = PingTask /\ PingSucceeds(r)

LEMMA StepsOfReads ==
  ASSUME ReadsRun, [ReadNext]_allVars
  PROVE  StepsOnReads
<1>1. reads' \subseteq reads => StepsOnReads
  BY DEF StepsOnReads
<1>2. CASE UNCHANGED allVars
  BY <1>1, <1>2 DEF allVars, readVars
<1>3. ASSUME NEW n \in Node, BeginRead(n) PROVE GoesOn(NewRead(n))
  BY <1>3, NewReadNode DEF BeginRead, MayRead, GoesOn
<1>4. ASSUME NEW n \in Node, BeginReadWithNoop(n) PROVE StepsOnReads
  <2>1. running[n] /\ reads' = reads \cup {NewRead(n)}
    BY <1>4 DEF BeginReadWithNoop, MayRead
  <2> QED  BY <2>1 DEF StepsOnReads
<1>5. ASSUME NEW c \in commands, NEW rd \in reads, NoopReturns(c, rd)
      PROVE  StepsOnReads
  <2>1. CASE role[rd.node] = Leader
    <3>1. running[rd.node]
      BY DEF ReadsRun
    <3>2. GoesOn(rd)
      BY <1>5, <2>1, <3>1 DEF NoopReturns, GoesOn
    <3> QED  BY <3>2 DEF StepsOnReads
  <2>2. CASE role[rd.node] # Leader
    BY <1>1, <1>5, <2>2 DEF NoopReturns, Fail, Return
  <2> QED  BY <2>1, <2>2
<1>6. CASE ReadNext
  <2>1. ASSUME NEW n \in Node, NodeStepWithReads(n) \/ ReadAlone(n)
        PROVE  reads' \subseteq reads
    BY <2>1 DEF NodeStepWithReads, ReadAlone
  <2>2. ASSUME NEW r \in appendReplies, r.task = PingTask, PingReplyStep(r)
        PROVE  StepsOnReads
    <3>1. PingSucceeds(r) \/ reads' \subseteq reads
      BY <2>2 DEF PingReplyStep, PingFails, readVars
    <3> QED  BY <1>1, <2>2, <3>1 DEF StepsOnReads
  <2>3. ASSUME NEW c \in commands, CommandStepWithReads(c)
        PROVE  reads' \subseteq reads
    BY <2>3 DEF CommandStepWithReads, readVars
  <2>4. ASSUME NEW rd \in reads, ReadReturns(rd) \/ ReadFails(rd)
        PROVE  reads' \subseteq reads
    BY <2>4 DEF ReadReturns, ReadFails, Fail, Return
  <2>5. UNCHANGED readVars => reads' \subseteq reads
    BY DEF readVars
  <2>6. \A n \in Node : BeginRead(n) => StepsOnReads
    BY <1>3 DEF StepsOnReads
  <2> QED  BY <1>1, <1>4, <1>5, <1>6, <2>1, <2>2, <2>3, <2>4, <2>5, <2>6
           DEF ReadNext
<1> QED  BY <1>2, <1>6

LEMMA ReadsKeepType ==
  ASSUME TypeOK, ReadTypeOK, ReadsRun, [ReadNext]_allVars
  PROVE  reads' \subseteq Read
<1>1. reads \subseteq Read
  BY DEF ReadTypeOK
<1>2. \A n \in Node : NewRead(n) \in Read
  BY NewReadType
<1>3. ASSUME NEW rd, GoesOn(rd) PROVE reads' \subseteq Read
  <2>1. rd \in Read
    BY <1>1, <1>2, <1>3 DEF GoesOn
  <2>2. Confirming(rd) \in Read
    BY <2>1, ConfirmingType
  <2>3. reads' = (reads \ {rd}) \cup {Confirming(rd)}
    BY <1>3, ConfirmReads DEF GoesOn
  <2> QED  BY <1>1, <2>2, <2>3
<1>4. ASSUME NEW r, PingSucceeds(r) PROVE reads' \subseteq Read
  <2>1. \A rd \in reads : Counted(rd, r.to) \in Read
    BY <1>1, CountedType
  <2> QED  BY <1>4, <2>1, CountReads
<1> QED  BY <1>1, <1>2, <1>3, <1>4, StepsOfReads DEF StepsOnReads

\* The places of v where l does not have v's entry, as in Replaced.
LEMMA ReplacedType ==
  ASSUME NEW v \in Seq(Entry), NEW l
  PROVE  {i \in DOMAIN v : ~(i \in DOMAIN l /\ l[i] = v[i])} \in SUBSET Nat
<1>1. DOMAIN v \subseteq Nat
  OBVIOUS
<1> QED  BY <1>1

LEMMA OutcomesKeepType ==
  ASSUME TypeOK, TypeOK', ReadTypeOK, [ReadNext]_allVars
  PROVE  outcomes' \subseteq Outcome
<1>1. outcomes \subseteq Outcome /\ reads \subseteq Read
  BY DEF ReadTypeOK
<1>2. ASSUME NEW rd \in reads PROVE Answer(rd) \in Outcome
  <2>1. rd.node \in Node /\ rd.covered \in BOOLEAN /\ rd.before \in SUBSET Entry
    BY <1>1, ReadFields
  <2>2. applied[rd.node] \in Seq(Entry)
    BY <2>1 DEF TypeOK
  <2>3. Replaced(rd.node) \in SUBSET Nat
    BY <2>2, ReplacedType DEF Replaced
  <2> QED  BY <2>1, <2>2, <2>3 DEF Answer, Outcome
<1>3. [success |-> FALSE] \in Outcome
  BY DEF Outcome
<1>4. ASSUME NEW n \in Node, ReadAlone(n) PROVE outcomes' \subseteq Outcome
  <2>1. applied'[n] \in Seq(Entry) /\ acked \cap Chosen \in SUBSET Entry
    BY DEF TypeOK
  <2>2. PICK h \in BOOLEAN : h = HasCommittedCurrentTerm(n)'
    BY DEF HasCommittedCurrentTerm
  <2>3. PICK lost \in SUBSET Nat : lost = Replaced(n)'
    <3>1. Replaced(n)' \in SUBSET Nat
      BY <2>1, ReplacedType DEF Replaced
    <3> QED  BY <3>1
  <2>4. outcomes' = outcomes \cup
          {[success |-> TRUE, before |-> acked \cap Chosen, covered |-> h,
            value |-> applied'[n], replaced |-> lost]}
    BY <1>4, <2>2, <2>3 DEF ReadAlone
  <2>5. [success |-> TRUE, before |-> acked \cap Chosen, covered |-> h,
         value |-> applied'[n], replaced |-> lost] \in Outcome
    BY <2>1 DEF Outcome
  <2> QED  BY <1>1, <2>4, <2>5
<1>5. ASSUME NEW rd \in reads, ReadReturns(rd) \/ ReadFails(rd)
      PROVE  outcomes' \subseteq Outcome
  <2>1. CASE ReadReturns(rd)
    <3>1. outcomes' = outcomes \cup {Answer(rd)}
      BY <2>1, Zenon DEF ReadReturns, Return
    <3> QED  BY <1>1, <1>2, <3>1
  <2>2. CASE ReadFails(rd)
    <3>1. outcomes' = outcomes \cup {[success |-> FALSE]}
      BY <2>2, Zenon DEF ReadFails, Fail, Return
    <3> QED  BY <1>1, <1>3, <3>1
  <2> QED  BY <1>5, <2>1, <2>2
<1>6. ASSUME NEW c \in commands, NEW rd \in reads, NoopReturns(c, rd)
      PROVE  outcomes' \subseteq Outcome
  BY <1>1, <1>3, <1>6 DEF NoopReturns, Fail, Return
<1>7. CASE UNCHANGED outcomes
  BY <1>1, <1>7
<1>8. CASE UNCHANGED allVars
  BY <1>7, <1>8 DEF allVars, readVars
<1>9. CASE ReadNext
  <2>1. ASSUME NEW n \in Node,
               NodeStepWithReads(n) \/ BeginRead(n) \/ BeginReadWithNoop(n)
        PROVE  UNCHANGED outcomes
    BY <2>1 DEF NodeStepWithReads, BeginRead, BeginReadWithNoop
  <2>2. ASSUME NEW r \in appendReplies, PingReplyStep(r)
        PROVE  UNCHANGED outcomes
    BY <2>2 DEF PingReplyStep, PingSucceeds, PingFails, readVars
  <2>3. ASSUME NEW c \in commands, CommandStepWithReads(c)
        PROVE  UNCHANGED outcomes
    BY <2>3 DEF CommandStepWithReads, readVars
  <2>4. UNCHANGED readVars => UNCHANGED outcomes
    BY DEF readVars
  <2> QED  BY <1>4, <1>5, <1>6, <1>7, <1>9, <2>1, <2>2, <2>3, <2>4 DEF ReadNext
<1> QED  BY <1>8, <1>9

LEMMA ReadsKeepRunning ==
  ASSUME TypeOK, ReadTypeOK, ReadsRun, [ReadNext]_allVars
  PROVE  ReadsRun'
<1> USE DEF nodeVars, roleVars, clusterVars
<1>1. ASSUME NEW n \in Node, NodeStepWithReads(n) PROVE ReadsRun'
  BY <1>1 DEF NodeStepWithReads, ReadsRun
<1>2. ASSUME UNCHANGED running PROVE ReadsRun'
  <2>1. reads \subseteq Read /\ \A n \in Node : NewRead(n) \in Read
    BY NewReadType DEF ReadTypeOK
  <2>2. ASSUME NEW rd \in reads', rd \in reads PROVE running[rd.node]
    BY <2>2 DEF ReadsRun
  <2>3. ASSUME NEW n \in Node, running[n] PROVE running[NewRead(n).node]
    BY <2>3, NewReadNode
  <2>4. ASSUME NEW rd, GoesOn(rd) PROVE ReadsRun'
    <3>1. rd \in Read /\ running[rd.node]
      BY <2>1, <2>4 DEF GoesOn
    <3>2. Confirming(rd).node = rd.node
      BY <3>1, ConfirmingType
    <3>3. running[Confirming(rd).node]
      BY <3>1, <3>2, Zenon
    <3>4. reads' = (reads \ {rd}) \cup {Confirming(rd)}
      BY <2>4, ConfirmReads DEF GoesOn
    <3> QED  BY <1>2, <3>3, <3>4 DEF ReadsRun
  <2>5. ASSUME NEW r, PingSucceeds(r) PROVE ReadsRun'
    <3>1. \A rd \in reads : Counted(rd, r.to).node = rd.node
      BY <2>1, CountedType
    <3>2. ASSUME NEW rd \in reads PROVE running[Counted(rd, r.to).node]
      <4>1. running[rd.node] /\ Counted(rd, r.to).node = rd.node
        BY <3>1 DEF ReadsRun
      <4> QED  BY <4>1, Zenon
    <3> QED  BY <1>2, <2>5, <3>2, CountReads DEF ReadsRun
  <2> QED  BY <1>2, <2>2, <2>3, <2>4, <2>5, StepsOfReads
           DEF StepsOnReads, ReadsRun
<1>3. \/ \E n \in Node : NodeStepWithReads(n)
      \/ UNCHANGED running
  <2>1. CASE UNCHANGED allVars
    BY <2>1 DEF allVars, vars
  <2>2. CASE ReadNext
    <3>1. ASSUME NEW n \in Node,
                 BeginRead(n) \/ BeginReadWithNoop(n) \/ ReadAlone(n)
          PROVE  UNCHANGED running
      BY <3>1 DEF BeginRead, BeginReadWithNoop, ReadAlone, ExecuteCommand,
                  ExecuteCommandAlone, vars
    <3>2. ASSUME NEW m \in voteRequests, VoteRequestStep(m)
          PROVE  UNCHANGED running
      BY <3>2 DEF VoteRequestStep, HandleRequestVote, LoseVoteRequest,
                  VoteCallTimesOut
    <3>3. ASSUME NEW r \in voteReplies, VoteReplyStep(r)
          PROVE  UNCHANGED running
      BY <3>3 DEF VoteReplyStep, VoteReplyIgnored, VoteReplyStepDown,
                  VoteReplyCounted, LoseVoteReply
    <3>4. ASSUME NEW m \in appendRequests, AppendRequestStep(m)
          PROVE  UNCHANGED running
      BY <3>4 DEF AppendRequestStep, RejectStaleAppend, RejectAppend,
                  AcceptAppend, FollowLeader, LoseAppendRequest,
                  AppendCallTimesOut
    <3>5. ASSUME NEW r \in appendReplies,
                 AppendReplyStep(r) \/ PingReplyStep(r)
          PROVE  UNCHANGED running
      BY <3>5 DEF AppendReplyStep, AppendReplyIgnored, AppendReplyStepDown,
                  AppendReplySuccess, AppendReplyFailure, LoseAppendReply,
                  PingReplyStep, PingSucceeds, PingFails
    <3>6. ASSUME NEW c \in commands,
                 \/ CommandStepWithReads(c)
                 \/ \E rd \in reads : NoopReturns(c, rd)
          PROVE  UNCHANGED running
      BY <3>6 DEF CommandStepWithReads, CommandStep, CommandRetry,
                  CommandCommitted, CommandPending, CommandReturns, NoopReturns
    <3>7. ASSUME NEW rd \in reads, ReadReturns(rd) \/ ReadFails(rd)
          PROVE  UNCHANGED running
      BY <3>7 DEF ReadReturns, ReadFails, vars
    <3> QED  BY <2>2, <3>1, <3>2, <3>3, <3>4, <3>5, <3>6, <3>7 DEF ReadNext
  <2> QED  BY <2>1, <2>2
<1> QED  BY <1>1, <1>2, <1>3

-----------------------------------------------------------------------------
\* What was proved of RaftNode, of a cluster with reads

LEMMA StepWellFormed == WellFormed /\ Step => WellFormed'
BY WellFormedStep, PingingWellFormed DEF Step

LEMMA ReadsWellFormedInit == ReadInit => WellFormed /\ ReadsWellFormed
BY WellFormedInit DEF ReadInit, ReadsWellFormed, ReadTypeOK, ReadsRun

LEMMA ReadsWellFormedStep ==
  WellFormed /\ ReadsWellFormed /\ [ReadNext]_allVars
    => WellFormed' /\ ReadsWellFormed'
<1> SUFFICES ASSUME WellFormed, ReadsWellFormed, [ReadNext]_allVars
             PROVE  WellFormed' /\ ReadsWellFormed'
  OBVIOUS
<1>1. TypeOK /\ ReadTypeOK /\ ReadsRun
  BY DEF WellFormed, ReadsWellFormed
<1>2. Step
  BY <1>1, ReadsAreSteps DEF ReadsRun
<1>3. WellFormed' /\ TypeOK'
  <2>1. WellFormed'
    BY <1>2, StepWellFormed
  <2> QED  BY <2>1 DEF WellFormed
<1>4. ReadTypeOK'
  BY <1>1, <1>3, ReadsKeepType, OutcomesKeepType DEF ReadTypeOK
<1>5. ReadsRun'
  BY <1>1, ReadsKeepRunning
<1> QED  BY <1>3, <1>4, <1>5 DEF ReadsWellFormed

\* A cluster with reads is well formed, and only running nodes read.
THEOREM ReadsWellFormedAlways == ReadSpec => [](WellFormed /\ ReadsWellFormed)
BY ReadsWellFormedInit, ReadsWellFormedStep, PTL DEF ReadSpec

\* Reads and what they return have their types, for every set of nodes and
\* every number of reads.
THEOREM ReadTypeCorrect == ReadSpec => []ReadTypeOK
<1>1. ReadsWellFormed => ReadTypeOK
  BY DEF ReadsWellFormed
<1> QED  BY <1>1, ReadsWellFormedAlways, PTL

\* Every step of a cluster with reads.
LEMMA ReadStep ==
  WellFormed /\ ReadsWellFormed /\ [ReadNext]_allVars => Step
BY ReadsAreSteps DEF WellFormed, ReadsWellFormed, ReadsRun

\* Who voted, what the cluster has been, and the cluster of one node.
VotersInvariant == ElectionInvariant /\ OneAddition /\ AloneInvariant

LEMMA VotersInit == ReadInit => VotersInvariant
<1>1. Init => AloneInvariant
  BY DEF Init, AloneInvariant
<1> QED  BY <1>1, ElectionInit, OneAdditionInit DEF ReadInit, VotersInvariant

LEMMA VotersStep ==
  ASSUME MaxAdds <= 1
  PROVE  WellFormed /\ WellFormed' /\ VotersInvariant /\ Step
           => VotersInvariant'
<1> SUFFICES ASSUME WellFormed, WellFormed', VotersInvariant, Step
             PROVE  VotersInvariant'
  OBVIOUS
<1>t. TypeOK /\ IndexIsPosition /\ VotersAreMembers
  BY DEF WellFormed, VotersInvariant, ElectionInvariant
<1>i. ElectionInvariant /\ OneAddition /\ AloneInvariant
  BY DEF VotersInvariant
<1>1. CASE [Next]_vars
  BY <1>t, <1>i, <1>1, ElectionStep, OneAdditionStep, AloneStep
  DEF VotersInvariant
<1>2. ASSUME NEW n \in Node, Pinging(n) PROVE VotersInvariant'
  BY <1>t, <1>i, <1>2, PingingElection, PingingOneAddition, PingingAlone
  DEF VotersInvariant
<1> QED  BY <1>1, <1>2 DEF Step

LEMMA VotersAlways ==
  ASSUME MaxAdds <= 1 PROVE ReadSpec => []VotersInvariant
<1>1. WellFormed /\ WellFormed' /\ VotersInvariant /\ Step => VotersInvariant'
  BY VotersStep
<1> QED  BY <1>1, VotersInit, ReadStep, ReadsWellFormedAlways, PTL DEF ReadSpec

\* What later leaders have, and why.
ClusterInvariant == /\ ElectionSafety /\ LaterVoterStored
                    /\ CompletenessInvariant

LEMMA ClusterStep ==
  ASSUME MaxAdds <= 1
  PROVE  WellFormed /\ WellFormed' /\ VotersInvariant
            /\ ElectionSafety /\ ElectionSafety' /\ LaterVoterStored'
            /\ CompletenessInvariant /\ Step
         => CompletenessInvariant'
<1> SUFFICES ASSUME WellFormed, WellFormed', VotersInvariant,
                    ElectionSafety, ElectionSafety', LaterVoterStored',
                    CompletenessInvariant, Step
             PROVE  CompletenessInvariant'
  OBVIOUS
<1>i. ElectionInvariant /\ OneAddition
  BY DEF VotersInvariant
<1>1. CASE [Next]_vars
  BY <1>i, <1>1, CompletenessStep
<1>2. ASSUME NEW n \in Node, Pinging(n) PROVE CompletenessInvariant'
  BY <1>2, PingingCompleteness DEF WellFormed
<1> QED  BY <1>1, <1>2 DEF Step

LEMMA ClusterAlways ==
  ASSUME MaxAdds <= 1 PROVE ReadSpec => []ClusterInvariant
<1>1. WellFormed /\ VotersInvariant => ElectionSafety /\ LaterVoterStored
  BY InvariantGivesSafety, VoterStored DEF WellFormed, VotersInvariant
<1>2. ReadInit => CompletenessInvariant
  BY CompletenessInit DEF ReadInit
<1>3. WellFormed /\ WellFormed' /\ VotersInvariant
         /\ ElectionSafety /\ ElectionSafety' /\ LaterVoterStored'
         /\ CompletenessInvariant /\ Step
      => CompletenessInvariant'
  BY ClusterStep
<1>4. ElectionSafety /\ LaterVoterStored /\ CompletenessInvariant
        => ClusterInvariant
  BY DEF ClusterInvariant
<1> QED  BY <1>1, <1>2, <1>3, <1>4, ReadStep, ReadsWellFormedAlways,
            VotersAlways, PTL DEF ReadSpec

-----------------------------------------------------------------------------
\* Leaders and what they answered

\* n is elected in t.
Wins(n, t) ==
    /\ t >= currentTerm[n]
    /\ role[n] = Candidate \/ t > currentTerm[n]
    /\ <<t, n>> \notin elected
    /\ elected' = elected \cup {<<t, n>>}
    /\ role' = [role EXCEPT ![n] = Leader]
    /\ currentTerm' = [currentTerm EXCEPT ![n] = t]

LEMMA DemotedOrElected ==
  ASSUME TypeOK, LeadersElected, [Next]_vars
  PROVE  Demoting \/ \E n \in Node, t \in Nat : Wins(n, t)
<1> DEFINE Goal == Demoting \/ \E n \in Node, t \in Nat : Wins(n, t)
<1>1. CASE UNCHANGED <<currentTerm, role, elected>>
  BY <1>1, UnchangedDemotes
<1>2. ASSUME NEW n \in Node, NEW t \in Nat, t >= currentTerm[n],
             BecomeFollower(n, t), UNCHANGED elected
      PROVE  Goal
  BY <1>2, BecomeFollowerDemotes
<1>3. ASSUME NEW n \in Node, Reborn(n), UNCHANGED <<currentTerm, elected>>
      PROVE  Goal
  BY <1>3, RebornDemotes
<1>4. ASSUME NEW n \in Node, StartElection(n) PROVE Goal
  BY <1>4, StartElectionDemotes
<1>5. ASSUME NEW n \in Node, StartElectionAlone(n) PROVE Goal
  <2>1. PICK t \in Nat : t = currentTerm[n] + 1
    BY DEF TypeOK
  <2>2. t > currentTerm[n] /\ t >= currentTerm[n]
    BY <2>1 DEF TypeOK
  <2>3. /\ currentTerm' = [currentTerm EXCEPT ![n] = @ + 1]
        /\ role' = [role EXCEPT ![n] = Leader]
        /\ elected' = elected \cup {<<t, n>>}
    BY <1>5, <2>1 DEF StartElectionAlone, BecomeCandidate, BecomeLeader
  <2>4. currentTerm' = [currentTerm EXCEPT ![n] = t]
    BY <2>1, <2>3, Zenon
  <2>5. <<t, n>> \notin elected
    BY <2>2 DEF LeadersElected, TypeOK
  <2> QED  BY <2>2, <2>3, <2>4, <2>5 DEF Wins
<1>6. ASSUME NEW m \in voteRequests, HandleRequestVote(m) PROVE Goal
  BY <1>6, HandleRequestVoteDemotes
<1>7. ASSUME NEW r \in voteReplies, VoteReplyCounted(r) PROVE Goal
  <2>0. r.to \in Node /\ currentTerm[r.to] \in Nat
    BY DEF TypeOK, VoteReply
  <2>1. PICK n \in Node, t \in Nat : n = r.to /\ t = currentTerm[n]
    BY <2>0
  <2>2. UNCHANGED currentTerm /\ role[n] = Candidate
    BY <1>7, <2>1 DEF VoteReplyCounted, ElectionGoesOn, termVars
  <2>3. CASE UNCHANGED <<role, elected>>
    BY <2>2, <2>3, UnchangedDemotes
  <2>4. CASE BecomeLeader(n, t)
    <3>1. currentTerm' = [currentTerm EXCEPT ![n] = t]
      BY <2>1, <2>2 DEF TypeOK
    <3>2. <<t, n>> \notin elected
      BY <2>1, <2>2 DEF LeadersElected
    <3>3. t >= currentTerm[n]
      BY <2>1
    <3> QED  BY <2>2, <2>4, <3>1, <3>2, <3>3 DEF BecomeLeader, Wins
  <2> QED  BY <1>7, <2>1, <2>3, <2>4 DEF VoteReplyCounted
<1> QED  BY <1>1, <1>2, <1>3, <1>4, <1>5, <1>6, <1>7, StepsOnRoles

\* Who leads after a step led before it, in the same term, or is elected now.
LEMMA LeaderStays ==
  ASSUME TypeOK, ElectionSafety', LeadersElected, Step,
         NEW n \in Node, role'[n] = Leader
  PROVE  \/ role[n] = Leader /\ currentTerm'[n] = currentTerm[n]
         \/ currentTerm'[n] \notin Won
<1>1. ASSUME NEW k \in Node, Pinging(k)
      PROVE  role[n] = Leader /\ currentTerm'[n] = currentTerm[n]
  BY <1>1 DEF Pinging, nodeVars, roleVars, termVars
<1>2. Demoting => role[n] = Leader /\ currentTerm'[n] = currentTerm[n]
  BY DEF Demoting
<1>3. ASSUME NEW k \in Node, NEW t \in Nat, Wins(k, t)
      PROVE  \/ role[n] = Leader /\ currentTerm'[n] = currentTerm[n]
             \/ currentTerm'[n] \notin Won
  <2>1. CASE k # n
    <3>1. role'[n] = role[n] /\ currentTerm'[n] = currentTerm[n]
      BY <1>3, <2>1 DEF Wins, TypeOK
    <3> QED  BY <3>1
  <2>2. CASE k = n
    <3>1. currentTerm'[n] = t
      BY <1>3, <2>2 DEF Wins, TypeOK
    <3>2. ASSUME NEW e \in elected, e[1] = t PROVE FALSE
      <4>1. e \in elected' /\ <<t, n>> \in elected' /\ <<t, n>> \notin elected
        BY <1>3, <2>2 DEF Wins
      <4>2. e[2] = n
        BY <3>2, <4>1 DEF ElectionSafety
      <4>3. e = <<e[1], e[2]>>
        <5>1. elected \subseteq Nat \X Node
          BY DEF TypeOK
        <5> QED  BY <5>1
      <4> QED  BY <3>2, <4>1, <4>2, <4>3
    <3> QED  BY <3>1, <3>2 DEF Won
  <2> QED  BY <2>1, <2>2
<1> QED  BY <1>1, <1>2, <1>3, DemotedOrElected DEF Step

\* No heartbeat loop has term 0 and no command index 0, so that pings are told
\* apart from other calls.
Numbered ==
    /\ \A n \in Node : role[n] # Follower => currentTerm[n] >= 1
    /\ \A c \in commands : c.entry.index >= 1

\* What a node stored, it stored in a term it has reached.
AcceptedInTerm ==
    \A n \in Node : \A e \in Entry :
        <<n, e>> \in accepted => e.term <= currentTerm[n]

\* The entries of commands that returned True, or are about to.
Answered == acked \cup {c.entry : c \in {d \in commands : d.phase = "announce"}}

\* Commands are submitted to who was elected in their term, and a leader that
\* answers one, or has answered it, has committed it.
AnsweredIsCommitted ==
    /\ \A c \in commands : <<c.entry.term, c.node>> \in elected
    /\ \A e \in Answered :
         /\ e.term \in Won
         /\ \A n \in Node : role[n] = Leader /\ currentTerm[n] = e.term =>
              e.index <= commitIndex[n]

LeadingInvariant == Numbered /\ AcceptedInTerm /\ AnsweredIsCommitted

LEMMA NewEntryFields ==
  ASSUME TypeOK, IndexIsPosition, NEW n \in Node
  PROVE  /\ NewEntry(n) \in Entry /\ NewEntry(n).term = currentTerm[n]
         /\ NewEntry(n).index = Len(log[n]) + 1
<1>1. PICK la \in Nat, i \in Nat :
        la = Len(log[n]) /\ LastLogIndex(log[n]) = la /\ i = la + 1
  BY NodeLogType
<1>2. currentTerm[n] \in Nat /\ NewEntry(n) = LogEntry(i, currentTerm[n])
  BY <1>1 DEF TypeOK, NewEntry
<1> QED  BY <1>1, <1>2, EntryFields

\* Where the commands in progress come from.
Continued(c) ==
    \E d \in commands :
        /\ d.node = c.node /\ d.entry = c.entry
        /\ c.phase = "announce" =>
             \/ d.phase = "announce"
             \/ /\ commitIndex[d.node] >= d.entry.index
                /\ UNCHANGED <<role, currentTerm, commitIndex, elected>>

Submitted(c) ==
    \E n \in Node : /\ ExecuteCommand(n)
                    /\ c.node = n /\ c.entry = NewEntry(n)
                    /\ c.phase = "replicate"

LEMMA MovedCommand ==
  ASSUME TypeOK, NEW c \in commands, NEW p, MoveCommand(c, p), NEW d \in commands'
  PROVE  \/ d \in commands
         \/ d.node = c.node /\ d.entry = c.entry /\ d.phase = p
<1>1. c \in Command
  BY DEF TypeOK
<1>2. PICK k : k = [c EXCEPT !.phase = p]
  OBVIOUS
<1>3. k.node = c.node /\ k.entry = c.entry /\ k.phase = p
  BY <1>1, <1>2 DEF Command
<1>4. d \in commands \/ d = k
  BY <1>2 DEF MoveCommand
<1>5. CASE d = k
  BY <1>3, <1>5, Zenon
<1> QED  BY <1>4, <1>5

LEMMA StepsOnCommands ==
  ASSUME TypeOK, Step, NEW c \in commands'
  PROVE  Continued(c) \/ Submitted(c)
<1> USE DEF nodeVars, roleVars, termVars, commitVars, clientVars, historyVars
<1>1. c \in commands => Continued(c)
  BY DEF Continued
<1>2. CASE UNCHANGED vars
  BY <1>1, <1>2 DEF vars
<1>3. ASSUME NEW n \in Node, Pinging(n) PROVE Continued(c)
  BY <1>1, <1>3 DEF Pinging
<1>4. ASSUME NEW n \in Node, NodeStep(n) PROVE Continued(c) \/ Submitted(c)
  <2>1. CASE ExecuteCommand(n)
    <3>1. \/ c \in commands
          \/ c = [node |-> n, entry |-> NewEntry(n), phase |-> "replicate",
                  live |-> TRUE]
      BY <2>1 DEF ExecuteCommand
    <3> QED  BY <1>1, <2>1, <3>1 DEF Submitted
  <2>2. CASE Stop(n)
    <3>1. PICK d \in commands : c = [d EXCEPT !.live = @ /\ d.node # n]
      BY <2>2 DEF Stop
    <3>2. c.node = d.node /\ c.entry = d.entry /\ c.phase = d.phase
      BY <3>1 DEF TypeOK, Command
    <3> QED  BY <3>2 DEF Continued
  <2>3. CASE ~ExecuteCommand(n) /\ ~Stop(n)
    BY <1>1, <1>4, <2>3
    DEF NodeStep, StartElection, StartElectionAlone, Heartbeat,
        ExecuteCommandAlone, Revive, Restart, AddNode
  <2> QED  BY <2>1, <2>2, <2>3
<1>5. ASSUME NEW d \in commands, CommandStep(d) PROVE Continued(c)
  <2>1. CASE CommandRetry(d)
    BY <1>1, <2>1, MovedCommand DEF CommandRetry, Continued
  <2>2. CASE CommandCommitted(d)
    <3>1. \/ c \in commands
          \/ d.node = c.node /\ d.entry = c.entry
      BY <2>2, MovedCommand DEF CommandCommitted
    <3>2. /\ commitIndex[d.node] >= d.entry.index
          /\ UNCHANGED <<role, currentTerm, commitIndex, elected>>
      BY <2>2 DEF CommandCommitted
    <3> QED  BY <1>1, <3>1, <3>2 DEF Continued
  <2>3. CASE CommandPending(d)
    BY <1>1, <2>3, MovedCommand DEF CommandPending, Continued
  <2>4. CASE CommandReturns(d)
    BY <1>1, <2>4 DEF CommandReturns, ReturnTrue, ReturnFalse
  <2> QED  BY <1>5, <2>1, <2>2, <2>3, <2>4 DEF CommandStep
<1>6. CASE Next
  <2>1. ASSUME NEW m \in voteRequests, VoteRequestStep(m)
        PROVE  UNCHANGED commands
    BY <2>1 DEF VoteRequestStep, HandleRequestVote, LoseVoteRequest,
                VoteCallTimesOut
  <2>2. ASSUME NEW r \in voteReplies, VoteReplyStep(r)
        PROVE  UNCHANGED commands
    BY <2>2 DEF VoteReplyStep, VoteReplyIgnored, VoteReplyStepDown,
                VoteReplyCounted, LoseVoteReply
  <2>3. ASSUME NEW m \in appendRequests, AppendRequestStep(m)
        PROVE  UNCHANGED commands
    BY <2>3 DEF AppendRequestStep, RejectStaleAppend, RejectAppend,
                AcceptAppend, FollowLeader, LoseAppendRequest,
                AppendCallTimesOut
  <2>4. ASSUME NEW r \in appendReplies, AppendReplyStep(r)
        PROVE  UNCHANGED commands
    BY <2>4 DEF AppendReplyStep, AppendReplyIgnored, AppendReplyStepDown,
                AppendReplySuccess, AppendReplyFailure, LoseAppendReply
  <2> QED  BY <1>1, <1>4, <1>5, <1>6, <2>1, <2>2, <2>3, <2>4 DEF Next
<1> QED  BY <1>2, <1>3, <1>6 DEF Step

LEMMA StepsOnAcked ==
  ASSUME Step
  PROVE  /\ acked \subseteq acked'
         /\ \A e \in acked' :
              \/ e \in Answered
              \/ \E n \in Node : ExecuteCommandAlone(n) /\ e = NewEntry(n)
<1> USE DEF clientVars
<1> DEFINE Goal == /\ acked \subseteq acked'
                   /\ \A e \in acked' :
                        \/ e \in Answered
                        \/ \E n \in Node : /\ ExecuteCommandAlone(n)
                                           /\ e = NewEntry(n)
<1>1. UNCHANGED acked => Goal
  BY DEF Answered
<1>2. CASE UNCHANGED vars
  BY <1>1, <1>2 DEF vars
<1>3. ASSUME NEW n \in Node, Pinging(n) PROVE Goal
  BY <1>3 DEF Pinging, Answered
<1>4. ASSUME NEW n \in Node, NodeStep(n) PROVE Goal
  <2>1. CASE ExecuteCommandAlone(n)
    BY <2>1 DEF ExecuteCommandAlone, Answered
  <2>2. CASE ~ExecuteCommandAlone(n)
    BY <1>1, <1>4, <2>2
    DEF NodeStep, StartElection, StartElectionAlone, Heartbeat,
        ExecuteCommand, Stop, Revive, Restart, AddNode
  <2> QED  BY <2>1, <2>2
<1>5. ASSUME NEW c \in commands, CommandStep(c) PROVE Goal
  <2>1. CASE ReturnTrue(c)
    BY <2>1 DEF ReturnTrue, Answered
  <2>2. CASE ~ReturnTrue(c)
    BY <1>1, <1>5, <2>2 DEF CommandStep, CommandRetry, CommandCommitted,
                            CommandPending, CommandReturns, ReturnFalse
  <2> QED  BY <2>1, <2>2
<1>6. CASE Next
  <2>1. ASSUME NEW m \in voteRequests, VoteRequestStep(m)
        PROVE  UNCHANGED acked
    BY <2>1 DEF VoteRequestStep, HandleRequestVote, LoseVoteRequest,
                VoteCallTimesOut
  <2>2. ASSUME NEW r \in voteReplies, VoteReplyStep(r) PROVE UNCHANGED acked
    BY <2>2 DEF VoteReplyStep, VoteReplyIgnored, VoteReplyStepDown,
                VoteReplyCounted, LoseVoteReply
  <2>3. ASSUME NEW m \in appendRequests, AppendRequestStep(m)
        PROVE  UNCHANGED acked
    BY <2>3 DEF AppendRequestStep, RejectStaleAppend, RejectAppend,
                AcceptAppend, FollowLeader, LoseAppendRequest,
                AppendCallTimesOut
  <2>4. ASSUME NEW r \in appendReplies, AppendReplyStep(r)
        PROVE  UNCHANGED acked
    BY <2>4 DEF AppendReplyStep, AppendReplyIgnored, AppendReplyStepDown,
                AppendReplySuccess, AppendReplyFailure, LoseAppendReply
  <2> QED  BY <1>1, <1>4, <1>5, <1>6, <2>1, <2>2, <2>3, <2>4 DEF Next
<1> QED  BY <1>2, <1>3, <1>6 DEF Step

LEMMA CommitGrows ==
  ASSUME WellFormed, Step, NEW n \in Node, role[n] = Leader, role'[n] = Leader
  PROVE  commitIndex'[n] >= commitIndex[n] \/ ExecuteCommandAlone(n)
<1>t. TypeOK /\ IndexIsPosition /\ commitIndex[n] \in Nat
  BY DEF WellFormed, TypeOK
<1> DEFINE Goal == \/ commitIndex'[n] >= commitIndex[n]
                   \/ ExecuteCommandAlone(n)
<1> USE DEF nodeVars, commitVars
<1>1. commitIndex'[n] = commitIndex[n] => Goal
  BY <1>t
<1>2. CASE UNCHANGED vars
  BY <1>1, <1>2 DEF vars
<1>3. ASSUME NEW k \in Node, Pinging(k) PROVE Goal
  BY <1>1, <1>3 DEF Pinging
<1>4. ASSUME NEW k \in Node, ExecuteCommandAlone(k) PROVE Goal
  <2>1. CASE k # n
    <3>1. commitIndex' = [commitIndex EXCEPT ![k] = NewEntry(k).index]
      BY <1>4 DEF ExecuteCommandAlone, CommitAndApply
    <3> QED  BY <1>t, <1>1, <2>1, <3>1 DEF TypeOK
  <2> QED  BY <1>4, <2>1
<1>5. ASSUME NEW k \in Node, Restart(k) PROVE Goal
  <2>1. k # n
    BY <1>t, <1>5 DEF Restart, Reborn, TypeOK, Follower, Leader
  <2> QED  BY <1>t, <1>1, <1>5, <2>1 DEF Restart, TypeOK
<1>6. ASSUME NEW m \in appendRequests, AcceptAppend(m) PROVE Goal
  <2>1. m.to \in Node /\ role' = [role EXCEPT ![m.to] = Follower]
    BY <1>t, <1>6, AppendRequestFields
    DEF AcceptAppend, FollowLeader, BecomeFollower
  <2>2. m.to # n
    BY <1>t, <2>1 DEF TypeOK, Follower, Leader
  <2>3. \/ \E c : commitIndex' = [commitIndex EXCEPT ![m.to] = c]
        \/ UNCHANGED commitIndex
    BY <1>6 DEF AcceptAppend, CommitAndApply
  <2> QED  BY <1>t, <1>1, <2>2, <2>3 DEF TypeOK
<1>7. ASSUME NEW r \in appendReplies, AppendReplySuccess(r) PROVE Goal
  <2>1. PICK match :
          commitIndex' = [commitIndex EXCEPT ![r.to] =
                            AdvancedCommit(r.to, match)]
    BY <1>7 DEF AppendReplySuccess, CommitAndApply
  <2>2. CASE r.to # n
    BY <1>t, <1>1, <2>1, <2>2 DEF TypeOK
  <2>3. CASE r.to = n
    <3>1. commitIndex'[n] = AdvancedCommit(n, match)
      BY <1>t, <2>1, <2>3 DEF TypeOK
    <3>2. \/ commitIndex'[n] = commitIndex[n]
          \/ commitIndex'[n] \in Committable(n, match)
      BY <1>t, <3>1, AdvancedCommitType
    <3>3. ASSUME commitIndex'[n] \in Committable(n, match) PROVE Goal
      BY <1>t, <3>3, NodeLogType DEF Committable
    <3> QED  BY <1>1, <3>2, <3>3
  <2> QED  BY <2>2, <2>3
<1>8. CASE Next
  <2>1. ASSUME NEW k \in Node, NodeStep(k)
        PROVE  ExecuteCommandAlone(k) \/ Restart(k) \/ UNCHANGED commitIndex
    BY <2>1 DEF NodeStep, StartElection, StartElectionAlone, Heartbeat,
                ExecuteCommand, Stop, Revive, AddNode
  <2>2. ASSUME NEW m \in voteRequests, VoteRequestStep(m)
        PROVE  UNCHANGED commitIndex
    BY <2>2 DEF VoteRequestStep, HandleRequestVote, LoseVoteRequest,
                VoteCallTimesOut
  <2>3. ASSUME NEW r \in voteReplies, VoteReplyStep(r)
        PROVE  UNCHANGED commitIndex
    BY <2>3 DEF VoteReplyStep, VoteReplyIgnored, VoteReplyStepDown,
                VoteReplyCounted, LoseVoteReply
  <2>4. ASSUME NEW m \in appendRequests, AppendRequestStep(m)
        PROVE  AcceptAppend(m) \/ UNCHANGED commitIndex
    BY <2>4 DEF AppendRequestStep, RejectStaleAppend, RejectAppend,
                LoseAppendRequest, AppendCallTimesOut
  <2>5. ASSUME NEW r \in appendReplies, AppendReplyStep(r)
        PROVE  AppendReplySuccess(r) \/ UNCHANGED commitIndex
    BY <2>5 DEF AppendReplyStep, AppendReplyIgnored, AppendReplyStepDown,
                AppendReplyFailure, LoseAppendReply
  <2>6. ASSUME NEW c \in commands, CommandStep(c)
        PROVE  UNCHANGED commitIndex
    BY <2>6 DEF CommandStep, CommandRetry, CommandCommitted, CommandPending,
                CommandReturns
  <2>7. UNCHANGED commitIndex => Goal
    BY <1>1
  <2> QED  BY <1>4, <1>5, <1>6, <1>7, <1>8, <2>1, <2>2, <2>3, <2>4, <2>5,
              <2>6, <2>7 DEF Next
<1> QED  BY <1>2, <1>3, <1>8 DEF Step

LEMMA TermsGrow ==
  ASSUME TypeOK, TypeOK', Step, NEW n \in Node
  PROVE  /\ currentTerm[n] \in Nat /\ currentTerm'[n] \in Nat
         /\ currentTerm'[n] >= currentTerm[n]
<1>1. currentTerm[n] \in Nat /\ currentTerm'[n] \in Nat
  BY DEF TypeOK
<1>2. ASSUME NEW k \in Node, Pinging(k) PROVE currentTerm'[n] = currentTerm[n]
  BY <1>2 DEF Pinging, nodeVars, termVars
<1>3. [Next]_vars => currentTerm'[n] >= currentTerm[n]
  BY TermsAndCandidates
<1> QED  BY <1>1, <1>2, <1>3 DEF Step

LEMMA NumberedStep ==
  ASSUME WellFormed, WellFormed', LeadersElected, Numbered, Step
  PROVE  Numbered'
<1>t. TypeOK /\ TypeOK' /\ IndexIsPosition
  BY DEF WellFormed
<1>1. ASSUME NEW n \in Node, role'[n] # Follower
      PROVE  currentTerm'[n] >= 1
  <2>1. currentTerm[n] \in Nat /\ currentTerm'[n] \in Nat
    BY <1>t DEF TypeOK
  <2>2. role[n] # Follower => currentTerm[n] >= 1
    BY DEF Numbered
  <2>3. ASSUME NEW k \in Node, Pinging(k) PROVE currentTerm'[n] >= 1
    BY <1>1, <2>2, <2>3 DEF Pinging, nodeVars, roleVars, termVars
  <2>4. CASE Demoting
    <3>1. role'[n] = Leader \/ role'[n] = Candidate
      BY <1>t, <1>1 DEF TypeOK, Role
    <3>2. \/ /\ role[n] = Leader \/ role[n] = Candidate
             /\ currentTerm'[n] = currentTerm[n]
          \/ currentTerm'[n] > currentTerm[n]
      BY <2>4, <3>1 DEF Demoting
    <3>3. role[n] = Leader \/ role[n] = Candidate => role[n] # Follower
      BY DEF Leader, Candidate, Follower
    <3> QED  BY <2>1, <2>2, <3>2, <3>3
  <2>5. ASSUME NEW k \in Node, NEW t \in Nat, Wins(k, t)
        PROVE  currentTerm'[n] >= 1
    <3>1. CASE k # n
      BY <1>t, <1>1, <2>2, <2>5, <3>1 DEF Wins, TypeOK
    <3>2. CASE k = n
      <4>1. currentTerm'[n] = t
        BY <1>t, <2>5, <3>2 DEF Wins, TypeOK
      <4>2. t >= currentTerm[n]
        BY <2>5, <3>2 DEF Wins
      <4>3. role[n] = Candidate \/ t > currentTerm[n]
        BY <2>5, <3>2 DEF Wins
      <4>4. role[n] = Candidate => role[n] # Follower
        BY DEF Candidate, Follower
      <4> QED  BY <2>1, <2>2, <4>1, <4>2, <4>3, <4>4
    <3> QED  BY <3>1, <3>2
  <2>6. ASSUME [Next]_vars PROVE currentTerm'[n] >= 1
    <3>1. Demoting \/ \E k \in Node, t \in Nat : Wins(k, t)
      BY <1>t, <2>6, DemotedOrElected
    <3> QED  BY <2>4, <2>5, <3>1
  <2> QED  BY <2>3, <2>6 DEF Step
<1>2. ASSUME NEW c \in commands' PROVE c.entry.index >= 1
  <2>1. CASE Continued(c)
    BY <2>1 DEF Continued, Numbered
  <2>2. CASE Submitted(c)
    <3>1. PICK n \in Node : c.entry = NewEntry(n)
      BY <2>2 DEF Submitted
    <3>2. NewEntry(n).index = Len(log[n]) + 1 /\ Len(log[n]) \in Nat
      BY <1>t, NewEntryFields, NodeLogType
    <3> QED  BY <3>1, <3>2
  <2> QED  BY <1>t, <2>1, <2>2, StepsOnCommands
<1> QED  BY <1>1, <1>2 DEF Numbered

LEMMA AcceptedInTermStep ==
  ASSUME WellFormed, WellFormed', AcceptedInTerm, Step
  PROVE  AcceptedInTerm'
<1>t. TypeOK /\ TypeOK'
  BY DEF WellFormed
<1> SUFFICES ASSUME NEW n \in Node, NEW e \in Entry, <<n, e>> \in accepted'
             PROVE  e.term <= currentTerm'[n]
  BY DEF AcceptedInTerm
<1>1. /\ currentTerm[n] \in Nat /\ currentTerm'[n] \in Nat
      /\ currentTerm'[n] >= currentTerm[n]
  BY <1>t, TermsGrow
<1>2. e.term \in Nat
  BY EntryFields
<1>3. CASE <<n, e>> \in accepted
  <2>1. e.term <= currentTerm[n]
    BY <1>3 DEF AcceptedInTerm
  <2> QED  BY <1>1, <1>2, <2>1
<1>4. CASE <<n, e>> \notin accepted
  <2>1. [Next]_vars
    BY <1>4 DEF Step, Pinging, nodeVars, logVars
  <2>2. e.term = currentTerm'[n]
    BY <1>4, <2>1, FreshStored
  <2> QED  BY <1>1, <2>2
<1> QED  BY <1>3, <1>4

LEMMA ElectedGrow ==
  ASSUME TypeOK, LeadersElected, Step
  PROVE  elected \subseteq elected'
<1>1. ASSUME NEW n \in Node, Pinging(n) PROVE elected' = elected
  BY <1>1 DEF Pinging, historyVars
<1> QED  BY <1>1, DemotedOrElected DEF Step, Demoting, Wins

LEMMA SubmittedByElected ==
  ASSUME TypeOK, IndexIsPosition, LeadersElected, AnsweredIsCommitted, Step,
         NEW c \in commands'
  PROVE  <<c.entry.term, c.node>> \in elected'
<1>1. elected \subseteq elected'
  BY ElectedGrow
<1>2. CASE Continued(c)
  BY <1>1, <1>2 DEF Continued, AnsweredIsCommitted
<1>3. CASE Submitted(c)
  <2>1. PICK n \in Node : ExecuteCommand(n) /\ c.node = n /\ c.entry = NewEntry(n)
    BY <1>3 DEF Submitted
  <2>2. c.entry.term = currentTerm[n] /\ role[n] = Leader
    BY <2>1, NewEntryFields DEF ExecuteCommand, AcceptsCommand
  <2>3. <<currentTerm[n], n>> \in elected
    BY <2>2 DEF LeadersElected
  <2> QED  BY <1>1, <2>1, <2>2, <2>3
<1> QED  BY <1>2, <1>3, StepsOnCommands

\* What was answered stays committed by who leads the command's term.
LEMMA AnsweredStays ==
  ASSUME WellFormed, WellFormed', ElectionSafety', VotersAreMembers,
         AloneInvariant, LeadersElected, AnsweredIsCommitted, Step,
         NEW e \in Answered, NEW n \in Node,
         role'[n] = Leader, currentTerm'[n] = e.term
  PROVE  e.index <= commitIndex'[n]
<1>t. TypeOK /\ TypeOK' /\ IndexIsPosition
  BY DEF WellFormed
<1>1. e.term \in Won
  BY DEF AnsweredIsCommitted
<1>2. role[n] = Leader /\ currentTerm[n] = e.term
  BY <1>t, <1>1, LeaderStays
<1>3. e.index <= commitIndex[n]
  BY <1>2 DEF AnsweredIsCommitted
<1>4. e \in Entry /\ e.index \in Nat
  <2>1. e \in Entry
    BY <1>t DEF Answered, TypeOK, Command
  <2> QED  BY <2>1, EntryFields
<1>5. CASE commitIndex'[n] >= commitIndex[n]
  <2>1. commitIndex[n] \in Nat /\ commitIndex'[n] \in Nat
    BY <1>t DEF TypeOK
  <2> QED  BY <1>3, <1>4, <1>5, <2>1
<1>6. CASE ExecuteCommandAlone(n)
  <2>1. members \subseteq {n}
    BY <1>6 DEF ExecuteCommandAlone, Peers
  <2>2. Stores(n, e)
    BY <2>1 DEF AloneInvariant, Answered
  <2>3. PICK la \in Nat, l \in Seq(Entry) : l = log[n] /\ la = Len(l)
    BY <1>t, NodeLogType
  <2>4. e.index <= la
    BY <2>2, <2>3 DEF Stores
  <2>5. commitIndex'[n] = la + 1
    <3>1. commitIndex' = [commitIndex EXCEPT ![n] = NewEntry(n).index]
      BY <1>6 DEF ExecuteCommandAlone, CommitAndApply
    <3>2. NewEntry(n).index = la + 1
      BY <1>t, <2>3, NewEntryFields
    <3> QED  BY <1>t, <3>1, <3>2 DEF TypeOK
  <2> QED  BY <1>4, <2>3, <2>4, <2>5
<1> QED  BY <1>2, <1>5, <1>6, CommitGrows

LEMMA AnsweredStep ==
  ASSUME WellFormed, WellFormed', ElectionSafety, ElectionSafety',
         VotersAreMembers, AloneInvariant, LeadersElected, LeadersElected',
         AnsweredIsCommitted, Step
  PROVE  AnsweredIsCommitted'
<1>t. TypeOK /\ TypeOK' /\ IndexIsPosition
  BY DEF WellFormed
<1>1. \A c \in commands' : <<c.entry.term, c.node>> \in elected'
  BY <1>t, SubmittedByElected
<1>2. Won \subseteq Won'
  <2>1. elected \subseteq elected'
    BY <1>t, ElectedGrow
  <2> QED  BY <2>1 DEF Won
<1>3. ASSUME NEW e \in Answered
      PROVE  /\ e.term \in Won'
             /\ \A n \in Node : role'[n] = Leader /\ currentTerm'[n] = e.term =>
                  e.index <= commitIndex'[n]
  BY <1>2, <1>3, AnsweredStays DEF AnsweredIsCommitted
<1>4. ASSUME NEW k \in Node, ExecuteCommandAlone(k)
      PROVE  /\ NewEntry(k).term \in Won'
             /\ \A n \in Node :
                  role'[n] = Leader /\ currentTerm'[n] = NewEntry(k).term =>
                    NewEntry(k).index <= commitIndex'[n]
  <2>1. /\ NewEntry(k).term = currentTerm[k] /\ NewEntry(k) \in Entry
        /\ role[k] = Leader /\ UNCHANGED <<role, currentTerm, elected>>
    BY <1>t, <1>4, NewEntryFields
    DEF ExecuteCommandAlone, AcceptsCommand, roleVars, termVars, historyVars
  <2>2. <<currentTerm[k], k>> \in elected
    BY <2>1 DEF LeadersElected
  <2>3. NewEntry(k).term \in Won'
    BY <2>1, <2>2 DEF Won
  <2>4. ASSUME NEW n \in Node, role'[n] = Leader,
               currentTerm'[n] = NewEntry(k).term
        PROVE  NewEntry(k).index <= commitIndex'[n]
    <3>1. <<currentTerm[k], n>> \in elected
      BY <2>1, <2>4 DEF LeadersElected
    <3>2. n = k
      BY <2>2, <3>1 DEF ElectionSafety
    <3>3. commitIndex' = [commitIndex EXCEPT ![k] = NewEntry(k).index]
      BY <1>4 DEF ExecuteCommandAlone, CommitAndApply
    <3>4. commitIndex'[n] = NewEntry(k).index
      BY <1>t, <3>2, <3>3 DEF TypeOK
    <3> QED  BY <2>1, <3>4, EntryFields
  <2> QED  BY <2>3, <2>4
<1>5. ASSUME NEW d \in commands, commitIndex[d.node] >= d.entry.index,
             UNCHANGED <<role, currentTerm, commitIndex, elected>>
      PROVE  /\ d.entry.term \in Won'
             /\ \A n \in Node :
                  role'[n] = Leader /\ currentTerm'[n] = d.entry.term =>
                    d.entry.index <= commitIndex'[n]
  <2>1. <<d.entry.term, d.node>> \in elected
    BY DEF AnsweredIsCommitted
  <2>2. d.entry.term \in Won'
    BY <1>2, <2>1 DEF Won
  <2>3. ASSUME NEW n \in Node, role'[n] = Leader,
               currentTerm'[n] = d.entry.term
        PROVE  d.entry.index <= commitIndex'[n]
    <3>1. <<d.entry.term, n>> \in elected
      BY <1>5, <2>3 DEF LeadersElected
    <3>2. n = d.node
      BY <2>1, <3>1 DEF ElectionSafety
    <3>3. d.entry.index \in Nat /\ commitIndex[n] \in Nat
      <4>1. d.entry \in Entry
        BY <1>t DEF TypeOK, Command
      <4> QED  BY <1>t, <4>1, EntryFields DEF TypeOK
    <3> QED  BY <1>5, <3>2, <3>3
  <2> QED  BY <2>2, <2>3
<1>6. ASSUME NEW e \in Answered'
      PROVE  \/ e \in Answered
             \/ \E n \in Node : ExecuteCommandAlone(n) /\ e = NewEntry(n)
             \/ \E d \in commands :
                  /\ e = d.entry /\ commitIndex[d.node] >= d.entry.index
                  /\ UNCHANGED <<role, currentTerm, commitIndex, elected>>
  <2>1. CASE e \in acked'
    BY <2>1, StepsOnAcked
  <2>2. ASSUME NEW c \in commands', c.phase = "announce", e = c.entry
        PROVE  \/ e \in Answered
               \/ \E d \in commands :
                    /\ e = d.entry /\ commitIndex[d.node] >= d.entry.index
                    /\ UNCHANGED <<role, currentTerm, commitIndex, elected>>
    <3>1. ~Submitted(c)
      BY <2>2 DEF Submitted
    <3>2. Continued(c)
      BY <1>t, <3>1, StepsOnCommands
    <3> QED  BY <2>2, <3>2 DEF Continued, Answered
  <2> QED  BY <1>6, <2>1, <2>2 DEF Answered
<1>7. ASSUME NEW e \in Answered'
      PROVE  /\ e.term \in Won'
             /\ \A n \in Node : role'[n] = Leader /\ currentTerm'[n] = e.term =>
                  e.index <= commitIndex'[n]
  BY <1>3, <1>4, <1>5, <1>6
<1> QED  BY <1>1, <1>7 DEF AnsweredIsCommitted

LEMMA LeadingInit == ReadInit => LeadingInvariant
BY DEF ReadInit, Init, LeadingInvariant, Numbered, AcceptedInTerm,
       AnsweredIsCommitted, Answered, Follower

LEMMA LeadingStep ==
  WellFormed /\ WellFormed' /\ VotersInvariant /\ ClusterInvariant
     /\ ClusterInvariant' /\ LeadingInvariant /\ Step => LeadingInvariant'
<1> SUFFICES ASSUME WellFormed, WellFormed', VotersInvariant,
                    ClusterInvariant, ClusterInvariant', LeadingInvariant,
                    Step
             PROVE  LeadingInvariant'
  OBVIOUS
<1>1. /\ ElectionSafety /\ ElectionSafety' /\ VotersAreMembers
      /\ AloneInvariant /\ LeadersElected /\ LeadersElected'
  BY DEF VotersInvariant, ElectionInvariant, ClusterInvariant,
         CompletenessInvariant
<1> QED  BY <1>1, NumberedStep, AcceptedInTermStep, AnsweredStep
         DEF LeadingInvariant

LEMMA LeadingAlways ==
  ASSUME MaxAdds <= 1 PROVE ReadSpec => []LeadingInvariant
BY LeadingInit, LeadingStep, ReadStep, ReadsWellFormedAlways, VotersAlways,
   ClusterAlways, PTL DEF ReadSpec

-----------------------------------------------------------------------------
\* Pings and their answers

Ping(m, n) == m.from = n /\ m.task = PingTask /\ m.awaited
Pong(r, n) == r.to = n /\ r.task = PingTask

\* A node has one ping per peer on the way.
PingsApart ==
    \A n \in Node :
        /\ \A m, k \in appendRequests :
             Ping(m, n) /\ Ping(k, n) /\ m.to = k.to => m = k
        /\ \A r, s \in appendReplies :
             Pong(r, n) /\ Pong(s, n) /\ r.from = s.from => r = s
        /\ \A m \in appendRequests, r \in appendReplies :
             ~(Ping(m, n) /\ Pong(r, n) /\ m.to = r.from)

\* The steps that send no ping and answer none.
NoPing ==
    /\ \A m \in appendRequests' :
         m.task = PingTask /\ m.awaited => m \in appendRequests
    /\ \A r \in appendReplies' : r.task = PingTask => r \in appendReplies

\* r answers the ping m.
Answers(r, m) ==
    /\ m.task = PingTask /\ m.awaited
    /\ appendRequests' = appendRequests \ {m}
    /\ appendReplies' = appendReplies \cup {r}
    /\ r.from = m.to /\ r.to = m.from /\ r.task = PingTask
    /\ r.success => currentTerm[m.to] <= m.term

LEMMA OtherTasks ==
  /\ \A e \in Entry : e.index >= 1 => e # PingTask
  /\ \A t \in Nat : t >= 1 => HeartbeatTask(t) # PingTask
<1>1. PingTask.index = 0 /\ PingTask.term = 0
  BY EntryFields DEF PingTask
<1>2. \A t \in Nat : HeartbeatTask(t).term = t
  BY EntryFields DEF HeartbeatTask
<1>3. \A e \in Entry : e.index >= 1 => e # PingTask
  BY <1>1
<1>4. ASSUME NEW t \in Nat, t >= 1 PROVE HeartbeatTask(t) # PingTask
  BY <1>1, <1>2, <1>4
<1> QED  BY <1>3, <1>4

LEMMA OtherBroadcasts ==
  ASSUME NEW n, NEW task, NEW l, task # PingTask,
         appendRequests' \subseteq appendRequests \cup Replicate(n, task, l),
         appendReplies' \subseteq appendReplies
  PROVE  NoPing
<1>1. \A m \in Replicate(n, task, l) : m.task = task
  BY DEF Replicate
<1> QED  BY <1>1 DEF NoPing

LEMMA FewerCallsNoPing ==
  ASSUME appendRequests' \subseteq appendRequests,
         appendReplies' \subseteq appendReplies
  PROVE  NoPing
BY DEF NoPing

LEMMA AnsweredPing ==
  ASSUME NEW m \in appendRequests, NEW term, NEW success, NEW match,
         AnswerAppend(m, term, success, match),
         success => currentTerm[m.to] <= m.term
  PROVE  NoPing \/ \E r : Answers(r, m)
<1>1. PICK r : r = [from |-> m.to, to |-> m.from, task |-> m.task,
                    callTerm |-> m.term, term |-> term, success |-> success,
                    matchIndex |-> match]
  OBVIOUS
<1>2. /\ r.from = m.to /\ r.to = m.from /\ r.task = m.task
      /\ r.success = success
  BY <1>1
<1>3. /\ appendRequests' = appendRequests \ {m}
      /\ appendReplies' = appendReplies \cup {k \in {r} : m.awaited}
  BY <1>1, Zenon DEF AnswerAppend
<1>4. CASE m.task = PingTask /\ m.awaited
  <2>1. appendReplies' = appendReplies \cup {r}
    BY <1>3, <1>4
  <2> QED  BY <1>2, <1>3, <1>4, <2>1, Zenon DEF Answers
<1>5. CASE ~(m.task = PingTask /\ m.awaited)
  BY <1>2, <1>3, <1>5 DEF NoPing
<1> QED  BY <1>4, <1>5

LEMMA HandlersAnswer ==
  ASSUME TypeOK, NEW m \in appendRequests, AppendRequestStep(m)
  PROVE  NoPing \/ \E r : Answers(r, m)
<1>1. CASE RejectStaleAppend(m)
  BY <1>1, AnsweredPing DEF RejectStaleAppend
<1>2. CASE RejectAppend(m)
  BY <1>2, AnsweredPing DEF RejectAppend
<1>3. CASE AcceptAppend(m)
  <2>1. m.to \in Node /\ m.term \in Nat /\ currentTerm[m.to] \in Nat
    BY AppendRequestFields DEF TypeOK
  <2>2. currentTerm[m.to] <= m.term
    BY <1>3, <2>1 DEF AcceptAppend, FollowLeader
  <2> QED  BY <1>3, <2>2, AnsweredPing DEF AcceptAppend
<1>4. CASE LoseAppendRequest(m)
  BY <1>4, FewerCallsNoPing DEF LoseAppendRequest
<1>5. CASE AppendCallTimesOut(m)
  <2>1. PICK k : k = [m EXCEPT !.awaited = FALSE]
    OBVIOUS
  <2>2. k.awaited = FALSE
    BY <2>1 DEF TypeOK, AppendRequest
  <2>3. /\ appendRequests' = (appendRequests \ {m}) \cup {k}
        /\ UNCHANGED appendReplies
    BY <1>5, <2>1, Zenon DEF AppendCallTimesOut, GiveUp
  <2> QED  BY <2>2, <2>3 DEF NoPing
<1> QED  BY <1>1, <1>2, <1>3, <1>4, <1>5 DEF AppendRequestStep

\* What the next state's pings and their answers are.
StepsOnPings ==
    \/ NoPing
    \/ \E m \in appendRequests : \E r : Answers(r, m)
    \/ \E rd \in reads : Confirm(rd) /\ UNCHANGED appendReplies
    \/ \E n \in Node : Confirm(NewRead(n)) /\ UNCHANGED appendReplies

LEMMA StepsOfPings ==
  ASSUME WellFormed, Numbered, [ReadNext]_allVars
  PROVE  StepsOnPings
<1>t. TypeOK /\ IndexIsPosition
  BY DEF WellFormed
<1> USE DEF appendCalls
<1>1. /\ appendRequests' \subseteq appendRequests
      /\ appendReplies' \subseteq appendReplies
      => StepsOnPings
  BY FewerCallsNoPing DEF StepsOnPings
<1>2. CASE UNCHANGED allVars
  BY <1>1, <1>2 DEF allVars, vars
<1>3. ASSUME NEW n \in Node, ExecuteCommand(n) PROVE StepsOnPings
  <2>1. /\ NewEntry(n) \in Entry /\ NewEntry(n).index = Len(log[n]) + 1
        /\ Len(log[n]) \in Nat
    BY <1>t, NewEntryFields, NodeLogType
  <2>2. NewEntry(n) # PingTask
    BY <2>1, OtherTasks
  <2>3. /\ appendRequests' = appendRequests
                               \cup Replicate(n, NewEntry(n), log'[n])
        /\ UNCHANGED appendReplies
    BY <1>3 DEF ExecuteCommand
  <2> QED  BY <2>2, <2>3, OtherBroadcasts DEF StepsOnPings
<1>4. ASSUME NEW n \in Node, Heartbeat(n) PROVE StepsOnPings
  <2>1. role[n] # Follower
    BY <1>4 DEF Heartbeat, Leader, Follower
  <2>2. currentTerm[n] \in Nat /\ currentTerm[n] >= 1
    BY <1>t, <2>1 DEF Numbered, TypeOK
  <2>3. HeartbeatTask(currentTerm[n]) # PingTask
    BY <2>2, OtherTasks
  <2> QED  BY <1>4, <2>3, OtherBroadcasts DEF Heartbeat, StepsOnPings
<1>5. ASSUME NEW n \in Node, NodeStep(n) PROVE StepsOnPings
  <2>1. \/ ExecuteCommand(n) \/ Heartbeat(n)
        \/ /\ appendRequests' \subseteq appendRequests
           /\ appendReplies' \subseteq appendReplies
    BY <1>5 DEF NodeStep, StartElection, StartElectionAlone,
                ExecuteCommandAlone, Stop, Revive, Restart, AddNode
  <2> QED  BY <1>1, <1>3, <1>4, <2>1
<1>6. ASSUME NEW c \in commands, CommandStep(c) PROVE StepsOnPings
  <2>1. c.entry # PingTask
    <3>1. c.entry \in Entry
      BY <1>t DEF TypeOK, Command
    <3> QED  BY <3>1, OtherTasks DEF Numbered
  <2>2. ASSUME BroadcastFor(c), UNCHANGED appendReplies PROVE StepsOnPings
    <3>1. appendRequests' \subseteq appendRequests
                           \cup Replicate(c.node, c.entry, log[c.node])
      BY <2>2 DEF BroadcastFor
    <3> QED  BY <2>1, <2>2, <3>1, OtherBroadcasts DEF StepsOnPings
  <2>3. \/ BroadcastFor(c) /\ UNCHANGED appendReplies
        \/ UNCHANGED appendCalls
    BY <1>6 DEF CommandStep, CommandRetry, CommandCommitted, CommandPending,
                CommandReturns
  <2> QED  BY <1>1, <2>2, <2>3
<1>7. ASSUME NEW c \in commands, NEW rd \in reads, NoopReturns(c, rd)
      PROVE  StepsOnPings
  <2>1. CASE role[rd.node] = Leader
    BY <1>7, <2>1 DEF NoopReturns, StepsOnPings
  <2>2. CASE role[rd.node] # Leader
    BY <1>1, <1>7, <2>2 DEF NoopReturns
  <2> QED  BY <2>1, <2>2
<1>8. ASSUME NEW n \in Node, BeginRead(n) PROVE StepsOnPings
  BY <1>8 DEF BeginRead, StepsOnPings
<1>9. CASE ReadNext
  <2>1. ASSUME NEW n \in Node, BeginReadWithNoop(n) PROVE StepsOnPings
    BY <1>3, <2>1 DEF BeginReadWithNoop
  <2>2. ASSUME NEW n \in Node, ReadAlone(n)
        PROVE  /\ appendRequests' \subseteq appendRequests
               /\ appendReplies' \subseteq appendReplies
    BY <2>2 DEF ReadAlone, ExecuteCommandAlone, vars
  <2>3. ASSUME NEW m \in voteRequests, VoteRequestStep(m)
        PROVE  UNCHANGED appendCalls
    BY <2>3 DEF VoteRequestStep, HandleRequestVote, LoseVoteRequest,
                VoteCallTimesOut
  <2>4. ASSUME NEW r \in voteReplies, VoteReplyStep(r)
        PROVE  UNCHANGED appendCalls
    BY <2>4 DEF VoteReplyStep, VoteReplyIgnored, VoteReplyStepDown,
                VoteReplyCounted, LoseVoteReply
  <2>5. ASSUME NEW m \in appendRequests, AppendRequestStep(m)
        PROVE  StepsOnPings
    BY <1>t, <2>5, HandlersAnswer DEF StepsOnPings
  <2>6. ASSUME NEW r \in appendReplies, AppendReplyStep(r) \/ PingReplyStep(r)
        PROVE  /\ appendRequests' \subseteq appendRequests
               /\ appendReplies' \subseteq appendReplies
    BY <2>6 DEF AppendReplyStep, AppendReplyIgnored, AppendReplyStepDown,
                AppendReplySuccess, AppendReplyFailure, LoseAppendReply,
                PingReplyStep, PingSucceeds, PingFails
  <2>7. ASSUME NEW rd \in reads, ReadReturns(rd) \/ ReadFails(rd)
        PROVE  UNCHANGED appendCalls
    BY <2>7 DEF ReadReturns, ReadFails, vars
  <2>8. UNCHANGED appendCalls => StepsOnPings
    BY <1>1
  <2> QED  BY <1>1, <1>5, <1>6, <1>7, <1>8, <1>9, <2>1, <2>2, <2>3, <2>4,
              <2>5, <2>6, <2>7, <2>8
           DEF ReadNext, NodeStepWithReads, CommandStepWithReads
<1> QED  BY <1>2, <1>9

LEMMA ConfirmingPings ==
  ASSUME TypeOK, NEW rd, rd.node \in Node, Confirm(rd)
  PROVE  /\ \A r \in appendReplies : ~Pong(r, rd.node)
         /\ \A m \in appendRequests' : Ping(m, rd.node) => m \in Pings(rd.node)
         /\ \A m \in appendRequests', n \in Node :
              n # rd.node /\ Ping(m, n) => m \in appendRequests
<1>1. appendRequests' = appendRequests \cup Pings(rd.node)
  BY DEF Confirm
<1>2. ~Broadcasting(rd.node, PingTask)
  BY DEF Confirm
<1>3. /\ \A r \in appendReplies : ~Pong(r, rd.node)
      /\ \A m \in appendRequests : ~Ping(m, rd.node)
  BY <1>2 DEF Broadcasting, Ping, Pong
<1>4. \A m \in Pings(rd.node) : m.from = rd.node
  BY PingFields
<1> QED  BY <1>1, <1>3, <1>4 DEF Ping

LEMMA PingPerPeer ==
  ASSUME NEW n, NEW m \in Pings(n), NEW k \in Pings(n), m.to = k.to
  PROVE  m = k
<1> DEFINE PingTo(p) ==
      [from |-> n, to |-> p, task |-> PingTask, term |-> currentTerm[n],
       prevLogIndex |-> LastLogIndex(log[n]),
       prevLogTerm |-> LastLogTerm(log[n]), entries |-> NoEntries,
       leaderCommit |-> commitIndex[n], awaited |-> TRUE]
<1>1. PICK p \in Peers(n), q \in Peers(n) : m = PingTo(p) /\ k = PingTo(q)
  BY DEF Pings
<1>2. \A d : PingTo(d).to = d
  OBVIOUS
<1>3. p = q
  BY <1>1, <1>2
<1> QED  BY <1>1, <1>3

LEMMA PingsApartStep ==
  ASSUME TypeOK, ReadTypeOK, PingsApart, StepsOnPings
  PROVE  PingsApart'
<1> SUFFICES
      ASSUME NEW n \in Node
      PROVE  /\ \A m, k \in appendRequests' :
                  Ping(m, n) /\ Ping(k, n) /\ m.to = k.to => m = k
             /\ \A r, s \in appendReplies' :
                  Pong(r, n) /\ Pong(s, n) /\ r.from = s.from => r = s
             /\ \A m \in appendRequests', r \in appendReplies' :
                  ~(Ping(m, n) /\ Pong(r, n) /\ m.to = r.from)
  BY DEF PingsApart, Ping, Pong
<1> DEFINE Goal ==
      /\ \A m, k \in appendRequests' :
           Ping(m, n) /\ Ping(k, n) /\ m.to = k.to => m = k
      /\ \A r, s \in appendReplies' :
           Pong(r, n) /\ Pong(s, n) /\ r.from = s.from => r = s
      /\ \A m \in appendRequests', r \in appendReplies' :
           ~(Ping(m, n) /\ Pong(r, n) /\ m.to = r.from)
<1>1. /\ \A m, k \in appendRequests :
           Ping(m, n) /\ Ping(k, n) /\ m.to = k.to => m = k
      /\ \A r, s \in appendReplies :
           Pong(r, n) /\ Pong(s, n) /\ r.from = s.from => r = s
      /\ \A m \in appendRequests, r \in appendReplies :
           ~(Ping(m, n) /\ Pong(r, n) /\ m.to = r.from)
  BY DEF PingsApart
<1>2. CASE NoPing
  <2>1. /\ \A m \in appendRequests' : Ping(m, n) => m \in appendRequests
        /\ \A r \in appendReplies' : Pong(r, n) => r \in appendReplies
    BY <1>2 DEF NoPing, Ping, Pong
  <2> QED  BY <1>1, <2>1
<1>3. ASSUME NEW m \in appendRequests, NEW r, Answers(r, m) PROVE Goal
  <2>1. /\ appendRequests' = appendRequests \ {m}
        /\ appendReplies' = appendReplies \cup {r}
        /\ Pong(r, n) => Ping(m, n) /\ r.from = m.to
    BY <1>3 DEF Answers, Ping, Pong
  <2>2. \A k, j \in appendRequests' :
          Ping(k, n) /\ Ping(j, n) /\ k.to = j.to => k = j
    BY <1>1, <2>1
  <2>3. \A s \in appendReplies : Pong(r, n) /\ Pong(s, n) => r.from # s.from
    BY <1>1, <2>1
  <2>4. \A s, q \in appendReplies' :
          Pong(s, n) /\ Pong(q, n) /\ s.from = q.from => s = q
    BY <1>1, <2>1, <2>3
  <2>5. \A k \in appendRequests' : ~(Ping(k, n) /\ Pong(r, n) /\ k.to = r.from)
    BY <1>1, <2>1
  <2>6. \A k \in appendRequests', s \in appendReplies' :
          ~(Ping(k, n) /\ Pong(s, n) /\ k.to = s.from)
    BY <1>1, <2>1, <2>5
  <2> QED  BY <2>2, <2>4, <2>6
<1>4. ASSUME NEW rd, rd.node \in Node, Confirm(rd), UNCHANGED appendReplies
      PROVE  Goal
  <2>1. /\ \A r \in appendReplies : ~Pong(r, rd.node)
        /\ \A m \in appendRequests' : Ping(m, rd.node) => m \in Pings(rd.node)
        /\ \A m \in appendRequests', k \in Node :
             k # rd.node /\ Ping(m, k) => m \in appendRequests
    BY <1>4, ConfirmingPings
  <2>2. CASE rd.node = n
    BY <1>4, <2>1, <2>2, PingPerPeer
  <2>3. CASE rd.node # n
    <3>1. \A m \in appendRequests' : Ping(m, n) => m \in appendRequests
      BY <2>1, <2>3
    <3> QED  BY <1>1, <1>4, <3>1
  <2> QED  BY <2>2, <2>3
<1>5. ASSUME NEW rd \in reads, Confirm(rd), UNCHANGED appendReplies PROVE Goal
  <2>1. rd.node \in Node
    BY DEF ReadTypeOK, Read
  <2> QED  BY <1>4, <1>5, <2>1
<1>6. ASSUME NEW k \in Node, Confirm(NewRead(k)), UNCHANGED appendReplies
      PROVE  Goal
  <2>1. NewRead(k).node \in Node
    BY NewReadNode
  <2> QED  BY <1>4, <1>6, <2>1
<1>7. Goal
  BY <1>2, <1>3, <1>5, <1>6, Zenon DEF StepsOnPings
<1> QED  BY <1>7

-----------------------------------------------------------------------------
\* Covered reads

\* Of the members M a read of n pings, those in B stored e before they answer
\* its pings, in a later term; those in S were counted.
CallsOutvoted(n, e, M, B, S) ==
    /\ \A v \in B : <<v, e>> \in accepted
    /\ \A m \in appendRequests :
         Ping(m, n) => m.to \in M \ S /\ m.term < e.term
    /\ \A r \in appendReplies :
         Pong(r, n) => r.from \in M \ S /\ (r.success => r.from \notin B)

\* Too few are left.
OutvotedBy(rd, e, M, B, S) ==
    /\ rd.quorum = QuorumSize(M)
    /\ Cardinality(M \ B) < QuorumSize(M)
    /\ S \subseteq M \ B /\ Cardinality(S) = rd.successCount
    /\ CallsOutvoted(rd.node, e, M, B, S)

Outvoted(rd, e) == \E M, B, S \in SUBSET Node : OutvotedBy(rd, e, M, B, S)

BeforeChosen == \A rd \in reads : rd.before \subseteq acked \cap Chosen

\* What n's log has up to the read index.
Covers(n, readIndex, e) == e.index <= readIndex /\ Stores(n, e)

\* What a covered read must not miss, its log has, or it will fail.
CoveredOrOutvoted ==
    \A rd \in reads : rd.phase = "confirm" /\ rd.covered =>
        \A e \in rd.before : \/ Covers(rd.node, rd.readIndex, e)
                             \/ Outvoted(rd, e)

LEMMA HistoryGrows ==
  ASSUME TypeOK, Step
  PROVE  accepted \subseteq accepted' /\ memberships \subseteq memberships'
<1>1. ASSUME NEW n \in Node, Pinging(n)
      PROVE  UNCHANGED <<accepted, memberships>>
  BY <1>1 DEF Pinging, nodeVars, roleVars, clusterVars, logVars
<1>2. ASSUME [Next]_vars PROVE accepted \subseteq accepted'
  BY <1>2, StepsOnLogs DEF Submit, AcceptAppend
<1>3. ASSUME [Next]_vars PROVE memberships \subseteq memberships'
  BY <1>3, StepsOnMembers DEF AddNode
<1> QED  BY <1>1, <1>2, <1>3 DEF Step

LEMMA ChosenGrows ==
  ASSUME TypeOK, Step PROVE Chosen \subseteq Chosen'
<1> SUFFICES ASSUME NEW e \in Chosen PROVE e \in Chosen'
  OBVIOUS
<1>1. accepted \subseteq accepted' /\ memberships \subseteq memberships'
  BY HistoryGrows
<1>2. PICK C \in memberships :
        Cardinality({n \in C : <<n, e>> \in accepted}) >= QuorumSize(C)
  BY DEF Chosen
<1>3. IsFiniteSet(C)
  <2>1. C \subseteq Node
    BY DEF TypeOK
  <2> QED  BY <2>1, NodeAssumption, FS_Subset
<1>4. PICK P \in SUBSET C : P = {n \in C : <<n, e>> \in accepted}
  OBVIOUS
<1>5. PICK Q \in SUBSET C : Q = {n \in C : <<n, e>> \in accepted'}
  OBVIOUS
<1>6. P \subseteq Q
  BY <1>1, <1>4, <1>5
<1>7. Cardinality(Q) >= QuorumSize(C)
  BY <1>2, <1>3, <1>4, <1>6, QuorumOfMore
<1>8. e \in {a[2] : a \in accepted'}
  BY <1>1 DEF Chosen
<1> QED  BY <1>1, <1>5, <1>7, <1>8 DEF Chosen

LEMMA BeforeChosenStep ==
  ASSUME TypeOK, ReadTypeOK, BeforeChosen, Step, StepsOnReads
  PROVE  BeforeChosen'
<1>1. acked \cap Chosen \subseteq (acked \cap Chosen)'
  BY ChosenGrows, StepsOnAcked
<1>2. reads \subseteq Read /\ \A n \in Node : NewRead(n) \in Read
  BY NewReadType DEF ReadTypeOK
<1>3. \A n \in Node : NewRead(n).before = acked \cap Chosen
  BY NewReadType
<1>4. \A rd \in reads : rd.before \subseteq (acked \cap Chosen)'
  BY <1>1 DEF BeforeChosen
<1>5. ASSUME NEW rd, GoesOn(rd) PROVE BeforeChosen'
  <2>1. rd \in Read /\ rd.before \subseteq (acked \cap Chosen)'
    BY <1>1, <1>2, <1>3, <1>4, <1>5 DEF GoesOn
  <2>2. Confirming(rd).before = rd.before
    BY <2>1, ConfirmingType
  <2>3. reads' = (reads \ {rd}) \cup {Confirming(rd)}
    BY <1>5, ConfirmReads DEF GoesOn
  <2> QED  BY <1>4, <2>1, <2>2, <2>3 DEF BeforeChosen
<1>6. ASSUME NEW r, PingSucceeds(r) PROVE BeforeChosen'
  <2>1. \A rd \in reads : Counted(rd, r.to).before = rd.before
    BY <1>2, CountedType
  <2> QED  BY <1>4, <1>6, <2>1, CountReads DEF BeforeChosen
<1> QED  BY <1>1, <1>3, <1>4, <1>5, <1>6 DEF StepsOnReads, BeforeChosen

\* A log does not lose what is chosen.
LEMMA ChosenStaysStored ==
  ASSUME WellFormed, WellFormed', CompletenessInvariant, Step,
         NEW n \in Node, NEW e \in Chosen, Stores(n, e)
  PROVE  Stores(n, e)'
<1>1. PICK W : Ledger(W) /\ ChosenInLedger(W)
  BY DEF CompletenessInvariant, Complete
<1>2. LogsInTerm
  BY DEF CompletenessInvariant
<1>3. e \in Choosable
  BY ChosenIsChoosable DEF WellFormed
<1>4. ASSUME NEW k \in Node, Pinging(k) PROVE Stores(n, e)'
  <2>1. log' = log
    BY <1>4 DEF Pinging, nodeVars, logVars
  <2> QED  BY <2>1 DEF Stores
<1>5. ASSUME [Next]_vars PROVE Stores(n, e)'
  BY <1>1, <1>2, <1>3, <1>5, LogKeeps
<1> QED  BY <1>4, <1>5 DEF Step

\* What a leader answered in its term, and what was chosen in an earlier one,
\* is below the entry of its term that it has committed.
LEMMA CoveredInTerm ==
  ASSUME WellFormed, CompletenessInvariant, LeaderCompleteness,
         AnsweredIsCommitted, NEW n \in Node, role[n] = Leader,
         HasCommittedCurrentTerm(n), NEW e \in acked \cap Chosen,
         e.term <= currentTerm[n]
  PROVE  e.index <= commitIndex[n]
<1>t. TypeOK /\ IndexIsPosition
  BY DEF WellFormed
<1>1. e \in Entry /\ e.index \in Nat /\ e.term \in Nat
  <2>1. e \in Entry
    BY <1>t DEF TypeOK
  <2> QED  BY <2>1, EntryFields
<1>2. currentTerm[n] \in Nat /\ commitIndex[n] \in Nat
  BY <1>t DEF TypeOK
<1>3. CASE e.term = currentTerm[n]
  BY <1>3 DEF AnsweredIsCommitted, Answered
<1>4. CASE e.term < currentTerm[n]
  <2>1. Stores(n, e)
    BY <1>4 DEF LeaderCompleteness
  <2>2. PICK l \in Seq(Entry) : l = log[n]
    BY <1>t, NodeLogType
  <2>3. PICK i \in DOMAIN l : i <= commitIndex[n] /\ l[i].term = currentTerm[n]
    BY <2>2 DEF HasCommittedCurrentTerm
  <2>4. e.index \in DOMAIN l /\ l[e.index].term = e.term
    BY <2>1, <2>2 DEF Stores
  <2>5. i \in Nat /\ i \in 1 .. Len(l) /\ e.index \in 1 .. Len(l) /\ Len(l) \in Nat
    BY <2>2, <2>3, <2>4
  <2>6. ASSUME i <= e.index PROVE FALSE
    <3>1. PICK a : /\ a = LogTerms(l) /\ DOMAIN a = 0 .. Len(l)
                   /\ \A k \in 1 .. Len(l) : a[k] = l[k].term
      BY LogTermsAre
    <3>2. Ordered(a, currentTerm[n])
      <4>1. PICK W : Ledger(W)
        BY DEF CompletenessInvariant
      <4>2. LogsInTerm /\ currentTerm[n] >= currentTerm[n]
        BY <1>2 DEF CompletenessInvariant
      <4> QED  BY <1>t, <1>2, <2>2, <3>1, <4>1, <4>2, LogOrdered
    <3>3. i \in DOMAIN a /\ e.index \in DOMAIN a
      BY <2>5, <3>1
    <3>4. a[i] <= a[e.index]
      BY <2>6, <3>2, <3>3 DEF Ordered
    <3>5. currentTerm[n] <= e.term
      BY <2>3, <2>4, <2>5, <3>1, <3>4
    <3> QED  BY <1>1, <1>2, <1>4, <3>5
  <2> QED  BY <1>1, <1>2, <2>3, <2>5, <2>6
<1> QED  BY <1>1, <1>2, <1>3, <1>4

LEMMA OutvotedFromStart ==
  ASSUME TypeOK, OneAddition, VotersAreMembers, AcceptedInTerm,
         NEW rd \in Read, GoesOn(rd), NEW e \in Chosen,
         e.term > currentTerm[rd.node], NEW c, c = Confirming(rd)
  PROVE  Outvoted(c, e)'
<1>1. PICK n \in Node : n = rd.node
  BY ReadFields
<1>2. e \in Entry /\ e.term \in Nat /\ currentTerm[n] \in Nat
  <2>1. accepted \subseteq Node \X Entry
    BY DEF TypeOK
  <2>2. e \in Entry
    BY <2>1 DEF Chosen
  <2> QED  BY <2>2, EntryFields DEF TypeOK
<1>3. PICK M \in SUBSET Node : M = members /\ IsFiniteSet(M)
  BY MembersFinite
<1>4. PICK B \in SUBSET Node : B = {v \in M : <<v, e>> \in accepted}
  BY <1>3
<1>5. Cardinality(M \ B) < QuorumSize(M)
  <2> SUFFICES ASSUME Cardinality(M \ B) >= QuorumSize(M) PROVE FALSE
    <3>1. IsFiniteSet(M \ B)
      BY <1>3, FS_Subset
    <3>2. Cardinality(M \ B) \in Nat /\ QuorumSize(M) \in Nat
      BY <1>3, <3>1, FS_CardinalityType, QuorumSizeType
    <3> QED  BY <3>2
  <2>1. PICK C \in memberships :
          Cardinality({v \in C : <<v, e>> \in accepted}) >= QuorumSize(C)
    BY DEF Chosen
  <2>2. PICK P \in SUBSET C : P = {v \in C : <<v, e>> \in accepted}
    OBVIOUS
  <2>3. PICK Q \in SUBSET M : Q = M \ B
    OBVIOUS
  <2>4. M \in memberships
    BY <1>3 DEF TypeOK
  <2>5. P \cap Q # {}
    BY <2>1, <2>2, <2>3, <2>4, MembershipQuorumsIntersect
  <2> QED  BY <1>4, <2>2, <2>3, <2>5
<1>6. n \in M \ B
  <2>1. n \in M
    BY <1>1, <1>3 DEF GoesOn, VotersAreMembers
  <2>2. <<n, e>> \notin accepted
    BY <1>1, <1>2 DEF AcceptedInTerm
  <2> QED  BY <1>4, <2>1, <2>2
<1>7. PICK S \in SUBSET Node : S = {n} /\ S \subseteq M \ B
  BY <1>6
<1>8. /\ c.node = n /\ c.quorum = QuorumSize(M) /\ Cardinality(S) = c.successCount
  <2>1. Cardinality(S) = 1
    BY <1>7, FS_Singleton
  <2> QED  BY <1>1, <1>3, <2>1, ConfirmingType
<1>9. /\ \A r \in appendReplies : ~Pong(r, n)
      /\ \A m \in appendRequests' : Ping(m, n) => m \in Pings(n)
  <2>1. rd.node \in Node /\ Confirm(rd)
    BY <1>1 DEF GoesOn
  <2> QED  BY <1>1, <2>1, ConfirmingPings
<1>10. \A m \in appendRequests' :
          Ping(m, n) => m.to \in M \ S /\ m.term < e.term
  <2> SUFFICES ASSUME NEW m \in appendRequests', Ping(m, n)
               PROVE  m.to \in M \ S /\ m.term < e.term
    OBVIOUS
  <2>1. m.to \in Peers(n) /\ m.term = currentTerm[n]
    BY <1>9, PingFields
  <2> QED  BY <1>1, <1>2, <1>3, <1>7, <2>1 DEF Peers
<1>11. UNCHANGED <<accepted, appendReplies>>
  BY DEF GoesOn, nodeVars, logVars
<1>12. CallsOutvoted(n, e, M, B, S)'
  <2>1. \A v \in B : <<v, e>> \in accepted'
    BY <1>4, <1>11
  <2>2. \A r \in appendReplies' :
          Pong(r, n) => r.from \in M \ S /\ (r.success => r.from \notin B)
    BY <1>9, <1>11
  <2> QED  BY <1>10, <2>1, <2>2 DEF CallsOutvoted, Ping, Pong
<1>13. OutvotedBy(c, e, M, B, S)'
  BY <1>5, <1>7, <1>8, <1>12 DEF OutvotedBy
<1> QED  BY <1>13 DEF Outvoted

LEMMA CallsStayOutvoted ==
  ASSUME TypeOK, ReadTypeOK, AcceptedInTerm, Step, StepsOnPings,
         NEW rd \in reads, rd.phase = "confirm", NEW e \in Entry,
         NEW M \in SUBSET Node, NEW B \in SUBSET Node, NEW S \in SUBSET Node,
         CallsOutvoted(rd.node, e, M, B, S)
  PROVE  CallsOutvoted(rd.node, e, M, B, S)'
<1>1. PICK n \in Node : n = rd.node
  BY DEF ReadTypeOK, Read
<1>2. CallsOutvoted(n, e, M, B, S)
  BY <1>1
<1>3. \A v \in B : <<v, e>> \in accepted'
  BY <1>2, HistoryGrows DEF CallsOutvoted
<1> DEFINE Requests == \A m \in appendRequests' :
                         Ping(m, n) => m.to \in M \ S /\ m.term < e.term
           Replies == \A r \in appendReplies' :
                        Pong(r, n) => /\ r.from \in M \ S
                                      /\ r.success => r.from \notin B
<1>4. (\A m \in appendRequests' : Ping(m, n) => m \in appendRequests)
        => Requests
  BY <1>2 DEF CallsOutvoted
<1>5. (\A r \in appendReplies' : Pong(r, n) => r \in appendReplies) => Replies
  BY <1>2 DEF CallsOutvoted
<1>6. ASSUME NoPing PROVE Requests /\ Replies
  <2>1. \A m \in appendRequests' : Ping(m, n) => m \in appendRequests
    BY <1>6 DEF NoPing, Ping
  <2>2. \A r \in appendReplies' : Pong(r, n) => r \in appendReplies
    BY <1>6 DEF NoPing, Pong
  <2> QED  BY <1>4, <1>5, <2>1, <2>2
<1>7. ASSUME NEW m \in appendRequests, NEW r, Answers(r, m)
      PROVE  Requests /\ Replies
  <2>1. /\ appendRequests' = appendRequests \ {m}
        /\ appendReplies' = appendReplies \cup {r}
        /\ r.from = m.to /\ (Pong(r, n) => Ping(m, n))
        /\ r.success => currentTerm[m.to] <= m.term
    BY <1>7 DEF Answers, Ping, Pong
  <2>2. /\ m.to \in Node /\ m.term \in Nat /\ currentTerm[m.to] \in Nat
        /\ e.term \in Nat
    <3>1. m.to \in Node /\ m.term \in Nat
      BY DEF TypeOK, AppendRequest
    <3> QED  BY <3>1, EntryFields DEF TypeOK
  <2>3. ASSUME Pong(r, n)
        PROVE  r.from \in M \ S /\ (r.success => r.from \notin B)
    <3>1. m.to \in M \ S /\ m.term < e.term
      BY <1>2, <2>1, <2>3 DEF CallsOutvoted
    <3>2. ASSUME r.success PROVE <<m.to, e>> \notin accepted
      BY <2>1, <2>2, <3>1, <3>2 DEF AcceptedInTerm
    <3>3. r.success => m.to \notin B
      BY <1>2, <3>2 DEF CallsOutvoted
    <3> QED  BY <2>1, <3>1, <3>3
  <2>4. Replies
    BY <1>2, <2>1, <2>3 DEF CallsOutvoted
  <2> QED  BY <1>4, <2>1, <2>4
<1>8. ASSUME NEW o, o.node \in Node, o.node # n, Confirm(o),
             UNCHANGED appendReplies
      PROVE  Requests /\ Replies
  <2>1. \A m \in appendRequests' : Ping(m, n) => m \in appendRequests
    BY <1>8, ConfirmingPings
  <2> QED  BY <1>4, <1>5, <1>8, <2>1
<1>9. ASSUME NEW o, Confirm(o) PROVE o.node # n
  BY <1>1, <1>9 DEF Confirm
<1>10. ASSUME NEW o \in reads, Confirm(o), UNCHANGED appendReplies
       PROVE  Requests /\ Replies
  <2>1. o.node \in Node
    BY DEF ReadTypeOK, Read
  <2> QED  BY <1>8, <1>9, <1>10, <2>1
<1>11. ASSUME NEW k \in Node, Confirm(NewRead(k)), UNCHANGED appendReplies
       PROVE  Requests /\ Replies
  <2>1. NewRead(k).node \in Node
    BY NewReadNode
  <2> QED  BY <1>8, <1>9, <1>11, <2>1
<1>12. Requests /\ Replies
  BY <1>6, <1>7, <1>10, <1>11, Zenon DEF StepsOnPings
<1>13. CallsOutvoted(n, e, M, B, S)'
  BY <1>3, <1>12 DEF CallsOutvoted, Ping, Pong
<1> QED  BY <1>1, <1>13

LEMMA OutvotedStays ==
  ASSUME TypeOK, ReadTypeOK, AcceptedInTerm, Step, StepsOnPings,
         NEW rd \in reads, rd.phase = "confirm", NEW e \in Entry,
         Outvoted(rd, e)
  PROVE  Outvoted(rd, e)'
<1>1. PICK M \in SUBSET Node, B \in SUBSET Node, S \in SUBSET Node :
        OutvotedBy(rd, e, M, B, S)
  BY DEF Outvoted
<1>2. CallsOutvoted(rd.node, e, M, B, S)'
  BY <1>1, CallsStayOutvoted DEF OutvotedBy
<1>3. OutvotedBy(rd, e, M, B, S)'
  BY <1>1, <1>2 DEF OutvotedBy
<1> QED  BY <1>3 DEF Outvoted

\* A ping that succeeds went to a node that had not outvoted the read.
LEMMA OutvotedCounts ==
  ASSUME TypeOK, TypeOK', PingsApart, Step, NEW rd \in Read,
         rd.phase = "confirm", NEW e \in Entry, Outvoted(rd, e),
         NEW r \in appendReplies, r.task = PingTask, r.to = rd.node,
         PingSucceeds(r), NEW c, c = Counted(rd, r.to)
  PROVE  Outvoted(c, e)'
<1>1. PICK n \in Node : n = rd.node
  BY ReadFields
<1>2. PICK M \in SUBSET Node, B \in SUBSET Node, S \in SUBSET Node :
        OutvotedBy(rd, e, M, B, S)
  BY DEF Outvoted
<1>3. CallsOutvoted(n, e, M, B, S)
  BY <1>1, <1>2 DEF OutvotedBy
<1>4. PICK p \in Node : p = r.from
  BY DEF TypeOK, AppendReply
<1>5. Pong(r, n) /\ r.success
  BY <1>1 DEF Pong, PingSucceeds
<1>6. p \in M \ S /\ p \notin B
  BY <1>3, <1>4, <1>5 DEF CallsOutvoted
<1>7. PICK T \in SUBSET Node : T = S \cup {p}
  OBVIOUS
<1>8. T \subseteq M \ B /\ Cardinality(T) = c.successCount
  <2>1. S \subseteq M \ B /\ Cardinality(S) = rd.successCount
    BY <1>2 DEF OutvotedBy
  <2>2. IsFiniteSet(S)
    BY NodeAssumption, FS_Subset
  <2>3. Cardinality(T) = Cardinality(S) + 1
    BY <1>6, <1>7, <2>2, FS_AddElement
  <2>4. c.successCount = rd.successCount + 1
    BY CountedType
  <2> QED  BY <1>6, <1>7, <2>1, <2>3, <2>4
<1>9. UNCHANGED appendRequests /\ appendReplies' = appendReplies \ {r}
  BY DEF PingSucceeds
<1>10. CallsOutvoted(n, e, M, B, T)'
  <2>1. \A v \in B : <<v, e>> \in accepted'
    BY <1>3, HistoryGrows DEF CallsOutvoted
  <2>2. \A m \in appendRequests : Ping(m, n) => m.to # p
    BY <1>4, <1>5 DEF PingsApart
  <2>3. \A m \in appendRequests' :
          Ping(m, n) => m.to \in M \ T /\ m.term < e.term
    BY <1>3, <1>7, <1>9, <2>2 DEF CallsOutvoted
  <2>4. \A s \in appendReplies' : Pong(s, n) => s.from # p
    BY <1>4, <1>5, <1>9 DEF PingsApart
  <2>5. \A s \in appendReplies' :
          Pong(s, n) => s.from \in M \ T /\ (s.success => s.from \notin B)
    BY <1>3, <1>7, <1>9, <2>4 DEF CallsOutvoted
  <2> QED  BY <2>1, <2>3, <2>5 DEF CallsOutvoted, Ping, Pong
<1>11. c.node = n /\ c.quorum = rd.quorum
  BY <1>1, CountedType
<1>12. OutvotedBy(c, e, M, B, T)'
  <2>1. c.quorum = QuorumSize(M) /\ Cardinality(M \ B) < QuorumSize(M)
    BY <1>2, <1>11 DEF OutvotedBy
  <2> QED  BY <1>8, <1>10, <1>11, <2>1 DEF OutvotedBy
<1> QED  BY <1>12 DEF Outvoted

\* A read that is outvoted has no quorum.
LEMMA OutvotedFails ==
  ASSUME NEW rd \in Read, NEW e, Outvoted(rd, e)
  PROVE  ~(rd.successCount >= rd.quorum)
<1>1. PICK M \in SUBSET Node, B \in SUBSET Node, S \in SUBSET Node :
        OutvotedBy(rd, e, M, B, S)
  BY DEF Outvoted
<1>2. IsFiniteSet(M) /\ IsFiniteSet(M \ B) /\ S \subseteq M \ B
  BY <1>1, NodeAssumption, FS_Subset DEF OutvotedBy
<1>3. /\ Cardinality(S) <= Cardinality(M \ B)
      /\ Cardinality(S) \in Nat /\ Cardinality(M \ B) \in Nat
  BY <1>2, FS_Subset, FS_CardinalityType
<1>4. QuorumSize(M) \in Nat
  BY <1>2, QuorumSizeType
<1>5. /\ rd.quorum = QuorumSize(M) /\ Cardinality(M \ B) < QuorumSize(M)
      /\ Cardinality(S) = rd.successCount
  BY <1>1 DEF OutvotedBy
<1> QED  BY <1>3, <1>4, <1>5

LEMMA CoveredOrOutvotedStep ==
  ASSUME WellFormed, WellFormed', ReadTypeOK, VotersInvariant, ClusterInvariant,
         LeadingInvariant, PingsApart, BeforeChosen, CoveredOrOutvoted,
         Step, StepsOnReads, StepsOnPings
  PROVE  CoveredOrOutvoted'
<1>t. TypeOK /\ TypeOK'
  BY DEF WellFormed
<1>i. /\ OneAddition /\ VotersAreMembers /\ CompletenessInvariant
      /\ AcceptedInTerm /\ AnsweredIsCommitted /\ LeaderCompleteness
  <2>1. CompletenessInvariant
    BY DEF ClusterInvariant
  <2>2. LeaderCompleteness
    BY <2>1, InvariantGivesCompleteness
  <2> QED  BY <2>1, <2>2 DEF VotersInvariant, ElectionInvariant,
                             LeadingInvariant
<1>1. reads \subseteq Read /\ \A n \in Node : NewRead(n) \in Read
  BY <1>t, NewReadType DEF ReadTypeOK
<1>2. \A rd \in reads : rd.before \subseteq acked \cap Chosen
  BY DEF BeforeChosen
<1>3. \A n \in Node : /\ NewRead(n).before \subseteq acked \cap Chosen
                      /\ NewRead(n).phase # "confirm"
  <2>1. \A n \in Node : NewRead(n).phase # "confirm"
    BY DEF NewRead
  <2> QED  BY <1>t, <2>1, NewReadType
<1>4. acked \subseteq Entry
  BY <1>t DEF TypeOK
<1>c. ASSUME NEW rd \in Read, NEW e \in rd.before,
             rd.before \subseteq acked \cap Chosen,
             Covers(rd.node, rd.readIndex, e)
      PROVE  Covers(rd.node, rd.readIndex, e)'
  <2>1. rd.node \in Node /\ e \in Chosen
    BY <1>c, ReadFields
  <2>2. Stores(rd.node, e)'
    BY <1>c, <1>i, <2>1, ChosenStaysStored DEF Covers
  <2> QED  BY <1>c, <2>2 DEF Covers
<1>5. ASSUME NEW rd \in reads, rd.phase = "confirm", rd.covered,
             NEW e \in rd.before
      PROVE  Covers(rd.node, rd.readIndex, e)' \/ Outvoted(rd, e)'
  <2>1. e \in Entry
    BY <1>2, <1>4
  <2>2. CASE Covers(rd.node, rd.readIndex, e)
    BY <1>1, <1>2, <1>c, <2>2
  <2>3. CASE Outvoted(rd, e)
    BY <1>t, <1>i, <1>5, <2>1, <2>3, OutvotedStays
  <2> QED  BY <1>5, <2>2, <2>3 DEF CoveredOrOutvoted
<1> SUFFICES ASSUME NEW a \in reads', a.phase = "confirm", a.covered,
                    NEW e \in a.before
             PROVE  Covers(a.node, a.readIndex, e)' \/ Outvoted(a, e)'
  BY DEF CoveredOrOutvoted
<1> DEFINE Goal == Covers(a.node, a.readIndex, e)' \/ Outvoted(a, e)'
<1>6. a \in reads => Goal
  BY <1>5
<1>7. ASSUME NEW rd, GoesOn(rd) PROVE Goal
  <2>1. rd \in Read /\ rd.before \subseteq acked \cap Chosen
    BY <1>1, <1>2, <1>3, <1>7 DEF GoesOn
  <2>2. reads' = (reads \ {rd}) \cup {Confirming(rd)}
    BY <1>7, ConfirmReads DEF GoesOn
  <2>3. CASE a = Confirming(rd)
    <3>1. PICK n \in Node : n = rd.node /\ role[n] = Leader
      BY <1>7, <2>1, ReadFields DEF GoesOn
    <3>2. /\ a.before = rd.before /\ a.readIndex = commitIndex[n]
          /\ a.covered = HasCommittedCurrentTerm(n) /\ a.node = n
      BY <1>t, <2>1, <2>3, <3>1, ConfirmingType
    <3>3. e \in acked \cap Chosen
      BY <2>1, <3>2
    <3>4. e.term \in Nat /\ currentTerm[n] \in Nat
      <4>1. e \in Entry
        BY <1>4, <3>3
      <4> QED  BY <1>t, <4>1, EntryFields DEF TypeOK
    <3>5. CASE e.term <= currentTerm[n]
      <4>1. HasCommittedCurrentTerm(n)
        BY <3>2
      <4>2. e.index <= commitIndex[n]
        BY <1>i, <3>1, <3>3, <3>5, <4>1, CoveredInTerm
      <4>3. Stores(n, e)
        BY <1>i, <3>1, <3>3, <3>5, LeaderStores
      <4>4. Stores(n, e)'
        BY <1>i, <3>1, <3>3, <4>3, ChosenStaysStored
      <4> QED  BY <3>2, <4>2, <4>4 DEF Covers
    <3>6. CASE e.term > currentTerm[n]
      BY <1>t, <1>i, <1>7, <2>1, <2>3, <3>1, <3>3, <3>6, OutvotedFromStart
    <3> QED  BY <3>4, <3>5, <3>6
  <2> QED  BY <1>6, <2>2, <2>3
<1>8. ASSUME NEW r \in appendReplies, r.task = PingTask, PingSucceeds(r)
      PROVE  Goal
  <2>1. PICK rd \in reads : a = Counted(rd, r.to)
    BY <1>8, CountReads
  <2>2. rd \in Read
    BY <1>1
  <2>3. /\ rd.phase = "confirm" /\ rd.covered /\ e \in rd.before
        /\ a.readIndex = rd.readIndex /\ a.node = rd.node
    BY <2>1, <2>2, CountedType
  <2>4. CASE rd.node = r.to
    <3>1. e \in Entry
      BY <1>2, <1>4, <2>3
    <3>2. CASE Covers(rd.node, rd.readIndex, e)
      <4>1. Covers(rd.node, rd.readIndex, e)'
        BY <1>2, <1>c, <2>2, <2>3, <3>2
      <4> QED  BY <2>3, <4>1
    <3>3. CASE Outvoted(rd, e)
      BY <1>t, <1>8, <2>1, <2>2, <2>3, <2>4, <3>1, <3>3, OutvotedCounts
    <3> QED  BY <2>3, <3>2, <3>3 DEF CoveredOrOutvoted
  <2>5. CASE rd.node # r.to
    <3>1. a = rd
      BY <2>1, <2>5 DEF Counted
    <3> QED  BY <1>6, <3>1
  <2> QED  BY <2>4, <2>5
<1> QED  BY <1>3, <1>6, <1>7, <1>8 DEF StepsOnReads

-----------------------------------------------------------------------------
\* What reads return

\* Of what a log has, the state machine that applied as many entries misses
\* only what it applied other entries for, as in Missed and Replaced.
LEMMA AppliedOrReplaced ==
  ASSUME NEW v \in Seq(Entry), NEW l \in Seq(Entry), NEW e,
         e.index \in 1 .. Len(l), l[e.index] = e, e.index <= Len(v)
  PROVE  \/ \E i \in DOMAIN v : v[i] = e
         \/ e.index \in {i \in DOMAIN v : ~(i \in DOMAIN l /\ l[i] = v[i])}
<1>1. PICK i \in Nat : i = e.index
  OBVIOUS
<1>2. i \in DOMAIN v /\ i \in DOMAIN l /\ l[i] = e
  BY <1>1
<1> QED  BY <1>1, <1>2

\* The state machine of n, that has applied its log up to e, misses e only
\* where Replaced says so.
LEMMA StoredIsApplied ==
  ASSUME TypeOK, NoSkippedApply, NEW n \in Node, NEW e, Stores(n, e),
         e.index <= lastApplied[n]
  PROVE  \/ \E i \in DOMAIN applied[n] : applied[n][i] = e
         \/ e.index \in Replaced(n)
<1>1. PICK v \in Seq(Entry), l \in Seq(Entry) : v = applied[n] /\ l = log[n]
  BY DEF TypeOK
<1>2. e.index \in 1 .. Len(l) /\ l[e.index] = e
  BY <1>1 DEF Stores
<1>3. e.index <= Len(v)
  BY <1>1 DEF NoSkippedApply
<1>4. \/ \E i \in DOMAIN v : v[i] = e
      \/ e.index \in {i \in DOMAIN v : ~(i \in DOMAIN l /\ l[i] = v[i])}
  BY <1>2, <1>3, AppliedOrReplaced
<1> QED  BY <1>1, <1>4 DEF Replaced

\* The same after a step.
LEMMA StoredIsAppliedNext ==
  ASSUME TypeOK', NoSkippedApply', NEW n \in Node, NEW e, Stores(n, e)',
         e.index <= lastApplied'[n]
  PROVE  \/ \E i \in DOMAIN applied'[n] : applied'[n][i] = e
         \/ e.index \in Replaced(n)'
<1>1. PICK v \in Seq(Entry), l \in Seq(Entry) : v = applied'[n] /\ l = log'[n]
  BY DEF TypeOK
<1>2. e.index \in 1 .. Len(l) /\ l[e.index] = e
  BY <1>1 DEF Stores
<1>3. e.index <= Len(v)
  BY <1>1 DEF NoSkippedApply
<1>4. \/ \E i \in DOMAIN v : v[i] = e
      \/ e.index \in {i \in DOMAIN v : ~(i \in DOMAIN l /\ l[i] = v[i])}
  BY <1>2, <1>3, AppliedOrReplaced
<1> QED  BY <1>1, <1>4 DEF Replaced

\* A cluster of one node has applied all that it answered when it reads.
LEMMA AloneIsApplied ==
  ASSUME WellFormed, WellFormed', VotersInvariant, ClusterInvariant,
         LeadingInvariant, NEW n \in Node, ReadAlone(n),
         HasCommittedCurrentTerm(n)', NEW e \in acked \cap Chosen
  PROVE  e.index <= lastApplied'[n] /\ Stores(n, e)
<1>t. TypeOK /\ TypeOK' /\ IndexIsPosition
  BY DEF WellFormed
<1>1. role[n] = Leader /\ members \subseteq {n}
  BY DEF ReadAlone, MayRead, Peers
<1>2. Stores(n, e)
  BY <1>1 DEF VotersInvariant, AloneInvariant
<1>3. /\ commitIndex'[n] <= lastApplied'[n] /\ e.index \in Nat
      /\ commitIndex'[n] \in Nat /\ lastApplied'[n] \in Nat
  <2>1. e \in Entry
    BY <1>t DEF TypeOK
  <2> QED  BY <1>t, <2>1, EntryFields DEF WellFormed, CommittedIsApplied, TypeOK
<1>4. CASE ExecuteCommandAlone(n)
  <2>1. PICK la \in Nat : la = Len(log[n]) /\ log[n] \in Seq(Entry)
    BY <1>t, NodeLogType
  <2>2. e.index \in 1 .. la
    BY <1>2, <2>1 DEF Stores
  <2>3. commitIndex' = [commitIndex EXCEPT ![n] = NewEntry(n).index]
    BY <1>4 DEF ExecuteCommandAlone, CommitAndApply
  <2>4. commitIndex'[n] = la + 1
    <3>1. commitIndex'[n] = NewEntry(n).index
      BY <1>t, <2>3 DEF TypeOK
    <3> QED  BY <1>t, <2>1, <3>1, NewEntryFields
  <2> QED  BY <1>2, <1>3, <2>1, <2>2, <2>4
<1>5. CASE UNCHANGED vars
  <2>1. HasCommittedCurrentTerm(n)
    BY <1>5 DEF HasCommittedCurrentTerm, vars, nodeVars, logVars, commitVars,
                termVars
  <2>2. CompletenessInvariant /\ AnsweredIsCommitted
    BY DEF ClusterInvariant, LeadingInvariant
  <2>3. LeaderCompleteness
    BY <2>2, InvariantGivesCompleteness
  <2>4. e.term <= currentTerm[n]
    BY <1>2, <2>2 DEF CompletenessInvariant, LogsInTerm, Stores
  <2>5. e.index <= commitIndex[n]
    BY <1>1, <2>1, <2>2, <2>3, <2>4, CoveredInTerm
  <2>6. commitIndex'[n] = commitIndex[n]
    BY <1>5 DEF vars, nodeVars, commitVars
  <2> QED  BY <1>2, <1>3, <2>5, <2>6
<1> QED  BY <1>4, <1>5 DEF ReadAlone

\* What a read of a cluster of one node returns.
AnswerAlone(n, value, lost) ==
    [success |-> TRUE, before |-> acked \cap Chosen,
     covered |-> HasCommittedCurrentTerm(n)', value |-> value, replaced |-> lost]

\* What a step may add to what reads returned.
LEMMA StepsOnOutcomes ==
  ASSUME [ReadNext]_allVars, NEW a \in outcomes'
  PROVE  \/ a \in outcomes
         \/ a = [success |-> FALSE]
         \/ \E rd \in reads : ReadReturns(rd) /\ a = Answer(rd)
         \/ \E n \in Node : /\ ReadAlone(n)
                            /\ a = AnswerAlone(n, applied'[n], Replaced(n)')
<1> DEFINE Goal ==
      \/ a \in outcomes
      \/ a = [success |-> FALSE]
      \/ \E rd \in reads : ReadReturns(rd) /\ a = Answer(rd)
      \/ \E n \in Node : /\ ReadAlone(n)
                         /\ a = AnswerAlone(n, applied'[n], Replaced(n)')
<1>1. UNCHANGED outcomes => Goal
  OBVIOUS
<1>2. ASSUME NEW n \in Node, ReadAlone(n) PROVE Goal
  BY <1>2 DEF ReadAlone, AnswerAlone
<1>3. ASSUME NEW rd \in reads, ReadReturns(rd) PROVE Goal
  BY <1>3 DEF ReadReturns, Return
<1>4. ASSUME NEW rd \in reads, ReadFails(rd) PROVE Goal
  BY <1>4 DEF ReadFails, Fail, Return
<1>5. ASSUME NEW c \in commands, NEW rd \in reads, NoopReturns(c, rd) PROVE Goal
  BY <1>5 DEF NoopReturns, Fail, Return
<1>6. CASE UNCHANGED allVars
  BY <1>1, <1>6 DEF allVars, readVars
<1>7. CASE ReadNext
  <2>1. ASSUME NEW n \in Node,
               NodeStepWithReads(n) \/ BeginRead(n) \/ BeginReadWithNoop(n)
        PROVE  UNCHANGED outcomes
    BY <2>1 DEF NodeStepWithReads, BeginRead, BeginReadWithNoop
  <2>2. ASSUME NEW r \in appendReplies, PingReplyStep(r)
        PROVE  UNCHANGED outcomes
    BY <2>2 DEF PingReplyStep, PingSucceeds, PingFails, readVars
  <2>3. ASSUME NEW c \in commands, CommandStepWithReads(c)
        PROVE  UNCHANGED outcomes
    BY <2>3 DEF CommandStepWithReads, readVars
  <2>4. UNCHANGED readVars => UNCHANGED outcomes
    BY DEF readVars
  <2> QED  BY <1>1, <1>2, <1>3, <1>4, <1>5, <1>7, <2>1, <2>2, <2>3, <2>4
           DEF ReadNext
<1> QED  BY <1>6, <1>7

LEMMA OutcomesStep ==
  ASSUME WellFormed, WellFormed', ReadTypeOK, ReadTypeOK', VotersInvariant,
         ClusterInvariant, LeadingInvariant, BeforeChosen, CoveredOrOutvoted,
         CoveredReadsMissOnlyReplaced, Step, [ReadNext]_allVars
  PROVE  CoveredReadsMissOnlyReplaced'
<1> SUFFICES ASSUME NEW a \in outcomes', a.success, a.covered,
                    NEW e \in a.before
             PROVE  \/ \E i \in DOMAIN a.value : a.value[i] = e
                    \/ e.index \in a.replaced
  BY DEF CoveredReadsMissOnlyReplaced, Missed
<1> DEFINE Goal == \/ \E i \in DOMAIN a.value : a.value[i] = e
                   \/ e.index \in a.replaced
<1>1. CASE a \in outcomes
  BY <1>1 DEF CoveredReadsMissOnlyReplaced, Missed
<1>2. a # [success |-> FALSE]
  OBVIOUS
<1>3. ASSUME NEW rd \in reads, ReadReturns(rd), a = Answer(rd) PROVE Goal
  <2>1. /\ a.before = rd.before /\ a.covered = rd.covered
        /\ a.value = applied[rd.node] /\ a.replaced = Replaced(rd.node)
    BY <1>3 DEF Answer
  <2>2. /\ rd.phase = "confirm" /\ rd.successCount >= rd.quorum
        /\ lastApplied[rd.node] >= rd.readIndex
    BY <1>3 DEF ReadReturns
  <2>3. rd \in Read /\ rd.node \in Node /\ rd.readIndex \in Nat
    BY ReadFields DEF ReadTypeOK
  <2>4. e \in Entry /\ e.index \in Nat
    <3>1. rd.before \in SUBSET Entry
      BY <2>3, ReadFields
    <3> QED  BY <2>1, <3>1, EntryFields
  <2>5. ~Outvoted(rd, e)
    BY <2>2, <2>3, OutvotedFails
  <2>6. Covers(rd.node, rd.readIndex, e)
    BY <2>1, <2>2, <2>5 DEF CoveredOrOutvoted
  <2>7. e.index <= lastApplied[rd.node]
    <3>1. lastApplied[rd.node] \in Nat
      BY <2>3 DEF WellFormed, TypeOK
    <3> QED  BY <2>2, <2>3, <2>4, <2>6, <3>1 DEF Covers
  <2> QED  BY <2>1, <2>3, <2>6, <2>7, StoredIsApplied DEF Covers, WellFormed
<1>4. ASSUME NEW n \in Node, ReadAlone(n),
             a = AnswerAlone(n, applied'[n], Replaced(n)')
      PROVE  Goal
  <2>1. /\ a.before = acked \cap Chosen /\ a.value = applied'[n]
        /\ a.replaced = Replaced(n)' /\ a.covered = HasCommittedCurrentTerm(n)'
    BY <1>4 DEF AnswerAlone
  <2>2. e.index <= lastApplied'[n] /\ Stores(n, e)
    BY <1>4, <2>1, AloneIsApplied
  <2>3. Stores(n, e)'
    BY <2>1, <2>2, ChosenStaysStored DEF ClusterInvariant
  <2> QED  BY <2>1, <2>2, <2>3, StoredIsAppliedNext DEF WellFormed
<1> QED  BY <1>1, <1>2, <1>3, <1>4, StepsOnOutcomes

\* The inductive invariant of reads, next to what holds of the cluster.
ReadInvariant ==
    /\ PingsApart /\ BeforeChosen
    /\ CoveredOrOutvoted /\ CoveredReadsMissOnlyReplaced

LEMMA ReadInvariantInit == ReadInit => ReadInvariant
BY DEF ReadInit, Init, ReadInvariant, PingsApart, BeforeChosen,
       CoveredOrOutvoted, CoveredReadsMissOnlyReplaced

LEMMA ReadInvariantStep ==
  WellFormed /\ WellFormed' /\ ReadsWellFormed /\ ReadsWellFormed'
     /\ VotersInvariant /\ ClusterInvariant /\ LeadingInvariant
     /\ ReadInvariant /\ [ReadNext]_allVars
   => ReadInvariant'
<1> SUFFICES ASSUME WellFormed, WellFormed', ReadsWellFormed, ReadsWellFormed',
                    VotersInvariant, ClusterInvariant, LeadingInvariant,
                    ReadInvariant, [ReadNext]_allVars
             PROVE  ReadInvariant'
  OBVIOUS
<1>1. TypeOK /\ ReadTypeOK /\ ReadTypeOK' /\ ReadsRun /\ Numbered
  BY DEF WellFormed, ReadsWellFormed, LeadingInvariant
<1>2. Step /\ StepsOnReads /\ StepsOnPings
  BY <1>1, ReadStep, StepsOfReads, StepsOfPings
<1>3. /\ PingsApart /\ BeforeChosen
      /\ CoveredOrOutvoted /\ CoveredReadsMissOnlyReplaced
  BY DEF ReadInvariant
<1>4. PingsApart'
  BY <1>1, <1>2, <1>3, PingsApartStep
<1>5. BeforeChosen'
  BY <1>1, <1>2, <1>3, BeforeChosenStep
<1>6. CoveredOrOutvoted'
  BY <1>1, <1>2, <1>3, CoveredOrOutvotedStep
<1>7. CoveredReadsMissOnlyReplaced'
  BY <1>1, <1>2, <1>3, OutcomesStep
<1> QED  BY <1>4, <1>5, <1>6, <1>7 DEF ReadInvariant

\* linearizable_read, whose read index covers an entry of the leader's own
\* term, answers from a state machine that has applied every command answered
\* before the read began and stored by a quorum, except where the node had
\* applied another entry that its log has lost since: elections, lost and late
\* calls, restarts and one added node included.
THEOREM CoveredReadsMissOnlyReplacedAlways ==
  ASSUME MaxAdds <= 1 PROVE ReadSpec => []CoveredReadsMissOnlyReplaced
<1>1. ReadSpec => []ReadInvariant
  BY ReadInvariantInit, ReadInvariantStep, ReadsWellFormedAlways, VotersAlways,
     ClusterAlways, LeadingAlways, PTL DEF ReadSpec
<1>2. ReadInvariant => CoveredReadsMissOnlyReplaced
  BY DEF ReadInvariant
<1> QED  BY <1>1, <1>2, PTL
=============================================================================
