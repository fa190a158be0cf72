# A verification of raft-distributed-engine

TLA+ models of the Raft engine in `raft/` and of the harness that starts, kills,
revives and adds its nodes, TLC configurations that check them on small clusters,
and TLAPS proofs for clusters of any size. Every definition is translated from
the code; `PROJECT.json` names the lines each one stands for.

## The system

| part | state it keeps | operations |
|---|---|---|
| `RaftNode` (`raft/node.py`) | role, leader id, `RaftState`, election timer and heartbeat task | election timer, `start_election`, `handle_request_vote`, heartbeat loop, `broadcast_append_entries`, `handle_append_entries`, `check_advance_commit_index`, `apply_entries_to_state_machine`, `execute_command`, `linearizable_read` with `confirm_leadership`, `start`/`stop` |
| `RaftState` (`raft/state.py`) | term, vote, log; commit index, last applied, key-value store; next and match index | two summaries of the log, `init_leader_state` |
| `WALStorage` (`raft/wal.py`) | one append-only file of JSON lines per node | one record per change of term or vote, per entry, per truncation; `recover` |
| `RPCManager` (`raft/rpc.py`) | a TCP server, peer addresses, an ignore list | `call_rpc`: one connection per call, `None` on any failure; `_handle_client` |
| messages (`raft/messages.py`) | none | four records and their JSON envelope |
| `RaftCluster` (`tests/harness.py`) | node objects, the `RaftState` of each | start, kill, revive, partition, heal, add a node |
| monitor (`monitor.py`), dashboard (`frontend/`) | WebSocket clients; a view of events | REST endpoints over the harness, event broadcast |

A node calls its peers through its `RPCManager`; the callee's handler runs on
the callee's event loop turn and its reply resumes the caller's coroutine, which
checks role and term again before it uses the reply. A node with a `wal_dir`
writes each change of term, vote or log to the WAL in the code that makes it. The
harness replaces a stopped node object by a new one, which is handed the old
`RaftState` or recovers one from the WAL, and enters an added node into every
peer list at once. The monitor only calls the harness.

What is hard here: coroutines of one node that are suspended in RPCs while others
change role, term and log; RPCs that time out at the caller and are handled
nevertheless; replies that arrive after the state they answer for is gone; nodes
that stop, or join, between any two steps; writes that fail half way; a WAL that
may end in half a record. The hazards, each at its line, are listed in
`PROJECT.json`.

What makes each part correct:

- elections: one vote per node and term over all lives of a node; one leader per
  term; a leader has every entry a quorum stored;
- replication: logs that agree at an index agree before it; index and place
  coincide; a leader only appends; what is committed is on a quorum; a leader that is
  left alone brings every follower up to date;
- application: every index up to `last_applied` was applied, in order;
- commands: `True` means that this command is committed, and it stays; every call
  returns;
- reads: a linearizable read has every command answered before it began;
- WAL: what recovery would return is what the node had when it last could answer.

Where the code falls short of one of these, "Where the code does not do what it says"
below shows how, and the properties that are checked and proved say what is left.

## Modules

| module | models | proofs |
|---|---|---|
| `RaftLog` | the pure parts: last index and term, vote restriction, consistency check, entries to send, append loop, quorum size | `RaftLogProofs` |
| `RaftNode` | a cluster of nodes, its calls in flight, client commands, stop / revive / restart / add | `RaftNodeProofs`, `ElectionProofs`, `LogProofs`, `CompletenessProofs` |
| `RaftRead` | `RaftNode` with linearizable reads | `RaftReadProofs` |
| `RaftProgress` | `RaftNode` with a network that is healed for good, and fairness | |
| `DurableState` | abstract: what a node promises about the state it keeps over a crash | |
| `RaftWal` | one node and its WAL at the grain of records; implements `DurableState` | `RaftWalProofs` |
| `MCRaftNode`, `MCRaftRead`, `MCRaftProgress`, `MCRaftWal` | symmetry and views for TLC | |

`RaftRead` and `RaftProgress` extend `RaftNode` and keep its actions;
`RaftNode` and `RaftWal` share `RaftLog`. `RaftNode` treats a handler as one step
and a restart as recovering exactly the term, vote and log the node had;
`RaftWal` looks inside both: it takes one step per WAL record, lets the process die
between any two of them or in one, and shows when recovery returns that state
(`DurableUnlessPending`: unless a failed write is pending or something was written
behind a torn record) and that the append loop, entry by entry, computes
`RaftLog!AppendLoop` (`LoopIsAppendLoop`). Both are proved. They are about
one node; that a cluster of such nodes refines `RaftNode` is not stated.

### RaftNode

*State.* `running`, `role`, `leaderId` are the node object; `currentTerm`,
`votedFor`, `log`, `commitIndex`, `lastApplied`, `nextIndex`, `matchIndex` are
`RaftState`; `applied` stands for `kv_store`, as the entries applied, in order;
`votesGranted` and `electorate` are locals of the latest `start_election`: its
count and the members it computed `total_nodes` and `quorum` from; `commands` are
the `execute_command` calls in progress, each at one of its awaits. A command is
named by the index and term of its entry (commands are never compared by the
code, and one leader writes each index of its term once). `members` is
`node_ids` of the cluster; a node's peers are the others.

*Atomicity.* asyncio switches only at an `await`. The RPC handlers contain none
(the WAL is written synchronously), so each is one action: `HandleRequestVote`,
and for `handle_append_entries` the three outcomes `RejectStaleAppend`,
`RejectAppend`, `AcceptAppend`. A coroutine is cut at its awaits: `StartElection`
runs to the vote calls, `VoteReplyIgnored/StepDown/Counted` continue one of them;
`Heartbeat`, `ExecuteCommand`, `CommandRetry` and `CommandCommitted` run to the
calls of a broadcast, `AppendReplyIgnored/StepDown/Success/Failure` continue one
of them. `check_advance_commit_index` and `apply_entries_to_state_machine` are
part of the actions that call them. The tasks of one broadcast or election start
within one turn of the event loop; they are started in one step here.

*Calls.* A call is a request record; then, if the caller still waits, a reply
record. `AnswerVote` and `AnswerAppend` turn one into the other. The network may
lose either (`Lose...`: refused connection, ignore list on either side, timeout
of a call that never arrived), in which case the coroutine gets `None` and does
nothing. `VoteCallTimesOut` and `AppendCallTimesOut` let the caller give up while
the request stays on its way and is handled later, in any order. TCP does not
duplicate, and the code never resends a request, so there is no duplication;
two late requests with equal contents are one record.

*Lifecycle.* `Stop` cancels the node's coroutines; a request it had sent is
dropped, and one that outlives its sender is a call that timed out just before.
Requests to a stopped node wait, and are lost or handled by its successor.
`Revive` hands the old `RaftState` to a new object, `Restart` gives it a fresh
one with term, vote and log from the WAL and everything else at its initial value.

*Membership.* A cluster starts with one of the node sets `Initial` names.
`AddNode` is the harness's `add_node`: the new node has an empty state and appears
in every peer list in one step, while elections and broadcasts that took their
quorum or their peers before go on. A leader that has no `next_index` for it uses
`last_log_index + 1` (`NextIndex`; the key's absence is 0).

*History.* `voters`, `votesCast`, `elected`, `accepted`, `acked` and `memberships`
record what happened for the properties to speak about; no guard reads them, except
that the number of `memberships` bounds the additions.

### RaftRead

A read is a record of the call at one of its two kinds of await: `noop`, inside the
`execute_command` that submits the NOOP of a leader without a committed entry of its
term, or `confirm`, waiting for the pings of `confirm_leadership`. `BeginRead`
and `BeginReadWithNoop` are the two ways into the method, `NoopReturns` continues
after `execute_command` whatever it returned, as the code does, and
`ReadReturns`, `ReadFails` end it. The pings travel with the other AppendEntries
calls under a task of their own (`PingTask`) and are answered by the handlers of `RaftNode`;
`PingSucceeds` and `PingFails` continue them, which count an answer but do
not take over a match index. `ReadAlone` is the cluster without peers, which
awaits nothing. What a read returns, `kv_store.get(key)`, is recorded as the
entries its node has applied at that time (`value`), which is what `kv_store` is made
of; not as an index, which would stand for them only if no two nodes applied
different entries at it, and the `falsecommit` finding refutes that. Three more
fields tell reads apart: `before`, the commands that had been answered, with a
quorum behind them, when it began; `covered`, whether its read index covers an
entry of the leader's own term; and `replaced`, the indices at which the node had
applied an entry that its log has lost since.

### RaftProgress

`Heal` empties every ignore list for the last time. Before it everything of
`RaftNode` may happen; after it no node stops and a call fails only if its callee
does not run (`MayFail`, `KeepsRunning`). Fairness stands for three things of the code:

- the event loop resumes a coroutine that can go on, and the heartbeat loop runs
  again and again while its node leads;
- a call ends: `call_rpc` has a timeout around connecting and one around reading the
  reply (`raft/rpc.py:220`, `:242`), so each call is handled, lost or given up.
  `writer.drain()` between them (`:239`) has none; it waits only while the
  connection's write buffer is above its limit (64 KiB by default), so this is justified for
  requests that fit the buffers, and larger ones are among the hazards;
- `execute_command` does not try beyond its deadline (`raft/node.py:644`).

It is weak for calls. It is strong for `CommandGoesOn`, `CommandEnds` and
`HeartbeatGoesOn`: the bound `MaxInFlight` disables a broadcast now and then that
the code would just send, and a command is again and again between two tries
when its deadline passes. Nothing is assumed of elections: a timer may expire
at any time or never. Therefore `FollowersCatchUp` is conditional on a leader that stays
(`Settled`), which is what timeouts longer than the heartbeat interval are for.
The run's logs have one entry, so a `next_index` goes back by one at most, and
forward again when a reply reports the follower's longer log; a repair of several
rejections in a row is not exercised.

### RaftWal

`role`, `currentTerm`, `votedFor`, `log` are memory; `campaign` is the term the
node last asked votes for; `todo` is what the append loop has left. `file.done` is
what the complete lines replay to, in the order `recover()` reads them,
`file.tail` what follows the last newline; `buffer` holds the records that failed
flushes left in the file object, oldest first, each with the file as it will be once
the buffer has been written up to it. Each action is one change of memory with its record: the
code makes the change first and then writes, but memory does not survive a crash,
so the order is not visible. `Write` has three outcomes:

- `WriteWhole`: what is left in the buffer, then the record, reach the file, and `fsync` returns;
- `WriteFails`: it raises, with the record left in the buffer (the flush failed)
  or in the file (`fsync` did). The caller does not get past it: `BecomeFollower`
  does not reach the role, `BecomeCandidate` asks for no votes, the append loop ends;
- `DieWriting`: the process dies and leaves part of the record, or all of it
  without its newline. `Recovered` reads that piece like a line; the
  next record is appended to it on the same line, which `json.loads` then rejects.

Any number of writes may fail (`MaxFailed`): `wal.py` has no limit and no retry. `Crash`
is the process dying between two writes; of the records in the buffer some may
have reached the file, and a piece of the next. That the machine dies, and takes with
it what a failed `fsync` left in the page cache, is not modelled. A request handled in several records (a new term,
then a vote, or entries) is several actions here. `welded` records that
something was written behind a torn line.

## Runs

All are exhaustive within their bounds. `CHECK_DEADLOCK FALSE` throughout: at the
bounds, or with every node stopped, the system really has nothing more to do.

| run | bounds | what it asks |
|---|---|---|
| `elections` | up to 3 nodes, started with 1, 2 or 3; 2 candidates, 2 terms, 3 calls waiting, 1 late; one node may stop, one is added | one vote per term, one leader per term |
| `replication` | 3 nodes, 2 candidates, 2 terms, 2 entries, 2 calls waiting, 3 where a broadcast overlaps an election | types, log matching, leader completeness, index = place, no skipped application, leaders only append and commit only their own term |
| `restarts` | started with 1 or 3 nodes; 2 candidates of which one may stop, 2 terms, 1 entry, one node is added | leader completeness and no skipped application over `Revive` and `Restart`; what a lone node answered |
| `deposed` | 3 nodes, 2 candidates, 2 terms, 1 entry, 1 late request | leader completeness, and no node drops a chosen entry, when a request of an older leader is still on its way |
| `reads` | started with 1 or 3 nodes, 2 readers, 2 terms, 2 entries, 1 read; 2 calls waiting, 3 where its pings overlap an election | what a read that covers the leader's term may miss |
| `progress` | 4 nodes, started with `{n1,n2,n3}` or `{n3,n4}`; 3 candidates, 2 terms, 1 entry; in the small cluster the leader may stop | every command returns; a leader that stays brings followers up to date |
| `wal` | 2 terms, 3 indices, 2 torn writes, 2 failed writes, crashes between records | durability and its exceptions, the append loop, refinement of `DurableState` |
| `falsecommit`, `acked`, `torn`, `staleread`, `twoadds` | | expected violations, see below |

*Why the bounds suffice for the cases meant.* Two candidates and two terms give
two elections in one term, a leader deposed by a second one, and a log that
conflicts with the new leader's. `MaxInFlight` counts calls whose caller waits; a
node calls both peers at once, so 2 lets the broadcasts of two nodes follow one
another, with requests of the first left over through `MaxLate`, and 3 lets one old
reply stay while another node broadcasts. In `replication` and `reads` the third call is
granted only where a broadcast (of entries, of pings) overlaps an election
(`Overlap`, `PingsOverlapElection`), which is the case it is for: an
acknowledgement, or an answered ping, on its way while a later leader is elected.
`deposed` and `restarts` stay at 2 for their size; `deposed` has a late request next to
them, and what they check is proved without these bounds. Two entries are needed for a log to diverge in its
middle; restarts and late requests get runs of their own, where one is enough. One addition in
`elections` starts from 1 or 2 nodes, so the quorum grows in the middle of an
election in both parities. `progress` has to decide liveness and takes the two
cases apart: a follower that is behind two leaders, and a leader that stops. In `wal`
three indices let a request overlap the log, conflict in its middle and extend it,
two torn writes let a recovery from one tear be torn itself, and two failed writes
leave two records in the buffer, of which a crash may write none, one or one and a half. `MaxTerm` bounds elections,
`MaxLogLength` commands, `MaxCommands` concurrent client calls, `MaxReads` reads.
One read of a node confirms at a time (`Confirm`), with pings of its own; the proofs
are for any number of reads under that bound.

*Reductions.* Node ids the bounds treat alike are symmetric (not in `progress`: symmetry
is unsound for liveness). The views leave out next and match
index outside leadership and tallies outside candidacy: each is reset before it
is read again. `LiveLogState` also leaves out the history of votes, elections and
answers, in runs whose properties do not read it (of `TypeOK`, which does, the
theorem covers what the view merges). `FirstReadSpec`, which `reads` checks, keeps the behaviours of `ReadSpec` up to the
first outcome, where reads begin once a candidate of the second term exists and
some answered command is chosen: before that a read has nothing to miss.

*Each property has a mutant*, a plausible mistake in the code it is about, and
its run finds it (`PROJECT.json`, `mutants`; the mutated definitions stand before the
originals).

### Where the code does not do what it says

1. `falsecommit` (`raft/node.py:399`): a success reply carries the follower's
   `last_log_index`, not the last index the request vouched for. Node 1 leads term
   1 and stores an entry nobody else has; node 2 wins term 2 and sends a
   heartbeat with an empty log, which node 1 accepts and answers with match index
   1. Before that reply arrives node 2 takes a command at index 1; the reply
   then counts for it, and node 2 commits an entry only it stores. Therefore
   `CommittedByQuorum`, and with it state machine safety, do not hold and
   are not among the passing properties; `LeaderCompleteness` is stated for what
   a quorum really stored.
2. `acked` (`raft/node.py:650`): `execute_command` returns `True` as soon as the
   commit index reaches its index, also when its node was deposed meanwhile and
   another leader's entry took the place.
3. `torn` (`raft/wal.py:33`): after a crash inside a write, the next record is
   appended to the torn line and lost with it at the next recovery, although it
   was synced and the node answered for it.
4. `staleread` (`raft/node.py:719`): the result of the NOOP is dropped. A new
   leader that could not commit its NOOP before the deadline takes its old commit
   index, has its leadership confirmed, and returns a state machine without a
   command that had been answered before. A leader with a committed entry of its term
   cannot miss one in this way: `CoveredReadsMissOnlyReplaced` says that its state
   machine has applied every answered command that a quorum stored, or else
   another entry in that place. The exception is real, by way of the first finding:
   a leader that falsely commits an entry applies it, its log is repaired by a later
   leader whose entry a quorum stores, but that index is not applied again there; when
   it leads once more it may commit an entry of its term, and read, without it.
   Commands that `execute_command` answered without a quorum behind
   them (second finding) are not promised at all.
5. `twoadds` (`tests/harness.py:212`): two nodes are added one right after the
   other, as the monitor does, between two elections of one term. Two of three
   votes elect the first candidate, three of five, none of them needed by the
   first, the second. `ElectionSafetyAlways` shows that one addition is safe.

## Proofs

Checked by `tlapm` for every finite set of nodes, any bounds, and the actions of
the modules as they stand. Assumptions: `NodeAssumption` (finitely many nodes,
`None` is not one), `InitialAssumption`, `BoundAssumption` (the bounds are numbers) and
`WalAssumption` (the same for `RaftWal`), which TLC evaluates in every run.

- `RaftLogProofs`: lemmas about the log operators: what `AppendLoop`,
  `EntriesAfter` and the summaries return for positioned logs, and that two quorums
  of a finite set intersect.
- `RaftNodeProofs`: `WellFormed` is inductive. `TypeOK` alone is not: that
  `applied` and `commitIndex` stay meaningful needs logs whose entries carry the index of
  their place, messages whose entries continue their `prevLogIndex`, and counters
  within the log's length. One lemma per action; `TypeCorrect`,
  `IndexIsPositionAlways` and `NoSkippedApplyAlways` follow.
- `ElectionProofs`: `ElectionInvariant` is inductive relative to `WellFormed`. Its
  parts: a vote cast in the current term is the one remembered in `votedFor`; a
  granting reply reports a vote that was cast; `votesGranted` equals the number of
  distinct `voters`; each voter cast that vote; a call and its reply
  occur at most once per peer and election (hence no vote is counted twice); whoever was
  elected has a quorum of cast votes in some cluster of `memberships`.
  `OneVotePerTermAlways` follows for any number of additions. If there is at most one
  (`MaxAdds <= 1`), the clusters ever used differ by one node, quorums of them
  intersect, two leaders of a term would have a common voter, who would have
  voted twice: `ElectionSafetyAlways`. `twoadds` shows that the condition is needed.
- `LogProofs`: `LogInvariant` is inductive relative to `WellFormed` and
  `ElectionSafety`. It says that there is a *ledger*: for every term that was won, one
  sequence of terms, the longest log its leader had in it. Every log, and the
  stretch of a log that each `AppendEntries` request carries, entry before
  included, agrees up to each of its entries with the ledger of that entry's term;
  a leader's log *is* the ledger of its term, which is why its next entry
  conflicts with none; whoever leads was elected, and no log is ahead of its node's
  term. The ledger is not a variable of the code: the invariant says that one
  exists, and the proof of each step names the next one (unchanged, started with
  the new leader's log, or longer by the entry a leader appends). The result of a
  follower's `AppendLoop` is spliced from its log and the request at an index where
  both agree. `LogMatchingAlways` follows, under `MaxAdds <= 1` as `ElectionSafetyAlways`.
  `LeaderAppendOnlyAlways` and `LeaderCommitsOwnTermAlways` need only `WellFormed`,
  and hold for any number of additions.
- `CompletenessProofs`: `CompletenessInvariant` adds to the ledger what later leaders
  owe to earlier ones. The entries the property is about, which a quorum stored in
  their own term, are not enough: acknowledgements may still be on their way when the
  next leader is elected. So the invariant is about the entries that are
  `Choosable`: in some cluster there was or may be, a quorum has stored the entry or
  has not left its term. Those only get fewer, because a node that left a term
  stores nothing in it. Each is in the ledger of every later term
  (`ChosenInLedger`), in the log of everyone who stored it (`ChoosableKept`), and in
  the log of a candidate with the vote of someone who stored it
  (`VotersHandOver`): the vote restriction makes the candidate's last entry at least as
  late, and the ledger of that entry's term has the choosable one. Whoever wins
  has in its quorum a voter that stored the entry before it voted
  (`LaterVoterStored`). `LeaderCompletenessAlways` and `ChosenIsKeptAlways` follow, with
  `MaxAdds <= 1`. `AloneKeepsAckedAlways` has an invariant of its own, about a node that
  never had company, and needs no such condition.
- `RaftReadProofs`: every step of `RaftRead` is, for `RaftNode`'s variables, one of its
  steps or a leader that sends pings (`Step`), and the invariants above hold over the
  second kind too. A leader has committed what it answered in its term
  (`AnsweredIsCommitted`), and by leader completeness its log has what was chosen
  before it. So a covered read's log has every command in question up to its read index,
  and goes on to have it (`ChosenStaysStored`), except those of a later term.
  `CoveredOrOutvoted` says what holds then: enough members stored that command, and
  left the leader's term with it, before they answer this read; they will reject
  its pings, and too few are left for a quorum of successes. That the pings of
  a node are of one read, at most one per peer, is `PingsApart`. When the read returns, as many
  entries are applied as its index says (`NoSkippedApply`), so the command's place in the state
  machine holds it or something the log does not have there any more.
  `CoveredReadsMissOnlyReplacedAlways` is about `ReadSpec`, without the restriction the run has
  on when reads begin, with `MaxAdds <= 1`; `ReadTypeCorrect` needs no such condition.
- `RaftWalProofs`: `WalInvariant` is inductive, for any number of torn and failed
  writes. Unless something is `welded`, which the theorems leave out and the
  `torn` finding is about:
  the file replays to a sound state (typed, entries at their places), what is left
  in `todo` continues the log or repeats its end, and memory is what the file
  replays to once the buffer has reached it (`MirrorOK`). Every record in the buffer takes one
  sound state to the next (`ImageOK`), because a crash may write any number of
  them; if a torn line ends the file, the first of them would be welded to it. The lemmas
  say what each kind of record makes of a state, and that each action's record, replayed, makes of the old memory the
  new one. `DurableUnlessPendingAlways` follows, for when nothing is pending in the buffer; with whole writes only, nothing is ever welded or pending
  (`MemoryIsDurableWhenWritesAreWhole`). `RecoverableIsDurableAlways` is the
  refinement: initial states map to initial states, and each step where no write
  is pending, no torn line ends the file and nothing was welded maps to a step of `DurableState` or to none.
  `LoopIsAppendLoopAlways` has an invariant of its own, `LoopInvariant`: after `k` entries of
  the request the log either still is the one before it, which has those `k`
  entries, or it is that log up to the first one that differs, followed by the
  rest of the `k`. It uses the types only and holds also over a log recovered from a
  welded file.

Every invariant and action property of a passing run is proved. Only model-checked:

- `CommandsReturn` and `FollowersCatchUp`: liveness needs fairness and with it
  `ENABLED`, which these provers do not handle;
- the violations: a proof cannot show that a behaviour exists.

Two conditions matter for what the theorems say of the code. `MaxAdds <= 1` is needed:
`twoadds` breaks `ElectionSafety` without it, and with it what is built on that.
And a restart in `RaftNode` recovers all the node had: `RaftWalProofs` shows when the
file allows that, `torn` when it does not.

## Not modelled

- Handlers that outlive `stop()` on an open connection, a second object revived
  on the same state, `/api/reset` and `add_node` on an old WAL file: a node is one object here,
  and its file is its own.
- What a cluster makes of a failed WAL write, and of the answers a node gives while
  its memory is ahead of the file: `RaftWal` has the node's side; the
  handlers of `RaftNode` do not fail.
- A crash of the machine: what was flushed is taken to be in the file.
- Time: timeouts and delays are abstracted to the order of events. That heartbeats
  come often enough to prevent elections is not shown.
- `apply_command_to_kv_store`: a deterministic function of the applied entries.
- JSON encoding (each field round-trips), the 64 KiB line limit, logging, event
  callbacks, REST, WebSocket, dashboard: no protocol state.
- `update_term_if_higher`, `append_entries` and `destroy` of the WAL: used by tests only,
  or not at all.

## Plan

1. *Done:* `RaftLog`, `RaftNode` with membership, `RaftWal` over `DurableState`;
   type correctness, the vote and election theorems, the durability theorems.
2. *Done:* `RaftRead` and `RaftProgress`.
3. *Done:* proofs of every invariant and action property of a passing run:
   log matching, leader completeness, kept entries, covered reads, the append loop.
4. `RaftLifecycle`: two objects of one id on one `RaftState`, with a file that may be
   closed; and handlers that fail in the middle, composed with `RaftNode`.
5. An abstract replicated log, `RaftNode` shown to implement it where the match
   index is right (each follower's log no longer than the leader's vouched prefix).
   There nothing is committed that no quorum stores, so `replaced` is empty, and a
   covered read misses nothing.
