# A TLA+ development of mini-dynamo

This directory holds TLA+ models of the distributed key-value store in this
repository, TLC configurations that check them on small instances, and TLAPS
proofs of the properties that matter most, for every size of the system. Paths
below are relative to the repository's root.

## 1. Inventory

| Component | State | Operations | Talks to |
|---|---|---|---|
| Storage engine, `internal/storage/bitcask.go` | append-only file, `bufio.Writer` over it, write position, open/closed, a file position shared by all users of `dataFile` | `Put`, `Delete`, `Get`, `Sync`, `Close`, `Compact`, `NewBitcask` (with `rebuildIndex`), read-only queries | the operating system; used by handlers and coordinator |
| Index, `internal/storage/index.go` | key -> offset or tombstone, two counters | `Put`, `Delete`, queries | used by the engine |
| Hash ring, `internal/ring` | sorted virtual nodes, set of physical nodes | `AddNode`, `RemoveNode`, lookups, token ranges, load, neighbours | used by coordinator, changed by `main.go` |
| Coordinator, `internal/replication/coordinator.go` | table of known nodes, ring, storage; per request: calls, responses | `Put`, `Get`, background `readRepair`, `RegisterNode`, `UnregisterNode` | HTTP to `handleReplication` and `handleInternalRead` of other nodes |
| Quorum manager, `internal/replication/quorum.go` | per call: counters, entries, mutex, WaitGroup, channel | `ExecuteRead`, `ExecuteWrite` | nobody calls it |
| Hinted handoff, `internal/replication/handoff.go` | hints per target with their attempts; the pass of the delivery loop | `Store`, `GetHints`, `RemoveHint`, `IncrementAttempts`, `cleanup`, delivery loop, `Stop` | `sendReplication` and the node table of the coordinator; nobody stores a hint |
| Membership, detector, gossip, `internal/gossip` | members with state and last heartbeat; peers; two loops working on them | heartbeats, `Merge`, suspicion and death by timeout, `Revive`; UDP gossip | `onStateChange` of `main.go` changes the ring |
| Versioning, `internal/versioning`, `pkg/types` | vector clock per key and node | `Increment`, `Update`, `Set`, `Delete`, `Compare`, `Resolve`, `Merge` | nobody calls it on the request path |
| API, `internal/api` | none | key-value, internal and admin handlers | coordinator, storage |
| Start-up, `cmd/dynamo/main.go`, `internal/config` | wiring | registers the node itself, connects detector and ring | everything |

What is hard here:

* **Storage**: `Get` runs under a *read* lock but flushes a shared writer and
  moves a shared file position; crashes fall between buffer, file and disk;
  writes fail after some of their bytes are out; compaction swaps file and
  index; the replay has to accept whatever a crash leaves.
* **Replication**: replicas store what arrives in the order it arrives; calls
  time out and are delivered later; failed puts stay where they got to; reads
  write (read repair) with a value chosen earlier; ring and node table change
  separately; clocks differ; deletes are local.
* **Quorum calls**: the caller is woken by a channel that two kinds of goroutine
  close, and goes on without the mutex.
* **Gossip**: the detection loop works on copies whose `Node` pointers are shared with
  the receive loop; the state is read several times without a lock while heartbeats
  change it; datagrams are lost, duplicated and overtaken; callbacks run outside
  every lock.
* **Handoff**: a pass sends from a copy while hints are added, dropped at the limit
  and expired; removal and counting go by key; attempts are counted on one copy and
  tested on another; `Stop` waits for the pass.
* **Versioning**: managers forget and reset clocks, `Resolver.Merge` counts on from the
  clocks of entries, timestamps disagree with causality.
* **Ring**: unsigned wrap-around, and nodes that see membership changes in
  different orders must agree.

`PROJECT.json` lists each of these hazards with its line and the properties that
cover it.

## 2. Modules

| Module | Models | Composes |
|---|---|---|
| `Index` | `internal/storage/index.go` | |
| `Bitcask` | `internal/storage/bitcask.go` | extends `Index`, implements `DurableMap` |
| `BitcaskProofs` | theorems about `Bitcask` and `Index` | |
| `BitcaskRefinement` | the proof that `Bitcask` implements `DurableMap` | extends `BitcaskProofs` |
| `DurableMap` | abstract: what `storage.Engine` promises about crashes | |
| `Coordinator` | `coordinator.go`, the key-value handlers, `onStateChange` | abstracts each replica's store to one entry, the ring to an order |
| `CoordinatorProofs` | theorems about `Coordinator` | |
| `QuorumManager`, `QuorumProofs` | `quorum.go` and theorems about it | |
| `HashRing`, `HashRingProofs` | `internal/ring` and theorems about it | justifies `Coordinator!PreferenceList` |
| `Gossip`, `GossipProofs` | `internal/gossip`, start-up and `onStateChange` of `main.go`, and theorems about it | composes membership list, detector, protocol and ring membership |
| `Handoff`, `HandoffProofs` | `handoff.go` and theorems about it | abstracts `sendReplication` to its verdict, the node table to a set |
| `Versioning`, `VersioningProofs` | `internal/versioning`, `VectorClock` of `pkg/types`, and theorems about them | |
| `MC*` | symmetry sets and constants of the instances | |

### Bitcask and Index

The file is a sequence of records and offsets count records; bytes that are no
whole record are one `Garbage` element, on which `readEntry` fails. `buf` is the
`bufio.Writer`; `split` says that the writer ran full in the middle of a record,
so that its first part is in the file; `werr` is the writer's sticky error.
Methods that hold `bc.mu` exclusively are one action (`Put`, `Delete`, `Sync`,
`Close`, `Compact`), each with its error returns as disjuncts (`WriteFails`,
`CompactFails`). `Get` is split at each access to shared state: lookup, the tests
of `Flush`, its `write`, its reset of the buffer, seek, read, return. `Kill` ends
the process, `PowerLoss` also takes any unsynced suffix of the file, and
`Open`/`RebuildStep`/`RebuildDone` are `NewBitcask`. `mem` is a history variable:
what successful calls have stored. `syncWrite` is the configuration and `diskFaults` the
environment, both chosen once. A value stands for value and timestamp.
`Has`, `Keys`, `Count` and `Stats` only read.

Assumptions: the disk does not alter synced bytes; a rename is durable when it
returns (the code does not sync the directory); the file is truncated from the
end by a power loss.

`DurableMap` is the contract: the engine answers from a map; a restart gives the
map built by a prefix of the writes, no shorter than what was last made durable;
a write that returned an error may come back as the latest one or not at all. The
refinement mapping sends the log to the set of maps its unsynced prefixes build.

### Coordinator

One key. Each request (`Puts`, `Gets`, `Deletes`, each issued once) has a phase, a
preference list, a state per call, and the coordinating node. `net` holds
replication requests in flight: `Deliver` is `handleReplication` on the
destination, `Timeout` makes the sender give up while the request may still
arrive, `Lose` drops it. A read is answered in one step (`ReadAt`) or fails.
`readRepair` goes through the list node by node; its local check and write are
two steps because nothing is locked in between. `Crash` ends the requests of a
coordinator. `Serial` restricts clients to one request at a time, with everything
earlier ones caused at rest: it separates what the protocol loses to concurrency
from what it loses anyway. `before[o]` (what was over when `o` started) and
`regressed` (some replica replaced a live entry by an older one or by a
tombstone) are history variables.

The replica's store is one entry per node, with the atomicity `Bitcask` gives
`Put` and `Get`; `Rank` stands for the ring order, which `HashRing` justifies
(`PreferenceListExact`). A node crash keeps its store, as `RecoverySafe` proves
for `SyncWrites`; what the default setting may lose is `DurableMap`. Clock skew is
a constant; the runs leave it at 0 and `ReadsFresh` is proved for any.

### QuorumManager

One call with one goroutine per replica. Each statement that touches shared state
is an action: record under the mutex, `append` (length first, then the element,
as the compiled code does), quorum test, `close(done)`, unlock, `wg.Done`; the
waiter's test and close; the caller's wake-up, loop and return. A slot that is
being written is read as nothing, as a timestamp without a value, or whole.

### HashRing

Tokens have `Width` bits and wrap around. The hash function is any injective
assignment of tokens to virtual nodes, chosen in `Init`; collisions of the 64-bit
hash are left out. `AddNode` and `RemoveNode` are the actions; lookups are operators
on the slice. `Arrange` lists the elements at some positions by the number of positions
before each. It stands for `sort.Slice` (`Sorted`) and for the loop of `RemoveNode` (`Without`);
the operators of the standard modules for these are closed to the provers.

### Gossip

`members[n][m]` is state and age of the last heartbeat of `m` in the list of `n`.
Every method of the list is atomic (it holds the lock); everything between two
methods is a step of its own. `det[n]` is `checkMembers`: `CheckMembers` copies the
list and the heartbeat ages; then for one member after the other `ReadOldState`,
`Switch`, `TransitionTo`, `Compare`, `Notify` and `Callback`, each of which reads the
state again through the shared pointer. `rcv[n]` is `handleMessage`: `Receive` (with
the state that `RecordHeartbeat` remembers), `Record`, the three steps of `Revive`, its
callback, `Merge`. `GossipTo` puts a copy of the list on the network; `Receive` takes the
datagram or leaves it there (a duplicate), in any order; `Lose` drops it. `Start` and
`Crash` are the process: nothing is persistent. `removed` is history.

Time is the age of heartbeats: `Tick` makes every age, those in datagrams too, one
older, up to one past both timeouts. So clocks are synchronised here, which the code
assumes when `Merge` compares heartbeat times of different nodes. `Prompt` says that a
pass and a handler take less than a unit of time. It is an assumption about
scheduling, and `DeadOffRing` needs it: with `Prompt = FALSE` TLC finds a `Revive` that
sleeps before its callback until the detector has declared the node dead again, and
then puts the dead node on the ring.

`AddMember`, `RemoveMember`, `RemovePeer`, `SendDirectMessage`, `BroadcastToAll` and
`IncrementVersion` have no caller, and nothing reads the version; they are left out.

### Handoff

The list of a target is a set of hints with increasing ids. `Store` (any caller, any
time), `Cleanup` (everything up to some id has expired) and `Membership` (the
coordinator's table) interleave with the pass: `StartPass`, `CheckAlive` per target,
`GetHints` (the copy), then per hint `SendSucceeds` or `SendFails`, `RemoveDelivered` or
`Increment` followed by `GiveUp` or `KeepTrying`. What the request does to the target is
`Coordinator!Deliver`; a send that failed may have been applied all the same.
`acked` and `failures` are history. `MaxAttempts` is 10 in the code.

Two things the model shows about the code that are no property of it. `RemoveHint`
goes by key, so a newer hint, stored after the pass took its copy, is removed
undelivered when the older one succeeds; removing only the delivered hint would keep it,
but `NeverSentBackwards` then fails (that is its mutant), because a newer hint that
gets through would leave the older ones of the key to be sent after it. And a limit
of 0 would panic in `hints[1:]`; `main.go` passes 1000.

### Versioning

One key; a clock counts 0 for the nodes its map does not have. The actions are the
exported operations of `VectorClockManager`, and `Reconcile` (`Resolver.Merge`, then
`Update` with the result). A version carries its `past`, the set of events known where it
was made; causality is membership in it. `reused` are the nodes that may have given
one count to two events: by `Set` or `Delete`, which lower their count, or because
`Resolver.Merge` counts from the entries it is given and not from the manager.

## 3. Runs

Passing runs:

| Run | Instance | Shows |
|---|---|---|
| `BitcaskEngine` | 2 keys, 2 values, 1 reader, 3 records; `SyncWrites` on and off, disks that fail and that do not | index, position, answers and tombstone counter stay right; implements `DurableMap`; acknowledged writes survive with `SyncWrites` |
| `CoordSerial` | 3 nodes, N=3 R=W=2, two coordinators, 2 puts, a get, a delete, one request at a time | types, fresh reads, acknowledged writes stay on their quorum, repair heals |
| `CoordChurn` | 2 nodes, one not registered, one membership change, 2 puts and a get that overlap, N=2 R=1 W=2, fairness | stale reads need a replica that regressed, every request ends |
| `QuorumCall` | 3 replicas, 2 timestamps, every level, fairness | one close, right verdict, a quorum of entries, the call returns |
| `GossipCluster` | 2 nodes, one gossips to the other, timeouts 0 and 1, kills and restarts, fairness | dead nodes are off the ring, heartbeats never go back, crashes are detected, false deaths heal |
| `HandoffDelivery` | 2 targets, 2 keys, 3 hints, 2 per target, given up after 2 failures, fairness | never older after newer, not given up early, lists drain, `Stop` returns |
| `VersionCausality` | 3 nodes, 3 versions, 2 timestamps | clocks order versions as causality does, the resolver respects it |
| `RingLookups` | 3 nodes, 1 or 2 tokens each, 8 tokens | lookups, ranges, loads and neighbours agree with their definitions |

Runs that end in a counterexample; each states what a document, comment or test of
the repository says, and `PROJECT.json` quotes it:

| Run | What the code does |
|---|---|
| `BitcaskTornRestart` | a torn last record makes every restart fail |
| `BitcaskReadRace` | two `Get`s at once: a wrong record is returned |
| `CoordLateWrite` | a late message undoes an acknowledged put; W + R > N does not help |
| `GossipRevive` | a dead node is heard again: it is alive in the list and stays off the ring |

Further disagreements, each a variation of an instance above that ends in a short
counterexample. From `CoordSerial`, always with one put: without the delete,
`QuorumReadAnswers` is violated (a quorum of answers, fewer than R of which hold the
key, is "key not found"; the repository's `README.md:527` says reads still work); with it, `DeleteRemoves` is violated (a delete marks one replica,
`handlers.go:198`); with `Peers <- SelfOnly`, what `main.go` registers, and
neither get nor delete, `HealthyPutSucceeds` is violated (no put reaches W=2).

Other variations that a reader may want to try: `BitcaskEngine` with
two readers and `SyncModes = {FALSE}` violates `IndexPointsHome`, because both
readers flush the same buffer; `CoordSerial` with `Levels = {"one", "quorum"}` and
N=2, R=2, W=1 violates `QuorumReadFresh`, because the repair of a read at level one
overwrites an acknowledged put.

Three further things the models follow the code in, listed as hazards and not as runs of
their own: `Index.Put` of a deleted key lowers the count of tombstones without raising
that of keys again (`index.go:57`; `DeletedCountExact` states what does hold); the token
total in `vnode.go:84` is 2^64 for a full ring and so 0 in 64 bits (`LoadCountsTokens`);
the caller of a quorum read goes through the entries without the mutex
(`quorum.go:169`), so it may read a slot that is being written.

Bounds. `MaxRecords` bounds the log; three records hold a put, a tombstone or an
overwrite, and a rewrite, on either side of a crash or a compaction. Every request
is issued at most once: two puts, a get and a delete are what it takes for an
entry to be overwritten, repaired and read. `MaxChanges` bounds membership
changes. In `GossipCluster` one node is listened to and one listens, with everything
that can happen inside the listener; two nodes that gossip to each other have more than
ten million states, and three are out of reach. What a third node may add, news of
a member from somebody else, is covered by `NodesServe` and `HeartbeatsOnlyAdvance`,
which are proved for every cluster. Timeouts 0 and 1 leave ages below, between and past
both. Three stores in `HandoffDelivery` fill a list of two and add to it during a pass.
Three versions are the fewest with two concurrent ones and a third made from one or
both. Three nodes with N=3 are the smallest cluster whose quorums intersect in
one replica. Requests of one kind, keys, values, workers and ring nodes are
interchangeable and declared symmetric in runs without liveness (nodes of `VersionCausality` too). The
coordinator and quorum runs end when all requests are over, so deadlock is not
checked there.

Fairness. `Coordinator!FairSpec` has weak fairness on the steps of a coordinator:
goroutines are scheduled and `http.Client.Timeout` bounds every call; nothing is
assumed of the network. `QuorumManager!FairSpec` has strong fairness on each
goroutine, because `sync.Mutex` hands itself to a starving waiter, and assumes that
operations return, as their context has a timeout. `Gossip!FairSpec`: goroutines and
tickers run (weak fairness on either loop and on sending), time goes on (strong, since
`Prompt` makes it wait), a datagram does not travel for ever (weak fairness on `Lose`), and of
infinitely many datagrams of a pair one is received (strong on `Receive`): the usual fair
lossy link. Nothing makes processes start or stop. `Handoff!FairSpec`: the delivery loop
runs and sends end by their timeout; with `stopCh` closed, Go's `select` chooses it
in the end (strong on `LoopEnds`). Nothing is assumed of targets, `Store` or `cleanup`.

## 4. Proofs

`BitcaskProofs` and `BitcaskRefinement` (assumptions: finitely many keys, values that are not
the special ones, a bound on the log; any of each):

* `TypeCorrect`, `IndexSafe`, `PositionSafe`, `GetSafe`, `DeletedCountSafe`: `Spec => []P` for
  `TypeOK`, `IndexPointsHome`, `PositionExact`, `GetReturnsLatest` and `DeletedCountExact`, with
  `SingleReader` (no two `Get`s at once). The condition is needed: `BitcaskReadRace` and the
  variation of `BitcaskEngine` in section 3 show what two readers do. The inductive
  invariant has a part for each phase of the engine. `HomeInv`: while it is open and the writer has no
  sticky error, the index finds `mem` in file and buffer together, and the position is their length. `ReaderInv`: at
  each of its steps a `Get` has found a record of its key, nobody else moves the cursor,
  and after the flush the buffer is empty. `RebuildInv`: half way through a replay the index
  stands for the records replayed. `LifeInv`: a process that is not open has no buffer, and
  a closed file or a sticky error comes from a failing disk. `SyncInv`: with `SyncWrites` and a disk that works, `mem` is the
  map of the file.
* `RecoverySafe`: `Spec => SyncedWritesSurvive`, and `WrittenAtOnceSafe`: with `SyncWrites` and a
  disk that works, types, index, position and tombstone counter are right. Both hold for
  any number of readers, because the buffer is always empty and no `Get` has anything to
  flush (`Calm`). The answers of several `Get`s still go wrong: they share the cursor.
* `Refines`: `Spec => ImplementsDurableMap`, with `SingleReader`. One lemma per action:
  `Put` and `Delete` map to a write or a write that fails, flushes and syncs to making writes durable or to no
  step, `Compact` to a checkpoint, `Close`, `Kill` and `PowerLoss` to a stop, the end of a replay to
  a restart with the map of one of the prefixes.

`CoordinatorProofs` (assumptions: finite set of nodes, 1 <= R, W <= N, distinct
ranks, disjoint request names; W + R > N is *not* assumed):

* `TypeCorrect`: `Spec => []TypeOK`. The inductive invariant adds which phases each
  kind of request goes through, and that messages of a get carry a live entry
  (`NetInv`, `AnswerInv`); without it a repair could send `NoEntry`.
* `ReadsFresh`: `Spec => []FreshUnlessRegressed`. As long as no replica regressed, the
  set `Good(p)` of replicas that hold an entry no older than put `p` only grows.
  `AppliedInv`: a call of `p` that is "ok" is in it. `HeldInv`: after the
  acknowledgement it has a write quorum. `ReadingInv`: for a get that started
  later, at least a write quorum of replicas still hold, or have answered with,
  something no older. When the get finishes, R of the at most N nodes of the
  two preference lists have answered, so one of them is among those (`QuorumsMeet`), and
  the highest timestamp is at least that of `p`.
* `RepairsHeal`: `Spec => []ReadRepairHeals`, for `Serial` clients. `AloneInv`: one request is in
  flight, and what is on the network is its own. `SentInv` and `StoredInv` say what its calls
  have stored, `ReadInv` that what a get has read is still there; so `HealInv`, a call
  of a repair that is "ok" left the answer of the get.
* `AckedWritesStay`, `SerialReadsFresh`: `Spec => []AckedWriteHeld`, `Spec => []QuorumReadFresh`, for
  `SerialClients`: one request at a time, no clock skew, quorums of all levels that intersect
  (W + R > N), and one preference list (no more nodes than N, or no membership
  changes and the same ring everywhere). `ClockInv`: a put has a newer timestamp than
  everything stored. `SendInv`: nothing older than an acknowledged put is ever sent, since a
  repair sends an answer and the read quorum met the holders. `HoldInv`: the
  holders of an acknowledged put stay a write quorum. Here replicas do regress, a repair
  may replace a newer tombstone by an older entry; that is why
  `ReadsFresh` does not give this, and why the condition on clients is needed
  (`CoordLateWrite`).

`QuorumProofs` (assumptions: finitely many workers, 1 <= R, W <= N):

* `ClosedOnce`: `Spec => []NeverClosedTwice`. `Locked` ties program counters to the
  mutex, `Closing` says that whoever is about to close has found the channel open and
  that the waiter is past `wg.Wait` only when all goroutines are through.
* `VerdictCorrect`: `Spec => []VerdictExact`. `Counting` equates the counter with the
  number of recorded successes and gives the two reasons for a closed channel.
* `AnswerCorrect`: `Spec => []LatestOfFirstQuorum`, and `TypeCorrect`. `Slots`: an element of
  the slice belongs to a goroutine that recorded, and is not whole only while its owner is
  in `append`, with the mutex. `QuorumWritten`: the elements of the quorum are whole before the
  channel is closed, because the goroutine that closes it holds the mutex and the waiter comes after all of
  them. So the caller, without the mutex, may miss later entries but none of the quorum's.

`GossipProofs` (assumptions: seeds are nodes, timeouts are natural numbers; no fairness, and
`Prompt` for the last theorem only):

* `TypeCorrect`, `NodesServe`: `Spec => []TypeOK`, `Spec => []SelfServes`. The inductive
  invariant adds `DetOK` (the detector only works on members of the list, never on the
  node itself) and `RcvOK` (the sender whose heartbeat is being recorded is a member).
  Without the first a callback could take the node off its own ring; without both a loop
  could create an entry for a node that is unknown.
* `HeartbeatsOnlyAdvance`: `Spec => HeartbeatsAdvance`, from the same invariant and one
  lemma per method of the list on what it does to ages (`UpdateStateDoes`,
  `RecordHeartbeatDoes`, `MergedDoes`).
* `DeadNodesOffRing`: `Prompt` gives `Spec => []DeadOffRing`. `OnRing`: a dead node is on the
  ring only until the pass that declared it dead has reported it. `Deciding`: that pass
  found the node suspect at first, so it notices the change, and a node it
  reports alive is alive. `OnePass`: if `Revive` finds the node dead, the pass of this
  tick is past it and cannot declare it dead again before the callback. Only this part needs
  `Prompt`.

`HandoffProofs` (assumptions: there is a target, and room for at least one hint; any
number of targets, keys and attempts):

* `NeverBackwards`: `Spec => []NeverSentBackwards`. `Listed` says of a list and of the copy
  that ids are unique, at most `stored`, and that only the first hint of a key has
  attempts; `AckInv` that between an acknowledgement and `RemoveHint` the last acknowledged
  hint is the current one, so that what follows it in the copy is newer.
* `NotGivenUpEarly`: `Spec => NeverGivenUpEarly`. `Counted` bounds the attempts of every hint
  by the failures of its key, `FailInv` by one less in between a failure and
  `IncrementAttempts`. Since only the first hint of a key has attempts, those left in the copy
  when its hints are removed start from none again.
* `TypeCorrect`: `Spec => []TypeOK`, with the limit of `Store`: `First` picks a hint of the
  list (`FirstIs`, from the well-foundedness of `<`), so there is always room.

`VersioningProofs` (assumption: timestamps are natural numbers; any number of nodes and
versions):

* `Causality`: `Spec => []ClocksTrackCausality`. The invariant says of every view, that
  is the clock of a manager or of a version with the events it stands for, that it
  contains an event of a node that reused no count exactly when its count for the node is
  as high (`Exact`), that it is nowhere below a version it contains (`Carries`), and that no
  clock is ahead of a node's own count (`Behind`).
* `WinnersNotSuperseded`, `MergesSupersede` and `TypeCorrect` follow from it and from
  lemmas on `Compare`, `Merge` and `MergedClock`.

`HashRingProofs` (assumptions: at least one virtual node per node, 2^`Width` is positive; any
nodes, finitely or infinitely many):

* `TypeCorrect`, `CanonicalSlice`: `Spec => []TypeOK`, `Spec => []RingCanonical`. The inductive
  invariant says that tokens increase along the whole slice (not only from one to the next) and that
  the hash has no collision. `ArrangeDoes` is the lemma on sorting and filtering: the number of
  positions before one is an injection into as many numbers, so it numbers them all.
* `RangesAreOwners`: `Spec => []RangesMatchOwners`. `RangeHolds` says what a range holds without
  the wrap around of `uint64`, `StartIdxDoes` what `sort.Search` finds.
* `ListsExact`: `Spec => []PreferenceListExact`. `Distinct`, the loop with a `seen` map, is a
  recursive function; `DistinctIs` gives it a closed form: its k-th id is the one at the k-th
  position where the walk meets an id for the first time. The explicit function satisfies the
  recursion, and two functions that do are equal, since a smallest position where they differ cannot
  exist (`<` is well-founded; no induction theorem is instantiated). `OffsetsGrow` says that distances
  from the key increase along the walk, so that members are met in the order of their nearest token.
  This is what entitles `Coordinator` to compute preference lists from a `Rank`.
* `OneReplicaMoves`: `Spec => OnlyOneReplicaMoves`. By `ListsExact` a list is determined by distances,
  and those of the other nodes do not change with a join. `JoinedLists` compares two lists of ranks,
  before and after: up to the place of the new node they are equal, from there on shifted by one.
* `NeighboursAre`: `Spec => []NeighboursAgree`. `LeaveOutFirst` relates the loop that starts with the
  node itself in `seen` to the one that does not; with one token per node, position i of the walk back
  is position `Len - i` of the walk on.
* `LoadsCounted`: `Spec => []LoadCountsTokens`. `NodeLoadIs` says what the sum over the slice is: any
  function that adds one range at a time. `RangeSizeIs` says that the size of a range is the number of
  tokens it holds, except that the only range of a ring of one token counts 0 instead of 2^`Width`,
  which is the same in unsigned arithmetic.

Only model-checked: liveness (`RequestsEnd`, `CallReturns`, `CrashDetected`, `FalseDeathHeals`,
`HintsDrain`, `StopReturns`), which needs fairness and `ENABLED` and is out of this prover's
reach. Every invariant and every action property of a passing run has a theorem.

## 5. Plan

Done: all components of the inventory have a module, and the theorems above are proved.
Next, in this order:

1. `Node`: membership changes of `Gossip` driving ring and node table of `Coordinator`.
2. In `Bitcask`: the old file that a power loss may bring back after a rename.

## 6. Not modelled

Formatting, logging, flags, configuration files, middleware, admin endpoints and the load
generator. Key encoding (`fetchFromNode` does not escape the key, so one with `&`, `#` or
`+` is read under another name on remote replicas). Several keys at once in `Coordinator`
and `Versioning`, where keys are independent. Clocks that differ in `Gossip`, and datagrams
that do not parse or do not fit. The order of `Stop` calls at shutdown: a process that ends
is `Crash`, `ProcessEnds` or `Handoff!Stop`. The directory is not synced after the rename
of a compaction; the model takes the rename to be durable.
