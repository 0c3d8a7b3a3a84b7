# rkv: a TLA+ verification project

rkv is a Dynamo-style key-value store: every node runs a storage engine with a
write-ahead log and snapshots, a consistent hash ring, a gossip failure detector
and a coordinator that reads and writes with quorums. This directory models those
parts, checks them with TLC on small instances and proves the central properties
with TLAPS for every value of the constants. `PROJECT.json` names the source lines
behind every definition.

## 1. Inventory

| component | state it keeps | operations | module |
|---|---|---|---|
| `storage/memtable.rs` | sorted map under one `RwLock`, atomic size estimate | put, get, get_raw, scan, evict_expired, snapshot | `VersionedValue`, `MemTable` |
| `storage/wal.rs` | a file of JSON lines, a `BufWriter` before it, a sequence counter, under a mutex | open, append, replay, truncate | `WriteAheadLog` |
| `storage/snapshot.rs` | files named after the wall clock | save, load_latest, cleanup | `SnapshotManager` |
| `storage/engine.rs` | the three above, `flush_notify`, two background tasks | open, put, delete, flush, reaper | `StorageEngine`, `DurableStore` |
| `gossip/detector.rs` | a record per known peer, a heartbeat counter | add_seed, gossip_round, handle_gossip, check_failures | `Gossip`, `Membership` |
| `ring/consistent_hash.rs` | map from positions to nodes under one `RwLock` | add_node, remove_node, get_nodes, get_node, is_responsible | `HashRing` |
| `storage/memtable.rs` (`VectorClock`) | – | increment, merge, dominates | `VectorClock` |
| `replication/coordinator.rs`, `quorum.rs` | none between requests | put, get, delete, resolve_conflicts | `Replication` |
| `grpc/service.rs` | – | the client's and the nodes' RPC handlers | in `Replication` and `Gossip` |
| `bin/server.rs` | – | start-up wiring, seeds | in `Gossip`, `StorageEngine` |
| `bin/cli.rs`, generated `grpc/rkv.rs`, benches, `build.rs` | – | – | not modelled |

How they interact: a client's request reaches any node's `KvService`, which hands
it to the coordinator; the coordinator asks the ring for the preference list of the
key, uses its own engine if it is on the list, and calls `InternalService` on the
others; those handlers call their engines. Gossip messages arrive by the same
service and change the peers map and, under its lock, the ring. The engine's
snapshot task and TTL reaper run beside all of this.

What is hard, and which property is about it (`PROJECT.json` "hazards" has the lines):

* log, table and snapshots are updated under three separate locks, so writers, the
  flush and a crash interleave between any two of them (`SafeKeysRecoverable`,
  `RestartKeepsSafeKeys`, `TruncateIsCovered`, `WritesAreDurable`);
* a crash in the middle of an append or of a save leaves half-written files, and an
  append that returns an error leaves bytes in the file or in the `BufWriter`, which
  surface later (`SequencesIncrease`, `SafeKeysRecoverable`,
  `ImplementsDurableStore`, `OpenSucceeds`);
* values expire at any point of this (`OnlyWritesChangeReads`), and the size
  estimate is adjusted by differences (`SizeAccurate`);
* gossip messages are lost, delayed and overtaken, and restarts reset heartbeats
  (`RecordsMoveForward`, `HeartbeatsAreReal`, `RingFollowsStatus`,
  `ImplementsMembership`, `DeadLeaveTheRing`, `ReceiverFillsAddress`);
* nodes join, leave and change address in different orders on different nodes
  (`RingIsMembership`, `OnlyOneNodeMoves`, `ListsAreNearest`);
* RPCs fail, time out and are executed late, the coordinator need not be a replica,
  and the ring changes between the two looks a request takes at it
  (`AcknowledgedWritesReachQuorum`, `ReadsMeetWrites`, `RequestsEnd`,
  `StronglyConsistent`, `ReplicasConverge`);
* clocks, timestamps and tombstones decide between versions, pair by pair in a loop
  over the answers (`ClocksCoverThePast`, `PutsAreFound`, `DominantAnswerWins`,
  `NewestOfALineWins`, `FoundWasPut`).

## 2. Modules

```
VersionedValue ── MemTable ── SnapshotManager ─┐
       ├───────── WriteAheadLog ───────────────┴─ StorageEngine ── MCStorageEngine
       │             └── WriteAheadLogProofs ──┐    │   │
       │                                       └────┼───┴───────── StorageEngineProofs
       └───────── DurableStore  <── implements ─────┘
Gossip ── MCGossip, GossipProofs
   └── implements ──> Membership <── uses ── Replication
HashRing ── MCHashRing, HashRingProofs
VectorClock ── Replication ── MCReplication, ReplicationProofs
FoldLemmas ── StorageEngineProofs, HashRingProofs, ReplicationProofs
```

**Storage.** A version is a payload number, a length, a deadline and the tombstone
flag. `MemTable` is one action per locked operation. `WriteAheadLog` is a sequence
of pieces, `lines`: the file and then what the `BufWriter` holds. A piece is an entry
or bytes that do not parse (`Garbled`), with or without its newline; pieces that
share a line are skipped by replay, as an append after a torn one is. An append may
return an error (`WalAppendFails`), any number of times in a row: what it could not
write stays in the `BufWriter` and goes out with the next append that succeeds.
`pending` says how many of the last pieces the `BufWriter` may still hold. `truncate`
opens the file anew and then drops the old `BufWriter`, which writes what it holds
into the emptied file, at its beginning or, if an earlier truncate opened the handle,
behind a hole: that is `stale`, which the new handle, not in append mode, overwrites
from offset 0. Byte lengths are abstract. `Files` is every content a reader may find:
all but the last bytes of what is pending, and behind it whatever end of the stale
bytes is not yet overwritten, whole lines included; a reopening chooses one of them.
`SnapshotManager` maps
timestamps to files that are whole or not, and `save` is two steps. `StorageEngine`
composes them: a write is an append (`PutLog`, `DeleteLog`, or `LogFails`, after
which the handler returns) and later an insertion (`Insert`); `flush` is clone,
create, write, cleanup and truncate, any of which may fail with an I/O error; the
process may die between any two steps or inside an append, and `Open` rebuilds table
and counter from the files. Two history variables, `overlap` and `exposed`, name the
keys that the code leaves at risk: those logged or in flight while a flush runs,
those with two writes in flight at once, those whose append failed, and those
written onto a torn line or on one that a later append garbles. `Safe` is the rest.

`DurableStore` is what the code above the engine can rely on: a map that changes by
accepted writes and by expiry, and survives a death except for the keys at risk. A
write is accepted (`Accept`) or refused (`Refuse`), takes effect (`Apply`), and may
become safe (`Settle`); `Stop` and `Start` are a death and a reopening. Only a write
of a key puts that key at risk. `StorageEngine` maps to it by what a reader sees of
each key (`Shown`) and the keys that are exposed or that the flush under way, a
crash or the next append would expose (`AtRisk`).

**Gossip.** `peers[n][p]` is n's record of p, `ring[n][p]` the address under which p
is in n's ring. A round is two actions, because the code reads the peers map once to
choose targets and again to build the message. `HandleGossip` and `CheckFailures`
are one step each: the code holds the write lock of the peers map. Time is abstract:
`CheckFailures(n, late)` may find any set of peers late, which includes every
behaviour of the timeouts. Messages form a set and are delivered in any order or
never. `generation` is 1 for a node's own record and 0 for a seed, as in the code.

`Membership` is what is left of gossip for the rest of a node: every node has a set
of members of its own, which starts as its seeds and itself, always contains itself
and is revised one node at a time; no two nodes need agree. `Gossip` implements it
and `Replication` works with any membership that does, so what holds of requests
holds over the real failure detector.

**Hash ring.** `ring` maps every position to a node or `Vacant`; `Init` places the
vnodes of each id at arbitrary positions, so a run covers every hash function on its
ring. `GetNodes` is the code's walk: the tail of the ring chained with the whole
ring, position by position, where `Collect` passes over vacant positions and nodes
already met, and over everything once the list is full; the length test comes after
the push, so a replication factor of 0 gives a list of one.

**Replication.** One key, any number of requests at once. A request is begun by any
node; the second look at the ring (`CheckRing`), the local step, each replica's
execution, each RPC outcome and the return are separate actions. The list of peers
comes from the first look, whether the coordinator serves itself from the second,
and `ReviseRing`, an action of `Membership`, may fall in between; `Preference` gives
the replicas for every set of members. `flying` holds RPCs the network still has,
`applied` who executed the write, `acks` and `fails` what the coordinator heard; a
failed RPC may still be executed later. `delete` looks up the entry's clock
(`LookUp`) and stores its
tombstone in separate steps, on every replica by itself; `put` reads the clock once,
on the coordinator, before its local write. `OverTheWire` is the pair of
conversions: it clears `deleted`, because the protocol has no such field. `Resolve`
is the loop of `resolve_conflicts` and `Pick` one round of it. Versions
carry, as a history, the names and clocks of the versions they descend from. The
engine of a replica is the entry it holds; whether a value with a ttl has expired is
left open at every read and for the reaper.

## 3. Runs

`tlc -workers 2 -config X.cfg M`; `PROJECT.json` "runs" has the pairs. Properties of
passing runs are each shown to fail for a mutant of the mapped code.

| run | what it checks | distinct states |
|---|---|---|
| `storage` | `TypeOK`, `SafeKeysRecoverable`, `SizeAccurate`, `TruncateIsCovered`, `SequencesIncrease`, `RestartKeepsSafeKeys`, `ImplementsDurableStore` | 1.8 million |
| `storage_liveness` | `SafeKeysRecoverable`, `SizeAccurate`, `OnlyWritesChangeReads`, `ImplementsDurableStore`, `EventuallyInSnapshot` | 40 thousand |
| `gossip` | `RingFollowsStatus`, `HeartbeatsAreReal`, `RecordsMoveForward`, `ImplementsMembership`, `DeadLeaveTheRing` | 367 thousand |
| `replication` | `AcknowledgedWritesReachQuorum`, `ReadsMeetWrites`, `PutsAreFound`, `ClocksCoverThePast`, `RequestsEnd` | 512 thousand |
| `hash_ring` | `RingIsMembership`, `ListsAreNearest`, `OnlyOneNodeMoves` | 2.8 thousand |

Bounds, and why they are enough for the cases the properties are about:

* `storage`: two keys, three writes, two of them in flight at once, three faults
  (crashes and failed appends together, `MaxFaults`), one snapshot kept; values do
  not expire. Two writes of a key race each other or the flush and a third lands on a
  torn line; the second snapshot makes cleanup remove one; a failed append, a
  truncation that writes its entry back, a crash, a reopening that finds the entry and
  a write after it all fit, and so do two failed appends, the truncation and the
  reopening. Two failed appends, two short ones over the first of them and a fifth
  write after the reopening do not; `SequencesAlwaysIncrease` covers any number.
* `storage_liveness`: one key, two writes, one fault, values that expire at once or
  never, and a table that is full with one entry, so that the notification fires: a
  version can be replaced, or expire, while it is being saved, and the reaper
  adjusts the size; I/O errors of flush
  may strike any number of times.
* `gossip`: a chain of three nodes, the least with which a verdict arrives
  second-hand: n3 hears of n1 only through n2. n1 has two rounds in each life and n2
  one (`MaxHeartbeat`); two messages under way, one node down at a time and one
  restart let a message of a previous life arrive after one of the current life, and
  before or after the receiver's own timeout.
* `replication`: two requests by any of three nodes, of which two are replicas, so a
  coordinator is or is not a replica; R = 2, W = 1, N = 2 is the smallest case of
  R + W > N in which a write misses a replica. Deletes and changes of rings are one
  together (`MaxRare`); a change makes the two looks of one request, or the lists of
  two requests, disagree. Two requests suffice for the properties, which relate
  pairs; the theorems cover any number of each. A dominant answer needs two puts and
  a get, which this instance does not hold: `DominantAnswerWins` is a theorem for any
  number of requests instead.
* `hash_ring`: three nodes with two vnodes each on seven positions, all placements.

Symmetry is used where no liveness property is checked and no constant tells the
permuted values apart. Deadlock is not checked where a bound (or, for the engine,
an `open` that fails) lets the system stop; the hash ring never stops.

Fairness. `StorageEngine`: the runtime keeps running handlers and the snapshot task,
whose sleep always fires (weak fairness); an I/O step of flush that is tried again
and again does not fail every time (strong fairness on each step). The reaper, the
clock and crashes have none. `Gossip`: the one-second failure check keeps running,
and nobody hears from a node that is down except by messages already under way, so
some check finds it late; rounds and deliveries have none. `Replication`: the
handler keeps running (`Proceed`, `Finish`) and `rpc_timeout` ends every RPC; the network and the replicas
owe nothing.

## 4. Where the code does not do what it says

Each of these runs checks one statement and finds it violated (`PROJECT.json`
"findings" quotes the lines).

* `flush_race` (`WritesAreDurable`): a put completed between flush's clone of the
  table and the truncation of the log is in neither snapshot nor log. Two more ways
  to lose a completed write are behind the other keys in `exposed`: two puts of one
  key may be logged in one order and inserted in the other, and the first append
  after a torn line is glued to it and skipped by replay. And a put that was refused
  because its append failed may come back with a restart.
* `torn_snapshot` (`OpenSucceeds`): a crash in the middle of a save leaves a newest
  snapshot that fails its checksum, and `load_latest` does not try an older one.
* `gossip_address` (`ReceiverFillsAddress`): a sender's own record has a blank
  address that nobody fills in; it replaces the one the seeds gave, in the peers map
  and in the ring.
* `replication_reads` (`StronglyConsistent`): a get counts failed and timed-out peers
  as successes, so a read that heard only from itself passes as a quorum read.
* `replication_tombstone` (`FoundWasPut`): a peer's tombstone arrives as a live empty
  value.
* `replication_lines` (`NewestOfALineWins`): successive puts through one coordinator
  carry equal clocks, so with equal timestamps an older version can win against one
  that descends from it.
* `replication_converge` (`ReplicasConverge`): `replicate` stores whatever arrives
  without comparing clocks, and nothing repairs replicas later: two puts delivered in
  opposite orders leave replicas that executed the same writes with different values.

Also, without a statement to hold against it: two nodes that have declared each
other Dead never choose each other as gossip targets again.

## 5. Proofs

Assumptions are the `ASSUME`s next to the constants: types of the inputs, at least
one snapshot kept, `Absent`, `Garbled` and `Vacant` are not values of the data they
stand beside, finitely many keys, a finite non-empty set of nodes, no node its own
seed. No bound is assumed to be small.

* **Recovery** (`StorageEngineProofs`). `SafeKeysRecoverable` is not inductive: what
  flush will truncate depends on what it cloned, what an insertion does on what was
  logged. `RecoveryInv` adds, per key: the last log entry of a safe key shows what
  the table shows (`LogAgrees`); without an entry the newest snapshot does
  (`SnapshotAgrees`); a single write in flight is its key's last entry
  (`InFlightLogged`); outside `overlap` the clone agrees with the table, and what is
  in `overlap` is still logged (`CloneAgrees`); the file being saved is the newest
  and, once written, is the clone (`SavingIsLatest`); a dead process has no tasks
  (`DownIsQuiet`); and the keys of what the `BufWriter` may hold, of what a
  truncation wrote back and of an entry without its newline right before those are exposed
  (`LeftoversExposed`), without which an entry that surfaces or is garbled later would
  break the first two. What the reader finds is the subject of `WriteAheadLogProofs`:
  every content in `Files` is the written pieces, followed by pieces of what was pending
  or stale (`FilesShape`), so all contents show the same of a key that has no entry
  among those. One lemma per action; the theorems
  `RecoveryInvariant`, `SafeKeysAreRecoverable`, `RestartKeeps` and, with
  `DirectoryBounded`, `TruncateAlwaysCovered` follow. `TypeCorrect` and
  `ReadsChangeByWrites` are proved beside it.
* **Sequence numbers** (`SequencesAlwaysIncrease`). `SequenceInv` says that the counter
  is not below the number of any entry that replay would return from `lines`. An append
  keeps it, a truncation empties `lines`, and a reopening restores it from whatever
  file it finds. The property is about accepted writes and what precedes them, because
  the file as a whole need not be ordered: two refused writes 1, 2 that a truncation
  writes back, overwritten by two accepted ones 1, 2 that fit into the first, are read
  as 1, 2, 2. The last is the refused one, its key is exposed, and the next accepted
  write gets 3.
* **The durable map** (`EngineImplementsDurableStore`). Every action of the engine is
  a step of `DurableStore` or leaves its variables alone; the proof has one lemma per
  action and rests on `RecoveryInv` for `Start` and on `LeftoversExposed` for the
  truncation.
* **Gossip** (`GossipProofs`), for a cluster of any size: `RingAlwaysFollowsStatus`
  (inductive with the type invariant, proved ring entry by ring entry),
  `HeartbeatsAlwaysReal` (by `HeartbeatsHonest`, the same claim for views and
  messages), `RecordsAlwaysForward`, and `GossipImplementsMembership`, from
  `RingFollowsStatus`: every step revises one node's ring, and not that node's own
  entry.
* **Folds** (`FoldLemmas`). The size of a table is a sum over its keys, a preference
  list and the result of a get are left folds over a sequence: values of functions
  that the community modules define by recursion on the subsets of a set, through
  `CHOOSE`. The module shows from the library's theorem that `<` is well-founded that a
  set of naturals has a least element; from that, induction over the subsets of a
  finite set, stated with a set of subsets instead of a predicate
  (`SubsetInduction`), and that a function defined by such a recursion exists and is
  unique (`SubsetRecursion`). Sums then split off any element (`SumRecursion`), change
  by the difference when one summand does (`SumUpdate`) and bound their summands
  (`SumBounds`); a left fold is the last of a sequence of rounds (`FoldLeftRounds`),
  about which the users argue as about a loop.
* **Size** (`SizeAlwaysAccurate` in `StorageEngineProofs`). `SizeInv`, the equation
  itself, is inductive; the second half, that the counter holds at least what `put`
  subtracts from it, follows because no summand exceeds its sum. This is where
  `Keys` has to be finite.
* **Ring** (`HashRingProofs`), for any nodes, vnodes, positions and replication
  factor: `RingAlwaysMembership`, by the claim entry by entry (`Entries`), from
  disjoint vnodes. `ListsAlwaysNearest`, by the loop invariant `After` of `get_nodes`:
  after so many positions the list is the nodes whose first vnode has been passed, by
  distance, cut at the length. `OneNodeAtATime` follows from it:
  without the node that changed, the lists before and after lead the same other
  members by the same distances (`Leading`), and of two such lists one is a prefix of
  the other.
* **Replication** (`ReplicationProofs`), for any nodes, preference lists, quorums,
  number of requests and changes of rings: `QuorumInv` says who may be in `acks` and
  that `before` holds only acknowledged writes; `AcknowledgedReachQuorum` follows by
  counting, and `ReadsAlwaysMeetWrites` by counting and the intersection of two large
  subsets of the replicas. `ClocksAlwaysCover` rests on merge, increment and the wire
  keeping a clock above those of its lineage. `LoopInv` is the loop invariant of
  `resolve_conflicts`: it holds nothing or a live answer it has met, nothing only if it
  has met none, and the dominant answer from then on, since dominance goes one way.
  `ReadInv` ties the result of a get to the answers it collected, which gives
  `DominantAlwaysWins`: the comment at coordinator.rs:198 is right whenever some
  clock is dominant (without one, `replication_lines` shows what happens).
  `FoundInv`, while nothing is deleted or expires, says that a node that executed a
  write holds a value and answers with one; with the meeting of quorums it gives
  `PutsAlwaysFound`.

Only model-checked: the liveness properties `EventuallyInSnapshot`,
`DeadLeaveTheRing` and `RequestsEnd`, which are out of the prover's reach.

## 6. Not modelled

* Missing `fsync`: a crash is the death of the process, not of the machine.
* Two entries in the log that are equal byte for byte: every write carries a payload
  number of its own.
* A node that is its own seed. `SeedsAssumption` excludes it, since a seed is a peer;
  `server.rs` and `add_seed` do not enforce that. With such a seed the failure check,
  which has no test for the node itself, would declare the node Dead and take it out of
  its own ring, against `RingFollowsStatus` and `Membership`.
* `put` of the coordinator looks at the ring and then at its entry's clock without a
  lock; `BeginPut` is one step, since no property depends on what happens in between.
* A wall clock that steps back (the newest snapshot is then not the last one saved), and `timestamp_ms + ttl_ms` beyond 64 bits.
* Colliding vnode hashes.
* `scan` reads one engine under one lock, entry by entry as `Visible` says; its key
  ranges and its limit change no state and are left out.
* `hinted_handoff`, `transfer_keys` and `replicate` with `is_delete`, which nothing
  in the program calls: there is no behaviour of a sender to model. Likewise
  `MemTable::delete` and `drain`.
* The command line client, generated code, benchmarks.

The composition stops at `Membership`: the positions of the ring are `HashRing`'s, and
`Replication` takes the map from members to replicas as a constant, which is sound
because `RingIsMembership` shows that the members alone determine the ring.

## 7. Plan

Done, in this order: storage and its recovery, gossip, replication, the hash ring;
then failed appends, the durable map and its refinement, membership as the interface
between gossip and requests, rings that change under a request, convergence of
replicas; then proofs of the safety properties that rest on folds: the size
estimate, preference lists, the result of a get. Next:

1. a replica whose engine dies and reopens under a request, by replacing the entry of
   `Replication` with `DurableStore`;
2. `hinted_handoff` and `transfer_keys` once the program has a sender for them.
