# A TLA+ model of memstash

memstash is a two-level cache for Go: a sharded in-memory first level with
TTLs and a choice of eviction policies, and an optional second level (L2:
Redis, SQL, Mongo, ... behind an adapter) that is written through, either at
once or by background workers. This directory holds TLA+ specifications of its
concurrent and algorithmic core, the TLC configurations that check them on
small instances, and TLAPS proofs that lift the most important results to every
instance. Every definition is translated from the Go source; `PROJECT.json`
maps each to the lines it models.

## 1. The system and its parts

| Part | Source | Module |
|---|---|---|
| Slot table: open addressing, tombstones, overflow groups | `internal/itemstore/map.go` | `FlatHashMap` |
| Shard writers: set, delete, lazy expiration, sweep, rebuild, eviction | `cache.go` | `Shard` |
| What a shard promises its callers | (abstract) | `FirstLevel` |
| Item: meta word and seqlock between one writer and lock-free readers | `internal/itemstore/item*.go`, `cache.go` | `Item` |
| Lock-free probes and walks of a table that writers change | `cache.go`, `batch.go`, `internal/itemstore/map.go` | `Readers` |
| TTL clock, expiration offsets, lifetimes in snapshots | `cache.go`, `item.go`, `snapshot.go` | `Expiry` |
| Write-back to L2: queues, workers, batches, `Wait`, `Close` | `cache.go`, `batch.go` | `WriteBack` |
| Eviction policies: GCLOCK, S3-FIFO, W-TinyLFU, SIEVE | `internal/eviction/*.go`, `internal/itemstore/queue.go` | `QueuePolicies`, `Sieve`, `EvictionPolicies` |
| The two levels together: write policies, promotion, loads, batches | `cache.go`, `batch.go`, `getandrefresh.go`, `l2.go` | `TwoLevel` |
| Batch calls of an L2: helpers and the fifteen adapters | `l2/l2.go`, `l2/*_adapter/*.go` | `L2Adapters`, `L2Batch` |
| What a shard asks of its policy | `eviction.go` | `PolicyHost`, `Policy` |
| Coalesced reads: lazy pool, queue, recycled answer slots | `getbatched.go`, `cache.go` | `GetBatched` |
| Singleflight: registry, flights, the four loading operations | `singleflight.go`, `cache.go`, `batch.go`, `getandrefresh.go` | `Singleflight` |

How they interact. A key's hash picks a shard; everything that changes a shard
runs under its mutex (`Shard`). Reads take no lock: they probe the table and
copy the item, validating the copy by the generation in the item's meta word
(`Item`), while writers change the table around them or replace it
(`Readers`). The eviction policy holds one queue node per occupied slot; a deleted
item stays in its slot as a tombstone until the policy gives the node back
(`NodesMatchSlots` in `Shard`); `Policy` states that contract and the four
policies are shown to keep it. An expired item is a live item until a reader
or the policy comes across it (`Expiry`; `Expire` and `DropExpired` in
`Shard`). A Set or Delete then goes to L2 through the key's worker
(`WriteBack`). A read that misses both levels may load the value; loads of one
key share a flight (`Singleflight`). `GetBatched` is a read whose L2 request is
put together with those of other goroutines by a pool of workers. `TwoLevel`
composes the levels: memory as one map, the queue of a worker and the calls of
an adapter (`L2Batch`), which follows one of the plans of `L2Adapters`.

## 2. The modules and the code

### FlatHashMap, Shard, FirstLevel

`FlatHashMap` has no state. A table is a record `[len, slot, over]`: `slot[s]`
is the item in slot `s` and `over[g]` the overflow count of group `g`, the
number of entries whose home is in group `g` and that live elsewhere. An item's
status is what the table tells apart of the meta word: `empty` (word 0),
`live`, `dead` (a tombstone a queue node still references) and `free` (dead and
released). The one-byte tags that prefilter key comparisons are dropped. A probe
loop is stated by the step `d` at which it ends (`SetProbeEnds`, `Finds`,
`FreshProbeEnds`), and a loop that never ends is one without such a `d`.

`Shard` has the fields of `shard` as variables (`items`, `live`, `dirty`,
`deadCount`, `weight`), the policy as a number of nodes per slot (`nodes`), and
the local state of the two long loops that run under the mutex: `pc` says
whether its holder is rebuilding the table (`RebuildNode`, `RebuildDone`) or
evicting (`Evict`). Each other operation is one step: `SetMemory` with its
three outcomes `Insert`, `Resurrect` and `Overwrite`, `SetTooHeavy`, `Delete`,
`DropExpired`. `KillAt` contains `noteDead` and the sweep it may trigger.
`Insert` contains `maybeRebuild`. The policy hands out any node, so results
hold for all four policies. `owed` is a history variable: stores of a pair less
the `OnDeletion` calls for it.

`FirstLevel` is the abstract specification: a map that puts one key at a time,
drops any entry at any time, and reports each value that leaves in the step in
which it leaves. `Shard` implements it under the mapping
`content[k] = Lookup(items, k)`, i.e. through what a whole probe returns.

### Item

One item between the holder of the shard mutex and lock-free readers. Every
atomic operation on the meta word is a step, and so is every load or store of a
machine word of the entry. The loads of a copy, and the stores of a write,
happen in any order, which covers what compiler and processor may do between
the two loads of the meta word; the fence of `item_other.go` and the total
store order on amd64 keep them between those loads. Narrow values (one word)
are overwritten in place without a new generation; wide ones go through an odd
generation. The code draws the line at `unsafe.Sizeof(value) > 8`; the model
takes 8 bytes to be one machine word (`Wide`), as on every 64-bit platform.
Readers may touch (chance bits) and refresh the TTL of what they read. `build` says which cache the item belongs to (words of a value, offsets,
refreshing reads); it never changes.

### Readers

`Readers` extends `Shard` with readers that take no lock: `get` is `getMemory`,
`group` one key of `batchGetGroup`, `delete` the probe of `livePresent` and the
removal under the mutex that follows it, `walk` is `iterateWithLife`, which
`Iterator` and `SaveTo` share. The load of a meta word is a step, and so is the
load of an overflow count, which writers change one step after the slot
(`late`). A rebuild leaves readers under way on the table they loaded
(`Superseded`); writers go on in the new one. The copy of an entry is one step
here, because `Item` shows what a validated copy is. What a reader is compared
with is history: `seen`, everything that was true of its key since the call
began, `changed`, the keys written since, `lapsed`, those that had expired when
a walk began. `dropExpired` is two steps: `Drop` takes the mutex and repeats the
check of the word, `DropKill` kills the item. A reader that loaded the clock
before the item lapsed may renew it at any moment, without the mutex (`Renew`);
`raced` remembers one that did so between the two steps. Tags are modelled here, as `Tag`: a
candidate with another key sends `batchGetGroup` back to `getMemory`.

### L2Adapters, L2Batch, TwoLevel

`L2Adapters` has no state. For every adapter it says how a batch becomes
requests: which positions of the batch each carries, how many run at a time,
and whether a failure keeps the next from starting. That is where adapters
differ: one command or a pipeline (the Redis family, by size, TTL and cluster),
duplicates collapsed to the last value where the backend refuses them (SQL,
pgx, Mongo, DynamoDB, the map of rueidis and valkey), chunks in a row or at the
same time, one goroutine per item (memcached). `Setting` is what else decides.

`L2Batch` runs such a plan against a store that executes requests as a whole,
command by command, or in part (`UnprocessedItems`), or fails them. `Closed` is
the worker loop of `runConcurrent`, `AfterTry` the bounded retry of DynamoDB,
`Read` the pairing of answers with keys. What a failed request had not executed
may still be executed later, or never (`adrift`): a timeout, a lost reply, or a
future nobody waits for any more.

`TwoLevel` has memory, one write-back worker and its queue, and clients that
call `Get`, `Set`, `Delete`, `GetOrLoad`, `GetAndRefresh` and their batches
under one of the three write policies. Every key of a batch is looked up,
written, promoted or queued in a step of its own; the policy's forwarding to L2
follows the last write, as in the code. `truth` is what was last written to
memory. `spoilt` marks keys on which the code does not promise agreement; the
comment at `Spoil` lists the five causes, each a race or failure that the code
leaves open. A call that writes the key while none of them happens mends it.

### Expiry

One entry on the wrapping coarse clock. `time` counts instants, a ticker stores
the clock once a second with a phase against the epoch, and readers and writers
see only the stored value. Rounding, the cap of the TTL, the reserved offset 0
and the conversions of a snapshot are modelled by what they compute. A snapshot
takes time: `SaveTo` notes its moment, `WalkShard` loads the clock when the walk
reaches the entry's shard, `WalkItem` reads the entry, and time passes in
between. `until` is what the caller was promised, `units` the clock units after
which the entry is to expire.

### WriteBack

`Begin`, `CheckStop`, `Send` and `Sync` are `enqueueL2` (the check of `stop`,
the non-blocking send, the fallback on the caller's goroutine). `Receive`,
`FlushWrite`, `FlushRun` and `DeliverRun` are a worker, with `Close` taking
over its queue after it ended. A task is a number, which is also the value it
writes; its kind is a delete or a lifetime (`flushRun` batches equal kinds
only). The adapter is external: a call succeeds, fails, or panics, and `InOrder`
says whether it applies a batch in its order; the memcached adapters, which set
the items of a batch concurrently, do not. `fate` is a history variable: what
became of each task, with a fate of its own for batches that panicked
(`panicked`) and for what was lost with them (`dropped`).

### Singleflight

A call looks into memory, claims or joins a flight, asks L2, runs the loader,
releases, and wakes whoever waits. `Look`, `Claim`, `Recheck`, `AskL2`,
`Loaded`, `LoaderPanics`, `Release`, `Finish`, `Wake` are the owner's steps;
`WaitOver`, `WaitPublish`, `WaitAgain`, `WaitWoken`, `WaitCanceled` a waiter's.
The lazily created channel is the `waiter` field (`nil`, `open`, `closed`).
`LoaderPanics` is a panic of the loader or of the L2 adapter that is asked
before it.
Values may leave memory at any time (`Forget`).

### PolicyHost, Policy, QueuePolicies, Sieve, EvictionPolicies

`PolicyHost` is a shard as a policy sees it: items that are live with some
chances, expired, dead or absent, and the method that runs (`pc`). Methods run
one at a time under the mutex, but readers touch items between any two steps,
and a touch may renew an item that has expired meanwhile; an expired item keeps
its chances.
`Policy` is the contract of the `EvictionPolicy` interface over the set of
queued slots: `Evict` hands out one of them, `Sweep` removes all dead ones and no
others, `Rebuild` visits each once.

`QueuePolicies` has GCLOCK, S3-FIFO and W-TinyLFU: `probation` is `small` or
`window`, `main` the protected queue, `probWeight` the weight field, and a turn
of the loop of `Evict`, `SweepQueue` or `RebuildQueue` is a step. What the ghost
table and the frequency sketch answer is left open: both only choose between two
legal outcomes. `Sieve` keeps every pointer: the slice of nodes, both links, the
freelist, the hand, and the place where a sweep or a rebuild stands.
`EvictionPolicies` puts a shard on top of one of the four, and states the
refinement mapping: a rebuild's unvisited nodes are `queued`, its visited ones
`moved`. `target` is a history variable, the victim that an undisturbed call
must return.

### GetBatched

`Begin` to `Direct` are the caller: it starts the pool if need be, takes a slot,
queues its key and waits for the answer, its context or `Close`. `Receive` to
`Drop` are a worker: it drains the queue up to the batch limit, settles what
memory has by now, asks L2, and settles every slot that waits for a key. A slot
is its reference count, the signal in `done` and the answer, which is the name
of the call it was settled for. `CloseBegin`, `ClosePool` and `CloseWait` are the
parts of `Close` that concern the pool. The key index of a batch is a set.

## 3. The runs

Each run is one question. Times are for two TLC workers.

| Run | Question | Bounds | Result |
|---|---|---|---|
| `shard_small` | Do table, counters, queue, weight and OnDeletion stay consistent, does every probe end, and does the shard implement the abstract map? | 4 keys that collide, three costs against a capacity of 2, tables of 4 and 8 slots in groups of 1, TTL | holds (26121 states) |
| `item` | Can a reader return a torn or foreign pair, or revive a dead item; does a used meta word become 0, or stay odd? | 2 keys, 2 values of two words or of one with refreshing reads, 4 writes, generations modulo 8 | holds (2051296 up to symmetry) |
| `readers` | Is the answer of a lock-free probe true at some moment of the call; are walks exact on what is left alone; does lazy removal spare what was renewed? | 1 reader, 3 keys of which two share home and tag, tables of 4 and 8, one operation while a reader is on a replaced table, TTL with refresh | holds (451067) |
| `expiry_small` | Does an item live its TTL and expire in time? | a scale of 12 units, almost two turns, one snapshot that takes up to 3 instants | holds (1411878) |
| `expiry_cap` | The first of the two when the TTL reaches its cap | a scale of 8 | violated |
| `writeback` | Are queued tasks lost, repeated, reordered; does Wait cover them; are queues drained; do Wait and Close return? | 3 sets and deletes of a key, queue of 2, adaptive batches of 2, an adapter that mixes up a batch, panics, Wait and Close | holds (643458) |
| `writeback_order` | Do the writes of one key keep their order? | queue of 1 | violated |
| `writeback_panic` | Does a panic cost only its batch? | a delete behind a set | violated |
| `singleflight` | Does one loader run; are results final and fresh; is the registry exact; does every call return? | 2 goroutines, 2 keys, all operations, batches that cross, 1 slot and spill, cancellation | holds (524557) |
| `getbatched_pool` | Are slots recycled exactly when unused; does an answer reach its own call; do calls and Close return? | 2 callers, 3 calls, 2 keys of which one caller asks for both, queue of 1, 1 worker, cancellation, panics, Close | holds (126382) |
| `two_level` | Do the levels agree; do reads find what was last written; do calls and queued writes end? | 2 clients, 2 calls, 2 keys, every plan of every adapter, three write policies, 1 failed request, one key that memory may evict | holds (436437) |
| `policies` | Do the four policies keep the contract, their weights and links, and pick the victim their definition names; do scans progress? | 3 slots, costs 1 and 2, 2 touches | holds (445691 up to symmetry) |

**Why the bounds are enough.** The shard's run has collisions that wrap
around the end of the table, chains through live, dead and free slots, growth,
same-size rebuilds, sweeps and evictions (coverage shows that every action
fires), and the theorems of section 5 remove the bounds for everything but the
weight, as they do for the safety of `Item`, `Singleflight` and `WriteBack`; groups of more than one slot, where the early exit matters most, are
left to them. A read of an item is torn by a write between two of its loads; with four
writes a read sees an overwrite, a release and a reuse, and generations modulo
8 come around (`ReadsWhole` is stated for reads that see fewer than the three
writes after which a generation repeats; in the code 2^27 - 1). The TTL scale wraps
twice. For queues the interesting sizes are empty, one, full and overflowing,
and a batch of two is the least that has a task behind its first. Two
goroutines are an owner and a waiter, and after it returned the waiter is the
late caller too; batches deadlock, if at all, in a circle of two. Three calls
on two slots are one that left its slot behind, one that gets the slot next and
one beside them. Three nodes in a list have a first, a middle and a last one,
and in a queue a node before and one behind the one that is turned. A reader
is overtaken between its loads by any number of writers' steps, and readers do
not wait for each other, so one is enough beside the writers; two keys with one
home make chains, a third one displaces them. In `two_level` one client calls
the batch operations on both keys and on a repeated one, the other the single
operations on the key they share; L2 holds one key at first and not the other,
and the second value made for a key is too heavy for memory. Chunk limits of 1
and 2 make every adapter split a batch of two where it can. The same instance
with three calls and no failed request has been checked once for its two
invariants (10.9 million states).

`MaxTableSlots`, `MaxWrites`, `MaxTime`, `MaxSave`, `MaxTasks`, `MaxCalls`, `MaxTouch`,
`MaxFaults`, `MaxBehind`, `Stores`, `Wanted`, `Evictable` and `Mortal` are the model's own
bounds. The first refuses an insert that would grow the table past it (the code
has no such limit); the others end the run, and for that reason, or because a
call is made once per goroutine, some runs do not check for deadlock.

**Fairness.** `Shard` assumes that the goroutine holding the mutex runs,
`WriteBack` that workers, Wait and Close are scheduled and adapter calls
return (a `Set` may stall in the middle), `Singleflight` and `GetBatched` the same of loaders and of L2. `TwoLevel` assumes
less: that some client, the worker or L2 takes a step as long as one of them
can; a request of L2 may be handed back for ever as far as fairness is
concerned, and it is the bound on retries that ends it. That a context ends is never assumed.
All of it is weak fairness, which the Go scheduler provides. Nobody is assumed
to begin an operation.

## 4. What the runs found

Where a comment says more than the code does, a run shows the difference; the
source lines and quotations are in `PROJECT.json`.

1. `expiry_cap`: with a TTL at the cap, an offset that wraps to 0 is moved to
   1, one past half the scale: the item is expired when it is stored.
2. `writeback_order`: a write that finds the queue full overtakes the older
   writes of its key, and L2 keeps the older value.
3. `writeback_panic`: the task that ended a batch is lost with it when the
   adapter panics, although it was not part of it.

Other comments go a little further than the code. There the property of a
passing run says exactly what is true:

4. `ExpiresInTime` (`cache.go:940`, `cache.go:949`): a wrap to offset 0 moves the
   expiration one unit later, not earlier, and an expired item that nobody touches
   for half the scale is found alive again.
5. `LivesAtLeastTTL` (`cache.go:867`, `snapshot.go:28`): a record of a snapshot
   counts from the start of `SaveTo`, but its life from the clock of the entry's
   shard. A restored item loses the time the walk had spent by then.
6. `SparesRenewed` (`cache.go:609`): an item renewed between the re-check of
   `dropExpired` and `Kill` is removed, as the renewal does not take the mutex.
7. `QueuedInOrder` (`cache.go:1077`): after a batch with duplicate keys an adapter
   that works concurrently may leave an older one, but one of that batch.
8. `NothingLost`, `WaitCovers` (`cache.go:274`): the task of 3 is not reported, and
   `Wait` returns although it was not handed over. A panic loses at most one.

Smaller things met on the way, which the models contain and the properties
allow for: an eviction that takes a tombstone does not lower `deadCount`, so
sweeps may come early; a touch and `RevokeChance` can leave the chance bits in
state 01.

From `Readers`: a lookup may miss a key that was there throughout, if the word
it loaded expires after the key was overwritten or renewed; between the
publication of a displaced item and its count, one reader may see it and a
later one not; a TTL refreshed in a table that a rebuild has already copied is
lost with the table. The comments at `FlatHashMap` and `Iterator` allow the
first two in words; `AnswersTrue` and `WalkExact` say how far they go.

From `TwoLevel`: `writeBatch` says "duplicate keys collapse to the last value
there, as FIFO order would" (`cache.go:1077`), which holds for every adapter
but the memcached ones, whose concurrent `BatchSet` may apply the older
duplicate last; under write-back a `Get` that follows an eviction, or a
`Delete`, may read the older value from L2 and promote it; a load, or a
promotion, that overlaps a `Set` may override it in memory. All are causes of
`spoilt`, so `LevelsAgree` says that nothing else makes the levels part and
that the next write that is not disturbed mends them.

## 5. The proofs

TLAPS checks the following for every value of the constants that meets the
named `ASSUME`s.

| Module | Theorem | States |
|---|---|---|
| `ShardProofs` | `TypeCorrect` | no overflow count, counter or node count drops below zero |
| | `OneSlotPerKeyAlways` | a key is in at most one slot |
| | `FindSlotCompleteAlways` | a probe finds exactly the live items |
| | `ProbesEndAlways` | every table has an empty slot |
| | `CountersExactAlways` | `live` and `dirty` are exact |
| | `NodesMatchSlotsAlways` | one policy node per live item and queued tombstone |
| | `DeletionReportedOnceAlways` | each stored value is live, or reported exactly once |
| | `Implementation` | the shard implements `FirstLevel` |
| | `RebuildKeepsContentsAlways` | a rebuild changes no lookup |
| `FlatHashMapProofs` | `FindsExactlyTheLive` | the same of any well-formed table |
| `ItemProofs` | `SnapshotsWhole` | what a reader validates is one whole pair that the item held during the read |
| | `OddInWrite` | the generation is odd only between `beginWrite` and `endWrite` |
| | `NeverEmptyAgain` | the meta word of a used item never becomes 0 |
| | `OnlyPublishRevives` | a dead item becomes live only through `Publish` |
| `SingleflightProofs` | `RegistryIsExact` | the registry holds the flights not yet released, one per key |
| | `LoadsCoalesce` | no two loaders run for one key at a time |
| | `JoinsAreFresh` | a flight that can be joined is not over |
| | `ReadsAreFinal` | what a waiter takes from a flight is its final result |
| `WriteBackProofs` | `QueueLosesNothing` | a queued task is in exactly one place until it is handed over, and a panic loses at most one beside its batch |
| | `QueueKeepsOrder` | queued tasks of a caller and key are handed over in order, and L2 ends with the last, or with one of the last batch if the adapter mixes it up |
| | `WaitIsABarrier` | `Wait` covers what was queued before it, but for what a panic lost |
| | `CloseLeavesOnlyRaces` | after `Close` only tasks whose calls overlapped it are left |
| `GetBatchedProofs` | `SlotsCountedExactly` | a slot's count is the number of goroutines that may still touch it |
| | `AnswersAreOnesOwn` | a caller reads the answer to its own call, however slots are recycled |
| | `CloseEndsThePool` | once `Close` has returned no worker runs or starts |

Each result rests on an inductive invariant `IInv`, described below; TLC
finds it true on the instance of the component's run as well.

### The shard

For any sets of keys and values, any hash function, any positive costs and
capacity, any group length and any initial table of at least four groups.

**The inductive invariant.** `IInv` (`ShardStepProofs`) adds to the type
invariant and the exact counters: `Sound` tables, i.e. each key held once,
every slot between a key's home and its slot occupied, and every overflow count
equal to the number of live entries displaced from its group; `Owes`, the
account of `OnDeletion`; while no rebuild runs, `Linked` nodes and an occupancy
below 3/4; during a rebuild, that the new table holds exact copies of the live
items already visited, that the remaining nodes reference the rest, and that it
will be less than 3/4 full. The checked invariants are not inductive by
themselves: `FindSlotComplete` needs the chains and the overflow counts,
`ProbesEnd` needs the counters and the load, and both must hold of the table
under construction before it is published.

**The one surprise of the proof.** The early exit looks at the *home* group's
count once, when the probe reaches the group's edge. It is right because an
entry that lies outside its home group is counted, and because a probe that
wraps all the way back into its home group (possible only in tables of few
groups or nearly full ones) cannot happen: with at least four groups and a
quarter of the slots empty a chain is shorter than that. `PastEdgeIsOutside`
is that argument, and `SizeAssumption` the assumption it needs; the code's
smallest table has 64 slots in 8 groups.

### The item

For any number of readers, keys, values and words of a value, and any even
modulus of the generations from 6 on (the code's is 2^28).

The checked invariant speaks of a copy that was validated; the argument is about
copies under way. `IInv` says, by where the writer is, what the meta word and the
words of the entry are (`MetaInv`, `EntryInv`), and of each reader: as long as
fewer writes have begun than bring a generation back, the generation is ahead of
the one it loaded by exactly the writes since (`GenInv`), so an equal one means
none; and while it is equal and even, the words copied so far belong to one pair
the item held since the first load (`CopyInv`). For values of one word, which
are overwritten in place under one generation, that pair need not be the
current one, and a copy of a single word is whole by itself: this is where the
restriction to one word is used. `Advanced` is the arithmetic of a generation
that skips 0 when it wraps.

### Singleflight

For any number of goroutines, keys and bucket slots, and any set of single and
batch calls, with and without L2 and cancellation.

`RegistryExact` relates the registry to every caller's place, so `IInv` says what
each caller owns at each place: `OwnedInv` that the flights of a batch are its
own, distinct, and not over but for the one that is being woken; `RegistryInv` that
what is registered is the union of what the callers hold, that `at` tells
where, and that a key is there once, whether in a slot or in the spill map.
`OneLoader` follows since a loader runs only for keys its caller holds.
`ReadsFinal` is inductive with one addition, that a channel is closed only when
its flight is over.

### Write-back

For any number of callers, waiters, keys and workers, any assignment of keys to
workers, any queue and batch size, all three batching modes and any outcome of
the adapter calls.

The object of the proof is the line of a worker, `Pending(w)`: what it has in
hand, then its queue. `Receive`, `FlushWrite` and `FlushRun` move a border inside
it; only `DeliverRun` and the closing of a marker take something out, and only
`Send` and `WaitPut` add something, at the end. `Lined` says that the line is
the markers and the tasks of the worker's keys that are queued, each once, and a
caller's tasks of one key in the order they were issued in. `Shrinks` is what it
means to take a stretch out, and the lemmas about it (`ShrunkLined`,
`ShrunkBehind`) and about `Append` carry the whole invariant through every step.
What else `IInv` needs: a caller's task is its newest (`CallInv`), or `Send`
would not keep the order; a marker is behind every task its `Wait` has to cover,
in the line (`Behind`) and in hand (`MarkedInv`), and a waiter that has not
sent its marker yet finds none; a worker ends only after `stop`, and what is
queued for one that ended belongs to calls that overlap `Close` (`HomeInv`,
`CloseInv`).

`FateInv` (`WriteBackProofs`) is a second layer, about what became of the tasks,
and inductive together with `IInv`. A run is of one kind and no longer than
`BatchMax` (`RunInv`), so what a batch leaves behind is of its kind and short of
its length. A worker drops no more tasks than panicked (`LostInv`): each panic
adds at least one task to the one set and at most one to the other. What a
`Wait` has to cover went through a queue (`MustInv`). `LevelInv` says what L2
holds of a key that has one caller and no failed or synchronous write; it is
stated for the tasks handed over so far, as "all were handed over", of the checked
property, is not preserved step by step. The adapters that keep the order of a
batch, the case `InOrder`, are covered by `QueueKeepsOrder`; the run `writeback`
has the adapter that does not.

`QueuedInOrder` leaves out the synchronous fallback, as it must: the run
`writeback_order` shows that it overtakes the queue.

### GetBatched

For any number of callers, workers and slots, any queue and batch size, with and
without cancellation, and any answer, error or panic of L2.

`RefsExact` counts a slot's users wherever they are, so `IInv` says first where a
request is: in the queue, in a worker's batch, among those it settles or the one
it is about to release, and in one of them only (`PlacesInv`, `WorkerOK`).
`OwnersInv` says that a slot has at most one caller and at most one request, and
that if it has both they belong to one call. Hence the count is a sum of three
terms that are 0 or 1 (`CountInv`): the caller, the caller a second time until
the request is sent, and the request. A slot whose count is 0 is clean, its
signal drained, which is what lets the next call take it; so a signal that a
caller can see comes with the answer to its own call (`AnswerInv`), even if the
slot's earlier caller was cancelled and its request was settled late.

### Assumptions, layout, limits

**Assumptions.** Only the named `ASSUME`s of `FlatHashMap`, `Shard`, `Item`,
`Singleflight`, `WriteBack` and `GetBatched`: markers for "none" are not client
data, slots or task numbers, hashes are naturals, the group length, costs,
capacity, queue and batch sizes are positive, the first table has at least four
groups, the modulus of the generations is even and at least 6, a batch has a key,
and a waiter is not a task number. TLC evaluates them in the runs. `TypeCorrect`,
`OneSlotPerKeyAlways` and `RebuildKeepsContentsAlways` are proved only: the
invariants they state are not among those `shard_small` checks, which would
break with them.

**Layout.** A component's proofs are the invariant, lemmas on its operators, one
lemma per action and the theorems. The shard's are in three modules:
`FlatHashMapProofs` (arithmetic of probes, cardinalities, what each mutation does
to a well-formed table), `ShardStepProofs` (the invariant, `Init`, `SetMemory`,
`KillAt`, `Expire`, `Evict`) and `ShardProofs` (rebuild, `Next`, the invariants,
the refinement). Those of write-back are in two: `WriteBackStepProofs` (the
invariant, the lines of the workers, the steps of workers, `Wait` and `Close`) and
`WriteBackProofs` (the callers, the second layer of the invariant, the theorems).

**Only model-checked.** Liveness and everything under fairness
(`MutexReleased`, `WaitAndCloseReturn`, `CallsReturn`,
`CallsEnd`), which the prover does not do. `WeightExact` and `ProbationExact`:
they are about the sum of a function over a set or a sequence, which needs
induction with an operator parameter. What else has no proof
are safety properties that were not attempted: those of `Expiry`
(`LivesAtLeastTTL`, `ExpiresInTime`), of the policies (`KeepsContract`,
`NodesExact`, `ListSound`, `VictimSettled`, `ScanProgresses`), of `Readers`
(`AnswersTrue`, `WalkExact`, `SparesRenewed`) and of `TwoLevel` (`LevelsAgree`, `ReadsTrue`).

## 6. What is not modelled

* The stores behind the adapters, and the client libraries: external. `L2Batch`
  states what the adapters rely on. An L2 that expires or evicts by itself is
  left out of `TwoLevel`; the conversions of a TTL into what a backend takes
  (whole seconds or milliseconds, rounded up, absolute beyond 30 days for
  memcached) are pure arithmetic on one value, and so are the codecs.
* `keyFunc` is taken to be injective. Two keys with one storage key are one
  entry of L2, which the adapters do not promise to tell apart.
* In `TwoLevel` a batch claims its flights in one step, and a key that another
  call loads is answered by that flight without a wait; `Singleflight` has the
  claims one by one and the waiting. `Close` is in `WriteBack` and `GetBatched`.
* The snapshot stream: its framing and checks, a sequential encoding. The
  lifetimes it carries are in `Expiry`, the walk that writes it in `Readers`.
* The ghost table of S3-FIFO and the frequency sketch of W-TinyLFU: both are
  approximations whose answer the policies may take either way.
* Configuration and memory budget (computed once, before any concurrency),
  statistics (independent counters), the loadable wrapper (no state), the
  resolved-key set (a set local to a call), benchmarks and container set-up.
* A panic of `OnDeletion` on the caller's goroutine: nothing in the repository
  says what the cache owes its callers then. Nor a panic of the L2 adapter while a
  loaded value is written through.
* 32-bit platforms, where a value of 8 bytes is two machine words.
* Writes that come after exactly one turn of an item's generation, 2^27 - 1 of
  them during a single read.

Further proofs would be worth their effort for the policies (`KeepsContract`),
`Expiry` (`LivesAtLeastTTL`) and `Readers` (`AnswersTrue`).
