------------------------------- MODULE Shard -------------------------------
(***************************************************************************)
(* One shard of the first level (cache.go): its slot table, its counters,  *)
(* and the eviction policy as far as its contract goes.  Every operation   *)
(* runs under the shard mutex.  The two loops that hold it for long, the   *)
(* table rebuild and the eviction, are steps of their own: pc says which   *)
(* of them the holder of the mutex is in, and "idle" that nobody holds it. *)
(*                                                                         *)
(* The policy (eviction.go, EvictionPolicy) is a number of queued nodes    *)
(* per slot.  Evict hands out any of them and Rebuild visits them in any   *)
(* order, so what is shown here is shown of every policy that keeps the    *)
(* contract.                                                               *)
(***************************************************************************)
EXTENDS FlatHashMap, FiniteSetsExt

CONSTANTS Cost,          \* rawCost of a value: at least 1
          Cap,           \* the shard's capacity, in units of cost
          MinTableSlots, \* slots of the initial table (64 in the code)
          MaxTableSlots, \* bound of the model: no rebuild past this size
          SweepMinDead,  \* tombstones before a sweep is considered (128)
          TTLEnabled     \* the cache was built with a TTL

ASSUME CostAssumption == Cost \in [Value -> Nat \ {0}]
ASSUME CapAssumption  == Cap \in Nat \ {0}
ASSUME SweepAssumption == SweepMinDead \in Nat \ {0} /\ TTLEnabled \in BOOLEAN
\* Tables of at least four groups, as 64 >= 4 * 8: see FindSlotComplete.
ASSUME SizeAssumption ==
  /\ MinTableSlots \in Nat /\ MaxTableSlots \in Nat
  /\ MinTableSlots >= 4 * GroupLen

VARIABLES
  items,      \* the current table
  live,       \* sh.live
  dirty,      \* sh.dirty
  deadCount,  \* sh.deadCount
  weight,     \* sh.weight
  nodes,      \* nodes[s]: how many policy nodes reference slot s
  pc,         \* what the holder of the mutex is doing
  delta,      \* weightDelta of the Set whose rebuild is running
  fresh,      \* the table being filled by a rebuild
  freshNodes, \* the nodes the policy has re-linked to it
  freshLive,  \* the rebuild's own count of the items it moved
  owed        \* owed[<<k, v>>]: stores of v under k less its OnDeletion calls

table   == <<items, live, dirty, deadCount, weight, nodes>>
rebuild == <<delta, fresh, freshNodes, freshLive>>
vars    == <<table, pc, rebuild, owed>>

NoNodes(t) == [s \in Slots(t) |-> 0]

Init ==
  /\ items = NewFlatHashMap(MinTableSlots)
  /\ live = 0 /\ dirty = 0 /\ deadCount = 0 /\ weight = 0
  /\ nodes = NoNodes(items)
  /\ pc = "idle"
  /\ delta = 0 /\ fresh = NewFlatHashMap(0) /\ freshNodes = NoNodes(fresh) /\ freshLive = 0
  /\ owed = [e \in Key \X Value |-> 0]

Stored(k, v)   == [owed EXCEPT ![<<k, v>>] = @ + 1]
Reported(k, v) == [owed EXCEPT ![<<k, v>>] = @ - 1]

\* policy.Len
PolicyLen(q) == MapThenSumSet(LAMBDA s : q[s], DOMAIN q)

Queued(q) == {s \in DOMAIN q : q[s] > 0}

\* What follows once the weight is w and the policy holds q: evictShard runs
\* while the weight exceeds the capacity and there is a node to take.
AfterWeight(w, q) == IF w > Cap /\ Queued(q) # {} THEN "evict" ELSE "idle"

-----------------------------------------------------------------------------
(***************************************************************************)
(* setMemory                                                               *)
(***************************************************************************)

\* Variant: the table is rebuilt when it is full.
NeedsRebuildFull(l, d) == l + d >= items.len

\* maybeRebuild: 3/4 occupancy, tombstones included.
NeedsRebuild(l, d) == 4 * (l + d) >= 3 * items.len

NewSize(l) == IF 2 * l >= items.len THEN 2 * items.len ELSE items.len

\* A new key claims an empty slot or a released tombstone on its way.
Insert(k, v) ==
  \E d \in Slots(items) :
    /\ SetProbeEnds(items, k, d)
    /\ ProbeItem(items, k, d).st = "empty"
    /\ \E c \in Slots(items) :
         LET s      == ProbeSlot(items, k, c)
             dirty1 == IF c = d THEN dirty ELSE dirty - 1
             nodes1 == [nodes EXCEPT ![s] = @ + 1]
         IN  /\ c <= d /\ Claims(items, k, d, c)
             /\ NeedsRebuild(live + 1, dirty1) => NewSize(live + 1) <= MaxTableSlots
             /\ items' = Publish(items, s, k, v)
             /\ live' = live + 1
             /\ dirty' = dirty1
             /\ nodes' = nodes1
             /\ owed' = Stored(k, v)
             /\ UNCHANGED deadCount
             /\ IF NeedsRebuild(live + 1, dirty1)
                THEN /\ pc' = "rebuild"
                     /\ delta' = Cost[v]
                     /\ fresh' = NewFlatHashMap(NewSize(live + 1))
                     /\ freshNodes' = NoNodes(fresh')
                     /\ freshLive' = 0
                     /\ UNCHANGED weight
                ELSE /\ weight' = weight + Cost[v]
                     /\ pc' = AfterWeight(weight', nodes1)
                     /\ UNCHANGED rebuild

\* A key whose tombstone its queue node still references comes back to life.
Resurrect(k, v) ==
  \E d \in Slots(items) :
    LET s == ProbeSlot(items, k, d)
    IN  /\ SetProbeEnds(items, k, d)
        /\ items.slot[s].st = "dead"
        /\ items' = Publish(items, s, k, v)
        /\ live' = live + 1
        /\ dirty' = dirty - 1
        /\ deadCount' = IF deadCount > 0 THEN deadCount - 1 ELSE 0
        /\ weight' = weight + Cost[v]
        /\ owed' = Stored(k, v)
        /\ pc' = AfterWeight(weight', nodes)
        /\ UNCHANGED <<nodes, rebuild>>

\* Variant: the overwritten value is not taken off the weight.
WeightDeltaNew(old, v) == Cost[v]

\* weightDelta of an overwrite.
WeightDelta(old, v) == Cost[v] - Cost[old]

\* An overwrite in place: the item, its node and its slot stay put.
Overwrite(k, v) ==
  \E d \in Slots(items) :
    LET s   == ProbeSlot(items, k, d)
        old == items.slot[s].val
    IN  /\ SetProbeEnds(items, k, d)
        /\ items.slot[s].st = "live"
        /\ items' = Replace(items, s, v)
        /\ weight' = weight + WeightDelta(old, v)
        /\ owed' = [Reported(k, old) EXCEPT ![<<k, v>>] = @ + 1]
        /\ pc' = AfterWeight(weight', nodes)
        /\ UNCHANGED <<live, dirty, deadCount, nodes, rebuild>>

SetMemory(k, v) ==
  /\ pc = "idle"
  /\ Cost[v] <= Cap
  /\ Insert(k, v) \/ Resurrect(k, v) \/ Overwrite(k, v)

-----------------------------------------------------------------------------
(***************************************************************************)
(* Removal: killAt with noteDead and its sweep.                            *)
(***************************************************************************)

KillAt(s) ==
  LET x      == items.slot[s]
      t      == Kill(items, s)
      sweeps == /\ deadCount + 1 >= SweepMinDead
                /\ 2 * (deadCount + 1) >= PolicyLen(nodes)
  IN  /\ weight' = weight - Cost[x.val]
      /\ owed' = Reported(x.key, x.val)
      /\ live' = live - 1
      /\ dirty' = dirty + 1
      /\ IF sweeps
         THEN /\ items' = MakeFreeAll(t, QueuedTombs(t))
              /\ nodes' = [i \in Slots(t) |-> IF i \in QueuedTombs(t) THEN 0 ELSE nodes[i]]
              /\ deadCount' = 0
         ELSE /\ items' = t
              /\ deadCount' = deadCount + 1
              /\ UNCHANGED nodes
      /\ UNCHANGED <<pc, rebuild>>

\* deleteLocked: a missing key is a no-op.
DeleteLocked(k) ==
  \E d \in Slots(items) : Finds(items, k, d) /\ KillAt(ProbeSlot(items, k, d))

Delete(k) == pc = "idle" /\ DeleteLocked(k)

\* setMemory of a value that outweighs the whole shard drops the older one.
SetTooHeavy(k, v) == pc = "idle" /\ Cost[v] > Cap /\ DeleteLocked(k)

\* dropExpired, called by a reader that found k expired.
DropExpired(k) ==
  /\ pc = "idle"
  /\ \E d \in Slots(items) : /\ Finds(items, k, d)
                             /\ ProbeItem(items, k, d).exp
                             /\ KillAt(ProbeSlot(items, k, d))

\* The coarse clock passes the expiration of a live item.  The rebuild does
\* not look at expirations, so one that falls into it is seen after it.
Expire(s) ==
  /\ TTLEnabled
  /\ items.slot[s].st = "live" /\ ~items.slot[s].exp
  /\ pc # "rebuild"
  /\ items' = SetExpired(items, s)
  /\ UNCHANGED <<live, dirty, deadCount, weight, nodes, pc, rebuild, owed>>

-----------------------------------------------------------------------------
(***************************************************************************)
(* The two loops.                                                          *)
(***************************************************************************)

\* Variant: a dead item's node stays in the queue.
VisitedLive(s) == IF items.slot[s].st = "dead" THEN nodes ELSE [nodes EXCEPT ![s] = @ - 1]

\* The policy's nodes once policy.Rebuild has visited one of slot s.
Visited(s) == [nodes EXCEPT ![s] = @ - 1]

\* policy.Rebuild visits one node: a live item moves, a dead one drops out.
RebuildNode(s) ==
  /\ pc = "rebuild" /\ nodes[s] > 0
  /\ nodes' = Visited(s)
  /\ IF items.slot[s].st = "dead"
     THEN UNCHANGED rebuild
     ELSE \E d \in Slots(fresh) :
            LET x == items.slot[s]
                f == ProbeSlot(fresh, x.key, d)
            IN  /\ FreshProbeEnds(fresh, x.key, d)
                /\ fresh' = InsertFresh(fresh, f, x)
                /\ freshNodes' = [freshNodes EXCEPT ![f] = @ + 1]
                /\ freshLive' = freshLive + 1
                /\ UNCHANGED delta
  /\ UNCHANGED <<items, live, dirty, deadCount, weight, pc, owed>>

\* Variant: sh.dirty is not reset with the table.
RebuildDoneDirty ==
  /\ pc = "rebuild" /\ Queued(nodes) = {}
  /\ items' = fresh
  /\ nodes' = freshNodes
  /\ live' = freshLive /\ deadCount' = 0
  /\ weight' = weight + delta
  /\ pc' = AfterWeight(weight', freshNodes)
  /\ delta' = 0 /\ fresh' = NewFlatHashMap(0) /\ freshNodes' = NoNodes(fresh') /\ freshLive' = 0
  /\ UNCHANGED <<dirty, owed>>

\* The rebuilt table is stored; the Set that caused it adds its weight.
RebuildDone ==
  /\ pc = "rebuild" /\ Queued(nodes) = {}
  /\ items' = fresh
  /\ nodes' = freshNodes
  /\ live' = freshLive /\ dirty' = 0 /\ deadCount' = 0
  /\ weight' = weight + delta
  /\ pc' = AfterWeight(weight', freshNodes)
  /\ delta' = 0 /\ fresh' = NewFlatHashMap(0) /\ freshNodes' = NoNodes(fresh') /\ freshLive' = 0
  /\ UNCHANGED owed

\* Variant: the result of item.Kill is ignored.
KilledAlways(x) == TRUE

\* item.Kill reports the alive -> dead transition.
Killed(x) == x.st = "live"

\* One round of evictShard: the policy hands out the node of slot s.
Evict(s) ==
  LET x      == items.slot[s]
      killed == Killed(x)
      t      == IF killed THEN Kill(items, s) ELSE items
  IN  /\ pc = "evict" /\ nodes[s] > 0
      /\ items' = MakeFree(t, s)
      /\ nodes' = [nodes EXCEPT ![s] = @ - 1]
      /\ weight' = IF killed THEN weight - Cost[x.val] ELSE weight
      /\ live' = IF killed THEN live - 1 ELSE live
      /\ dirty' = IF killed THEN dirty + 1 ELSE dirty
      /\ owed' = IF killed THEN Reported(x.key, x.val) ELSE owed
      /\ pc' = AfterWeight(weight', nodes')
      /\ UNCHANGED <<deadCount, rebuild>>

Holder == \/ \E s \in Slots(items) : RebuildNode(s) \/ Evict(s)
          \/ RebuildDone

Next ==
  \/ \E k \in Key, v \in Value : SetMemory(k, v) \/ SetTooHeavy(k, v)
  \/ \E k \in Key : Delete(k) \/ DropExpired(k)
  \/ \E s \in Slots(items) : Expire(s)
  \/ Holder

Spec == Init /\ [][Next]_vars

\* The goroutine that holds the mutex keeps running.
FairSpec == Spec /\ WF_vars(Holder)
-----------------------------------------------------------------------------
(***************************************************************************)
(* Properties.                                                             *)
(***************************************************************************)

\* Every variable keeps its type; in particular no overflow count, counter or
\* number of queued nodes is ever decremented below zero.
TypeOK ==
  /\ items \in Tables(items.len) /\ items.len \in Nat
  /\ fresh \in Tables(fresh.len) /\ fresh.len \in Nat
  /\ live \in Nat /\ dirty \in Nat /\ deadCount \in Nat /\ freshLive \in Nat
  /\ weight \in Int /\ delta \in Nat
  /\ nodes \in [Slots(items) -> Nat] /\ freshNodes \in [Slots(fresh) -> Nat]
  /\ pc \in {"idle", "rebuild", "evict"}
  /\ owed \in [Key \X Value -> Int]

\* A key is held by at most one slot: whatever tombstones, reused slots and
\* rebuilds its probe chain went through, setMemory never publishes a second
\* copy of a key, which a later Delete would leave behind.
OneSlotPerKey ==
  \A s, r \in Slots(items) :
    (items.slot[s].st \in {"live", "dead"} /\ Holds(items.slot[r], items.slot[s].key))
      => s = r

\* findSlot, and with it every reader's probe, finds a key if and only if some
\* slot holds it live: neither an empty slot on the way nor a zero overflow
\* count at the edge of the home group (Overflowed) ever hides a live item.
FindSlotComplete ==
  \A k \in Key : (\E s \in Slots(items) : IsLive(items.slot[s], k))
                   <=> (\E d \in Slots(items) : Finds(items, k, d))

\* The probe loops have no bound of their own: they end because every table,
\* also the one a rebuild is filling, has a never-occupied slot.
ProbesEnd ==
  /\ \E s \in Slots(items) : items.slot[s].st = "empty"
  /\ pc = "rebuild" => \E s \in Slots(fresh) : fresh.slot[s].st = "empty"

\* sh.live and sh.dirty, on which maybeRebuild decides, count the live slots
\* and the tombstones exactly.
CountersExact == live = Cardinality(LiveSlots(items)) /\ dirty = Cardinality(TombSlots(items))

\* The policy references every live item and every unreleased tombstone by
\* exactly one node, and nothing else: a node never points at a stranger that
\* reused its slot, and no item escapes eviction.
NodesMatchSlots ==
  pc # "rebuild" =>
    \A s \in Slots(items) :
      nodes[s] = IF items.slot[s].st \in {"live", "dead"} THEN 1 ELSE 0

\* sh.weight is the total cost of the live items: every path that stores,
\* replaces or kills an item accounts for it once. So evictShard compares the
\* real total with the capacity, and it does not run out of nodes before it has
\* made room: whenever the mutex is free the shard is within its capacity.
WeightExact ==
  /\ weight + delta = MapThenSumSet(LAMBDA s : Cost[items.slot[s].val], LiveSlots(items))
  /\ pc = "idle" => weight <= Cap

\* OnDeletion is called once for every value that leaves the first level: a
\* stored value is either live and not yet reported, or reported exactly once.
DeletionReportedOnce ==
  \A k \in Key, v \in Value :
    owed[<<k, v>>] =
      IF \E s \in Slots(items) : IsLive(items.slot[s], k) /\ items.slot[s].val = v
      THEN 1 ELSE 0

\* The keys and values that Gets see, each read by a whole probe.
Contents == [k \in Key |-> Lookup(items, k)]

\* Seen through its lookups the shard is the map that FirstLevel describes: a
\* Set puts its key and touches no other, what a Delete, an eviction or an
\* expiration removes is reported in the same step with the value it had, and
\* the steps of a rebuild change nothing.
L1 == INSTANCE FirstLevel WITH content <- Contents

ImplementsFirstLevel == L1!Spec

\* The swap of tables at the end of a rebuild is invisible: no live item is
\* lost, duplicated, brought back or replaced by an older value.
RebuildKeepsContents == [][pc = "rebuild" => Contents' = Contents]_vars

\* Whoever took the mutex gives it back: rebuild and eviction end.
MutexReleased == (pc # "idle") ~> (pc = "idle")

=============================================================================
