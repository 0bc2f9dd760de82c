-------------------------- MODULE ShardStepProofs ---------------------------
(***************************************************************************)
(* The inductive invariant IInv of Shard, for any number of keys, any      *)
(* hash, any costs and capacity: it holds initially, and every way         *)
(* setMemory can store a value, every removal and every round of the       *)
(* eviction loop preserve it.                                              *)
(***************************************************************************)
EXTENDS Shard, FlatHashMapProofs

\* A well-formed table of at least four groups.
Sound(t) == /\ t \in Tables(t.len) /\ t.len \in Nat /\ t.len >= 4 * GroupLen
            /\ WellFormed(t)

\* One node per held slot.
Linked(t, q) == \A s \in Slots(t) : q[s] = IF Held(t.slot[s]) THEN 1 ELSE 0

\* The live items the running rebuild has not visited yet.
Unmoved == {s \in LiveSlots(items) : nodes[s] = 1}

\* The stores not yet reported are the live items of t.
Entry(t, k, v) == \E s \in Slots(t) : IsLive(t.slot[s], k) /\ t.slot[s].val = v

Owes(t, o) == /\ o \in [Key \X Value -> Int]
              /\ \A k \in Key, v \in Value :
                   o[<<k, v>>] = IF Entry(t, k, v) THEN 1 ELSE 0

\* Below the occupancy that triggers a rebuild.
Loaded(t, l, d) == 4 * (l + d) < 3 * t.len

\* Every slot of the table being filled is a copy of a live item already
\* visited, and every live item visited has a copy.
Copies ==
  /\ \A f \in Slots(fresh) :
       fresh.slot[f].st # "empty" =>
         \E s \in LiveSlots(items) : nodes[s] = 0 /\ items.slot[s] = fresh.slot[f]
  /\ \A s \in LiveSlots(items) :
       nodes[s] = 0 => \E f \in Slots(fresh) : fresh.slot[f] = items.slot[s]

\* The nodes still to be visited reference held slots.
NodesLeft == \A s \in Slots(items) : /\ nodes[s] \in {0, 1}
                                     /\ nodes[s] = 1 => Held(items.slot[s])

Rebuilding ==
  /\ NodesLeft
  /\ 4 * (live + dirty) < 3 * items.len + 4
  /\ Sound(fresh) /\ Linked(fresh, freshNodes) /\ Loaded(fresh, live, 0)
  /\ freshLive = Cardinality(LiveSlots(fresh))
  /\ freshLive + Cardinality(Unmoved) = live
  /\ Copies

Resting == Linked(items, nodes) /\ Loaded(items, live, dirty)

\* The inductive invariant.
IInv ==
  /\ TypeOK
  /\ Sound(items)
  /\ CountersExact
  /\ Owes(items, owed)
  /\ IF pc = "rebuild" THEN Rebuilding ELSE Resting

-----------------------------------------------------------------------------
(***************************************************************************)
(* The OnDeletion account.                                                 *)
(***************************************************************************)

\* A store of a key that was not live is one report owed.
LEMMA OwesStored ==
  ASSUME NEW t, NEW u, NEW s \in Slots(t), NEW x, NEW k \in Key, NEW v \in Value,
         NEW o, Owes(t, o), OneSlot(t, u, s, x),
         x.st = "live", x.key = k, x.val = v,
         \A r \in Slots(t) : ~IsLive(t.slot[r], k), t.slot[s].st # "live"
  PROVE  Owes(u, [o EXCEPT ![<<k, v>>] = @ + 1])
<1> DEFINE p == [o EXCEPT ![<<k, v>>] = @ + 1]
<1>1. o \in [Key \X Value -> Int]
  BY Zenon DEF Owes
<1>2. p \in [Key \X Value -> Int] /\ p[<<k, v>>] = o[<<k, v>>] + 1
  BY <1>1
<1>4. ASSUME NEW a \in Key, NEW b \in Value, <<a, b>> # <<k, v>>
      PROVE  p[<<a, b>>] = o[<<a, b>>] /\ (Entry(u, a, b) <=> Entry(t, a, b))
  BY Zenon, <1>4, <1>1 DEF Entry, IsLive, OneSlot
<1>5. ASSUME NEW a \in Key, NEW b \in Value
      PROVE  p[<<a, b>>] = IF Entry(u, a, b) THEN 1 ELSE 0
  BY <1>2, <1>4 DEF Owes, Entry, IsLive, OneSlot
<1> QED
  BY Zenon, <1>2, <1>5 DEF Owes

\* Of the live items of t, u lacks the one in slot s.
OneLess(t, u, s) ==
  /\ Slots(u) = Slots(t) /\ u.slot[s].st # "live"
  /\ \A r \in Slots(t) :
       r # s => \/ u.slot[r] = t.slot[r]
                \/ t.slot[r].st # "live" /\ u.slot[r].st # "live"

\* Killing the only live item of a key settles one report.
LEMMA OwesReported ==
  ASSUME NEW t, NEW u, NEW s \in Slots(t), NEW k \in Key, NEW v \in Value,
         NEW o, Owes(t, o), Distinct(t), OneLess(t, u, s),
         IsLive(t.slot[s], k), t.slot[s].val = v
  PROVE  Owes(u, [o EXCEPT ![<<k, v>>] = @ - 1])
<1> DEFINE p == [o EXCEPT ![<<k, v>>] = @ - 1]
<1>1. o \in [Key \X Value -> Int]
  BY Zenon DEF Owes
<1> USE <1>1
<1>2. p \in [Key \X Value -> Int] /\ p[<<k, v>>] = o[<<k, v>>] - 1
  OBVIOUS
<1>3. Entry(t, k, v) /\ ~Entry(u, k, v)
  BY Zenon DEF Entry, IsLive, Distinct, Held, Holds, OneLess
<1>4. ASSUME NEW a \in Key, NEW b \in Value, <<a, b>> # <<k, v>>
      PROVE  p[<<a, b>>] = o[<<a, b>>] /\ (Entry(u, a, b) <=> Entry(t, a, b))
  BY Zenon, <1>4 DEF Entry, IsLive, OneLess
<1>5. ASSUME NEW a \in Key, NEW b \in Value
      PROVE  p[<<a, b>>] = IF Entry(u, a, b) THEN 1 ELSE 0
  BY <1>2, <1>3, <1>4 DEF Owes
<1> QED
  BY Zenon, <1>2, <1>5 DEF Owes

\* The live items, and so the reports owed, are the same in t and u.
LEMMA OwesSame ==
  ASSUME NEW t, NEW u, NEW o, Owes(t, o), Slots(u) = Slots(t),
         \A r \in Slots(t) : \/ u.slot[r].st # "live" /\ t.slot[r].st # "live"
                             \/ /\ u.slot[r].st = t.slot[r].st
                                /\ u.slot[r].key = t.slot[r].key
                                /\ u.slot[r].val = t.slot[r].val
  PROVE  Owes(u, o)
<1>1. ASSUME NEW a \in Key, NEW b \in Value
      PROVE  Entry(u, a, b) <=> Entry(t, a, b)
  BY Zenon DEF Entry, IsLive
<1> QED
  BY Zenon, <1>1 DEF Owes

-----------------------------------------------------------------------------
(***************************************************************************)
(* Init and the operations.                                                *)
(***************************************************************************)

\* A new table is well formed and empty.
LEMMA NewIsEmpty ==
  ASSUME NEW n \in Nat, NEW t, t = NewFlatHashMap(n)
  PROVE  /\ t \in Tables(n) /\ t.len = n /\ WellFormed(t)
         /\ \A s \in Slots(t) : t.slot[s] = EmptyItem /\ t.slot[s].st = "empty"
         /\ LiveSlots(t) = {} /\ TombSlots(t) = {}
         /\ NoNodes(t) \in [Slots(t) -> Nat] /\ Linked(t, NoNodes(t))
<1>1. EmptyItem \in Item /\ EmptyItem.st = "empty"
  BY Zenon DEF EmptyItem, Item, Status
<1> USE <1>1
<1>2. /\ t.len = n /\ t.slot = [s \in 0..n-1 |-> EmptyItem]
      /\ t.over = [g \in Groups(n) |-> 0]
      /\ t = [len |-> t.len, slot |-> t.slot, over |-> t.over]
  BY Zenon DEF NewFlatHashMap
<1>4. t \in Tables(n)
  BY <1>2 DEF Tables
<1> USE <1>4
<1>5. \A s \in Slots(t) : t.slot[s] = EmptyItem /\ t.slot[s].st = "empty"
  BY Zenon, <1>2 DEF Slots
<1> USE <1>5
<1>6. LiveSlots(t) = {} /\ TombSlots(t) = {}
  BY Zenon DEF LiveSlots, TombSlots
<1> USE <1>6
<1>8. Chained(t)
  <2> SUFFICES ASSUME NEW k \in Key, NEW d \in Slots(t), Holds(ProbeItem(t, k, d), k)
               PROVE  FALSE
    BY Zenon DEF Chained
  <2> QED
    BY ProbeSlotIs, <1>2 DEF Holds, ProbeItem, Slots
<1>9. Counted(t)
  BY FS_EmptySet, <1>2 DEF Outside, Counted
<1> QED
  BY Zenon, <1>2, <1>8, <1>9 DEF WellFormed, Keyed, Distinct, Held, NoNodes, Linked

\* A new shard satisfies the invariant.
LEMMA InitIInv == Init => IInv
<1> SUFFICES ASSUME Init PROVE IInv
  BY Zenon
<1>1. /\ MinTableSlots \in Nat /\ MinTableSlots >= 4 * GroupLen /\ GroupLen >= 1
  BY SizeAssumption, GroupAssumption
<1> USE <1>1
<1>2. items = NewFlatHashMap(MinTableSlots) /\ fresh = NewFlatHashMap(0)
  BY Zenon DEF Init
<1> USE <1>2
<1>4. /\ Sound(items) /\ items.len = MinTableSlots
      /\ LiveSlots(items) = {} /\ TombSlots(items) = {}
      /\ nodes \in [Slots(items) -> Nat] /\ Linked(items, nodes)
      /\ \A s \in Slots(items) : items.slot[s].st = "empty"
  BY NewIsEmpty DEF Init, Sound
<1> USE <1>4
<1>6. owed \in [Key \X Value -> Int] /\ Owes(items, owed)
  BY DEF Init, Entry, IsLive, OneLess, Owes
<1> QED
  BY <1>6, FS_EmptySet, NewIsEmpty, GroupAssumption DEF IInv, Init, CountersExact, TypeOK, Sound,
       Resting, Loaded

\* Facts about the state of an idle or evicting shard, for the operations.
LEMMA RestingFacts ==
  ASSUME IInv, pc # "rebuild"
  PROVE  /\ items.len \in Nat \ {0} /\ items \in Tables(items.len) /\ WellFormed(items)
         /\ items.len >= 4 * GroupLen /\ items.len >= 4
         /\ live = Cardinality(LiveSlots(items)) /\ dirty = Cardinality(TombSlots(items))
         /\ live \in Nat /\ dirty \in Nat
         /\ Owes(items, owed) /\ Linked(items, nodes) /\ 4 * (live + dirty) < 3 * items.len
<1> QED
  BY GroupAssumption DEF Sound, TypeOK, CountersExact, Resting, Loaded, IInv

\* The next state satisfies IInv, outside a rebuild.
LEMMA RestingStep ==
  ASSUME IInv,
         NEW n \in Nat, n >= 4 * GroupLen,
         items' \in Tables(n), WellFormed(items)',
         live' = Cardinality(LiveSlots(items')), dirty' = Cardinality(TombSlots(items')),
         deadCount' \in Nat, weight' \in Int, nodes' \in [Slots(items') -> Nat],
         pc' \in {"idle", "evict"}, UNCHANGED rebuild, Owes(items', owed'),
         Linked(items', nodes'), 4 * (live' + dirty') < 3 * n
  PROVE  IInv'
<1>1. items'.len = n
  BY Zenon DEF Tables
<1> QED
  BY Zenon, <1>1, SlotsFinite DEF IInv, Sound, TypeOK, rebuild, Owes, LiveSlots, TombSlots, Resting,
       Loaded, CountersExact

\* After a change of weight the writer is either done or has to evict.
LEMMA AfterWeightIs ==
  ASSUME NEW w, NEW q PROVE AfterWeight(w, q) \in {"idle", "evict"}
BY Zenon DEF AfterWeight

\* Costs are positive.
LEMMA CostIs ==
  ASSUME NEW v \in Value PROVE Cost[v] \in Nat \ {0}
BY Zenon, CostAssumption

\* A store that revives the tombstone of its own key preserves the invariant.
LEMMA ResurrectIInv ==
  ASSUME IInv, pc = "idle", NEW k \in Key, NEW v \in Value, Resurrect(k, v)
  PROVE  IInv'
<1> DEFINE n == items.len
<1>2. /\ n \in Nat \ {0} /\ items \in Tables(n) /\ WellFormed(items)
      /\ n >= 4 * GroupLen /\ n >= 4
      /\ live = Cardinality(LiveSlots(items)) /\ dirty = Cardinality(TombSlots(items))
      /\ live \in Nat /\ dirty \in Nat
      /\ Owes(items, owed) /\ Linked(items, nodes) /\ 4 * (live + dirty) < 3 * n
  BY Zenon, RestingFacts
<1>0. PICK d \in Slots(items) :
      LET s == ProbeSlot(items, k, d)
      IN  /\ SetProbeEnds(items, k, d)
          /\ items.slot[s].st = "dead"
          /\ items' = Publish(items, s, k, v)
          /\ live' = live + 1
          /\ dirty' = dirty - 1
          /\ deadCount' = IF deadCount > 0 THEN deadCount - 1 ELSE 0
          /\ weight' = weight + Cost[v]
          /\ owed' = Stored(k, v)
          /\ pc' = AfterWeight(weight', nodes)
          /\ UNCHANGED <<nodes, rebuild>>
  BY Zenon DEF Resurrect
<1> DEFINE s == ProbeSlot(items, k, d)
           x == [st |-> "live", key |-> k, val |-> v, exp |-> FALSE]
<1>3. s \in Slots(items)
  BY SMTT(60), <1>2, HomeInTable, ProbeSlotIs
<1>4. Holds(items.slot[s], k) /\ items.slot[s].st = "dead"
  BY Zenon, <1>0 DEF SetProbeEnds, ProbeItem
<1>5. /\ items' \in Tables(n) /\ WellFormed(items') /\ OneSlot(items, items', s, x)
      /\ Cardinality(LiveSlots(items')) = Cardinality(LiveSlots(items)) + 1
      /\ Cardinality(TombSlots(items')) = Cardinality(TombSlots(items)) - 1
  BY <1>0, <1>2, <1>3, <1>4, PublishResurrects
<1>6. x.st = "live" /\ x.key = k /\ x.val = v
  BY Zenon
<1> HIDE DEF x, s, n
<1>7. Owes(items', owed')
  <2>1. \A r \in Slots(items) : ~IsLive(items.slot[r], k)
    BY Zenon, <1>2, <1>3, <1>4 DEF WellFormed, Distinct, IsLive, Held, Holds
  <2> QED
    BY Zenon, <1>0, <1>2, <1>3, <1>4, <1>5, <1>6, <2>1, OwesStored DEF Stored
<1>8. Linked(items', nodes') /\ nodes' \in [Slots(items') -> Nat]
  <2>2. \A r \in Slots(items) : Held(items'.slot[r]) <=> Held(items.slot[r])
    BY <1>4, <1>5, <1>6 DEF OneSlot, Held
  <2> QED
    BY Zenon, <1>2, <2>2, <1>0, <1>5 DEF Linked, IInv, TypeOK, OneSlot
<1>9. deadCount' \in Nat /\ weight' \in Int /\ pc' \in {"idle", "evict"} /\ UNCHANGED rebuild
  BY <1>0, CostIs, AfterWeightIs DEF IInv, TypeOK
<1>10. live' = Cardinality(LiveSlots(items')) /\ dirty' = Cardinality(TombSlots(items'))
       /\ 4 * (live' + dirty') < 3 * n
  BY <1>0, <1>2, <1>5
<1> QED
  BY Zenon, <1>2, <1>5, <1>7, <1>8, <1>9, <1>10, RestingStep

\* A store over a live key preserves the invariant.
LEMMA OverwriteIInv ==
  ASSUME IInv, pc = "idle", NEW k \in Key, NEW v \in Value, Overwrite(k, v)
  PROVE  IInv'
<1> DEFINE n == items.len
<1>2. /\ n \in Nat \ {0} /\ items \in Tables(n) /\ WellFormed(items)
      /\ n >= 4 * GroupLen /\ n >= 4
      /\ live = Cardinality(LiveSlots(items)) /\ dirty = Cardinality(TombSlots(items))
      /\ live \in Nat /\ dirty \in Nat
      /\ Owes(items, owed) /\ Linked(items, nodes) /\ 4 * (live + dirty) < 3 * n
  BY Zenon, RestingFacts
<1>0. PICK d \in Slots(items) :
      LET s   == ProbeSlot(items, k, d)
          old == items.slot[s].val
      IN  /\ SetProbeEnds(items, k, d)
          /\ items.slot[s].st = "live"
          /\ items' = Replace(items, s, v)
          /\ weight' = weight + WeightDelta(old, v)
          /\ owed' = [Reported(k, old) EXCEPT ![<<k, v>>] = @ + 1]
          /\ pc' = AfterWeight(weight', nodes)
          /\ UNCHANGED <<live, dirty, deadCount, nodes, rebuild>>
  BY Zenon DEF Overwrite
<1> DEFINE s == ProbeSlot(items, k, d)
           old == items.slot[s].val
           x == [st |-> "live", key |-> items.slot[s].key, val |-> v, exp |-> FALSE]
<1>3. s \in Slots(items)
  BY SMTT(60), <1>2, HomeInTable, ProbeSlotIs
<1> USE <1>3
<1>4. Holds(items.slot[s], k) /\ items.slot[s].st = "live" /\ items.slot[s].key = k
  BY Zenon, <1>0 DEF SetProbeEnds, ProbeItem, Holds
<1>5. old \in Value /\ items.slot[s].val = old
  BY Zenon, <1>2, <1>4 DEF WellFormed, Keyed, Held
<1>6. /\ x \in Item /\ x.st = "live" /\ x.key = items.slot[s].key /\ x.key = k
      /\ x.val = v /\ x.val \in Value
  BY Zenon, <1>4 DEF Item, Status
<1>7. items' = With(items, s, x, items.over)
  BY Zenon, <1>0 DEF Replace
<1>8. /\ weight' = weight + (Cost[v] - Cost[old])
      /\ owed' = [[owed EXCEPT ![<<k, old>>] = @ - 1] EXCEPT ![<<k, v>>] = @ + 1]
      /\ pc' = AfterWeight(weight', nodes)
      /\ UNCHANGED <<live, dirty, deadCount, nodes, rebuild>>
  BY <1>0 DEF Reported, WeightDelta
<1> HIDE DEF x, s, n, old
<1>9. /\ items' \in Tables(n) /\ WellFormed(items') /\ OneSlot(items, items', s, x)
      /\ LiveSlots(items') = LiveSlots(items) /\ TombSlots(items') = TombSlots(items)
  BY <1>2, <1>4, <1>6, <1>7, ChangesLive
<1>10. Owes(items', owed')
  <2> DEFINE t == Kill(items, s)
             o == [owed EXCEPT ![<<k, old>>] = @ - 1]
             y == [st |-> "dead", key |-> items.slot[s].key,
                   val |-> items.slot[s].val, exp |-> items.slot[s].exp]
  <2>1. OneSlot(items, t, s, y) /\ y.st = "dead"
    BY <1>2, <1>4, Kills
  <2> USE <2>1
  <2> HIDE DEF t, y
  <2>2. Owes(t, o)
    <3>1. OneLess(items, t, s)
      BY Zenon DEF OneSlot, OneLess
    <3> QED
      BY Zenon, <1>2, <1>5, <3>1, OwesReported, <1>4 DEF IsLive, WellFormed
  <2> HIDE DEF o
  <2>3. OneSlot(t, items', s, x) /\ s \in Slots(t) /\ t.slot[s].st # "live"
    BY Zenon, <1>9 DEF OneSlot
  <2>4. \A r \in Slots(t) : ~IsLive(t.slot[r], k)
    BY <1>2, <1>4 DEF WellFormed, Distinct, IsLive, Held, Holds, OneSlot
  <2> QED
    BY Zenon, <1>8, <1>6, <2>2, <2>3, <2>4, OwesStored DEF o
<1>12. deadCount' \in Nat /\ weight' \in Int /\ pc' \in {"idle", "evict"} /\ UNCHANGED rebuild
  BY <1>5, CostIs, <1>8, AfterWeightIs DEF IInv, TypeOK
<1> QED
  BY Zenon, <1>2, <1>9, <1>10, <1>12, RestingStep, <1>8, <1>4, <1>6 DEF IInv, TypeOK, OneSlot, Held,
       Linked

\* A rebuild starts with an empty table, big enough for the live items.
LEMMA RebuildStarts ==
  ASSUME NEW n \in Nat, n >= 4 * GroupLen,
         items' \in Tables(n), WellFormed(items'),
         live' = Cardinality(LiveSlots(items')), dirty' = Cardinality(TombSlots(items')),
         deadCount' \in Nat, weight' \in Int, delta' \in Nat,
         nodes' \in [Slots(items') -> Nat],
         pc' = "rebuild", Owes(items', owed'),
         Linked(items', nodes'), 4 * (live' + dirty') < 3 * n + 4,
         NEW m \in Nat, m >= 4 * GroupLen, 4 * live' < 3 * m,
         fresh' = NewFlatHashMap(m), freshNodes' = NoNodes(fresh'), freshLive' = 0
  PROVE  IInv'
<1>1. items'.len = n
  BY Zenon DEF Tables
<1> USE <1>1
<1>3. live' \in Nat /\ dirty' \in Nat
  BY Zenon, SlotsFinite DEF LiveSlots, TombSlots
<1>4. /\ fresh' \in Tables(m) /\ fresh'.len = m /\ WellFormed(fresh')
      /\ \A s \in Slots(fresh') : fresh'.slot[s].st = "empty"
      /\ LiveSlots(fresh') = {}
      /\ freshNodes' \in [Slots(fresh') -> Nat] /\ Linked(fresh', freshNodes')
  BY NewIsEmpty
<1>7. Unmoved' = LiveSlots(items')
  BY Zenon DEF Unmoved, LiveSlots, Linked, Held
<1>10. Copies'
  BY <1>4 DEF Copies, LiveSlots, Linked, Held
<1>12. Rebuilding'
  BY <1>4, <1>10, <1>3, <1>7, FS_EmptySet DEF Rebuilding, Sound, Loaded, Linked, NodesLeft
<1> QED
  BY Zenon, <1>12, <1>3, <1>4 DEF IInv, CountersExact, Sound, TypeOK, Owes

\* A store of a new key, with the rebuild it may start, preserves the invariant.
LEMMA InsertIInv ==
  ASSUME IInv, pc = "idle", NEW k \in Key, NEW v \in Value, Insert(k, v)
  PROVE  IInv'
<1> DEFINE n == items.len
<1>2. /\ n \in Nat \ {0} /\ items \in Tables(n) /\ WellFormed(items)
      /\ n >= 4 * GroupLen /\ n >= 4
      /\ live = Cardinality(LiveSlots(items)) /\ dirty = Cardinality(TombSlots(items))
      /\ live \in Nat /\ dirty \in Nat
      /\ Owes(items, owed) /\ Linked(items, nodes) /\ 4 * (live + dirty) < 3 * n
  BY Zenon, RestingFacts
<1>0. PICK d \in Slots(items), c \in Slots(items) :
    LET s      == ProbeSlot(items, k, c)
        dirty1 == IF c = d THEN dirty ELSE dirty - 1
        nodes1 == [nodes EXCEPT ![s] = @ + 1]
    IN  /\ SetProbeEnds(items, k, d)
        /\ ProbeItem(items, k, d).st = "empty"
        /\ c <= d /\ Claims(items, k, d, c)
        /\ NeedsRebuild(live + 1, dirty1) => NewSize(live + 1) <= MaxTableSlots
        /\ items' = Publish(items, s, k, v)
        /\ live' = live + 1
        /\ dirty' = dirty1
        /\ nodes' = nodes1
        /\ owed' = Stored(k, v)
        /\ UNCHANGED deadCount
        /\ IF NeedsRebuild(live + 1, dirty1)
           THEN /\ pc' = "rebuild"
                /\ delta' = Cost[v]
                /\ fresh' = NewFlatHashMap(NewSize(live + 1))
                /\ freshNodes' = NoNodes(fresh')
                /\ freshLive' = 0
                /\ UNCHANGED weight
           ELSE /\ weight' = weight + Cost[v]
                /\ pc' = AfterWeight(weight', nodes1)
                /\ UNCHANGED rebuild
  BY ZenonT(60) DEF Insert
<1> DEFINE s == ProbeSlot(items, k, c)
           x == [st |-> "live", key |-> k, val |-> v, exp |-> FALSE]
           dirty1 == IF c = d THEN dirty ELSE dirty - 1
<1>3. Inserting(items, k, d, c) /\ items' = Publish(items, s, k, v)
  BY <1>2, <1>0 DEF Slots, Inserting
<1>4. /\ items' \in Tables(n) /\ WellFormed(items') /\ s \in Slots(items)
      /\ \A r \in Slots(items) : ~Holds(items.slot[r], k)
      /\ OneSlot(items, items', s, x)
      /\ items.slot[s].st = IF c = d THEN "empty" ELSE "free"
      /\ Cardinality(LiveSlots(items')) = Cardinality(LiveSlots(items)) + 1
      /\ Cardinality(TombSlots(items')) =
           IF c = d THEN Cardinality(TombSlots(items)) ELSE Cardinality(TombSlots(items)) - 1
  <2>2. Inserted(n, items, items', s, x, c = d) /\ x.key = k
    BY Zenon, <1>3, <1>2, PublishInserts
  <2> HIDE DEF n, s, x
  <2> QED
    BY Zenon, <2>2 DEF Inserted
<1>5. x.st = "live" /\ x.key = k /\ x.val = v
  BY Zenon
<1>6. nodes' = [nodes EXCEPT ![s] = @ + 1] /\ live' = live + 1 /\ dirty' = dirty1
      /\ owed' = [owed EXCEPT ![<<k, v>>] = @ + 1] /\ deadCount' = deadCount
  BY Zenon, <1>0 DEF Stored
<1> HIDE DEF s, x
<1>7. Owes(items', owed')
  BY Zenon, <1>4, <1>2, <1>5, OwesStored, <1>6 DEF IsLive, Holds
<1>8. nodes' \in [Slots(items') -> Nat] /\ Linked(items', nodes')
  <2>1. nodes \in [Slots(items) -> Nat] /\ Slots(items') = Slots(items)
    BY Zenon, <1>4 DEF IInv, TypeOK, OneSlot
  <2>2. ~Held(items.slot[s]) /\ Held(items'.slot[s])
    BY Zenon, <1>4, <1>5 DEF OneSlot, Held
  <2>6. s \in Slots(items) /\ Linked(items, nodes) /\ nodes' = [nodes EXCEPT ![s] = @ + 1]
    BY Zenon, <1>2, <1>4, <1>6
  <2>4. \A r \in Slots(items) : r # s => nodes'[r] = nodes[r] /\ items'.slot[r] = items.slot[r]
    BY Zenon, <1>4, <2>1, <2>6 DEF OneSlot
  <2> QED
    BY <1>2, <2>1, <2>2, <2>4, <2>6 DEF Linked
<1>9. live' = Cardinality(LiveSlots(items')) /\ dirty' = Cardinality(TombSlots(items'))
  BY Zenon, <1>2, <1>4, <1>6
<1>10. live' \in Nat /\ dirty' \in Nat /\ live' + dirty' <= live + dirty + 1
  <2>2. dirty' \in Nat
    BY Zenon, <1>2, <1>4, <1>9, SlotsFinite DEF TombSlots
  <2> QED
    BY <1>2, <1>6, <2>2
<1>11. Cost[v] \in Nat /\ weight \in Int /\ deadCount' \in Nat
  BY Zenon, <1>6, CostIs DEF IInv, TypeOK
<1>14. /\ n \in Nat /\ n >= 4 /\ n >= 4 * GroupLen /\ live \in Nat /\ dirty \in Nat
       /\ 4 * (live + dirty) < 3 * n /\ GroupLen \in Nat
  BY <1>2, GroupAssumption
<1> USE <1>14
<1>12. CASE NeedsRebuild(live + 1, dirty1)
  <2> DEFINE m == NewSize(live + 1)
  <2>1. /\ pc' = "rebuild" /\ delta' = Cost[v] /\ fresh' = NewFlatHashMap(m)
        /\ freshNodes' = NoNodes(fresh') /\ freshLive' = 0 /\ weight' = weight
    BY <1>0, <1>12
  <2>2. PICK N \in Nat, L \in Nat, D \in Nat, LL \in Nat, D1 \in Nat :
          N = n /\ L = live /\ D = dirty /\ LL = live' /\ D1 = dirty'
    BY Zenon, <1>10
  <2>3. m = IF 2 * LL >= N THEN 2 * N ELSE N
    BY Zenon, <1>6, <2>2 DEF NewSize
  <2>4. N >= 4 /\ N >= 4 * GroupLen /\ 4 * (L + D) < 3 * N /\ LL + D1 <= L + D + 1
    BY ZenonT(60), <1>10, <2>2
  <2> HIDE DEF m, n
  <2>5. m \in Nat /\ m >= 4 * GroupLen /\ 4 * LL < 3 * m /\ 4 * (LL + D1) < 3 * N + 4
    BY <2>3, <2>4
  <2> USE <2>5
  <2>6. 4 * live' < 3 * m /\ 4 * (live' + dirty') < 3 * n + 4
    BY Zenon, <2>2
  <2> QED
    BY Zenon, <1>4, <1>7, <1>8, <1>9, <1>11, <2>1, <2>6, RebuildStarts
<1>13. CASE ~NeedsRebuild(live + 1, dirty1)
  <2>1. /\ weight' = weight + Cost[v] /\ UNCHANGED rebuild /\ pc' \in {"idle", "evict"}
    BY Zenon, <1>0, <1>13, AfterWeightIs
  <2>3. weight' \in Int
    BY <1>11, <2>1
  <2>2. 4 * (live' + dirty') < 3 * n
    BY <1>6, <1>10, <1>13 DEF NeedsRebuild
  <2> HIDE DEF n
  <2> QED
    BY ZenonT(60), <1>4, <1>7, <1>8, <1>9, <1>11, <2>1, <2>2, <2>3, RestingStep
<1> QED
  BY Zenon, <1>12, <1>13

-----------------------------------------------------------------------------
(***************************************************************************)
(* Removals: killAt with or without a sweep, an expiration, and a round of *)
(* the eviction loop.                                                      *)
(***************************************************************************)

\* The two ways a live item is killed under the mutex, killAt (with or without
\* a sweep) and evictShard, agree on the account of the item.
LEMMA KillAccount ==
  ASSUME IInv, pc # "rebuild", NEW s \in Slots(items), items.slot[s].st = "live",
         NEW t, t = Kill(items, s)
  PROVE  /\ t \in Tables(items.len) /\ WellFormed(t) /\ Slots(t) = Slots(items)
         /\ t.slot[s].st = "dead"
         /\ \A r \in Slots(items) : r # s => t.slot[r] = items.slot[r]
         /\ Cardinality(LiveSlots(t)) = live - 1
         /\ Cardinality(TombSlots(t)) = dirty + 1
         /\ Owes(t, Reported(items.slot[s].key, items.slot[s].val))
         /\ Cost[items.slot[s].val] \in Nat
<1> DEFINE n == items.len
           k == items.slot[s].key
           v == items.slot[s].val
           y == [st |-> "dead", key |-> items.slot[s].key,
                 val |-> items.slot[s].val, exp |-> items.slot[s].exp]
<1>1. /\ n \in Nat \ {0} /\ items \in Tables(n) /\ WellFormed(items)
      /\ live = Cardinality(LiveSlots(items)) /\ dirty = Cardinality(TombSlots(items))
      /\ Owes(items, owed)
  BY Zenon, RestingFacts
<1> USE <1>1
<1>2. /\ t \in Tables(n) /\ WellFormed(t) /\ OneSlot(items, t, s, y)
      /\ Cardinality(LiveSlots(t)) = Cardinality(LiveSlots(items)) - 1
      /\ Cardinality(TombSlots(t)) = Cardinality(TombSlots(items)) + 1
  BY Kills
<1>3. y.st = "dead"
  BY Zenon
<1> HIDE DEF y
<1>4. /\ Slots(t) = Slots(items) /\ t.slot[s].st = "dead"
      /\ \A r \in Slots(items) : r # s => t.slot[r] = items.slot[r]
  BY Zenon, <1>2, <1>3 DEF OneSlot
<1>5. k \in Key /\ v \in Value /\ IsLive(items.slot[s], k) /\ Distinct(items)
      /\ items.slot[s].val = v
  BY Zenon DEF WellFormed, Keyed, Held, IsLive
<1>6. OneLess(items, t, s)
  BY Zenon, <1>4 DEF OneLess
<1> QED
  BY Zenon, <1>2, <1>4, <1>5, <1>6, OwesReported, CostIs DEF Reported

\* Killing one live slot and reporting its deletion preserves the invariant.
LEMMA KillAtIInv ==
  ASSUME IInv, pc = "idle", NEW s \in Slots(items), items.slot[s].st = "live", KillAt(s)
  PROVE  IInv'
<1> DEFINE n == items.len
           t == Kill(items, s)
           k == items.slot[s].key
           v == items.slot[s].val
           sweeps == /\ deadCount + 1 >= SweepMinDead
                     /\ 2 * (deadCount + 1) >= PolicyLen(nodes)
<1>1. pc # "rebuild"
  BY Zenon
<1>2. /\ n \in Nat \ {0} /\ n >= 4 * GroupLen /\ Linked(items, nodes)
      /\ live \in Nat /\ dirty \in Nat /\ 4 * (live + dirty) < 3 * n
  BY Zenon, <1>1, RestingFacts
<1>3. /\ t \in Tables(n) /\ WellFormed(t) /\ Slots(t) = Slots(items) /\ t.slot[s].st = "dead"
      /\ \A r \in Slots(items) : r # s => t.slot[r] = items.slot[r]
      /\ Cardinality(LiveSlots(t)) = live - 1 /\ Cardinality(TombSlots(t)) = dirty + 1
      /\ Owes(t, Reported(k, v)) /\ Cost[v] \in Nat
  BY <1>1, KillAccount
<1>4. /\ weight' = weight - Cost[v] /\ owed' = Reported(k, v)
      /\ live' = live - 1 /\ dirty' = dirty + 1 /\ pc' = pc /\ UNCHANGED rebuild
      /\ IF sweeps
         THEN /\ items' = MakeFreeAll(t, QueuedTombs(t))
              /\ nodes' = [i \in Slots(t) |-> IF i \in QueuedTombs(t) THEN 0 ELSE nodes[i]]
              /\ deadCount' = 0
         ELSE /\ items' = t
              /\ deadCount' = deadCount + 1
              /\ UNCHANGED nodes
  BY Zenon DEF KillAt
<1>5. /\ weight \in Int /\ deadCount \in Nat /\ nodes \in [Slots(items) -> Nat]
  BY Zenon DEF IInv, TypeOK
<1> HIDE DEF n, t, k, v, sweeps
<1>6. weight' \in Int /\ pc' \in {"idle", "evict"} /\ 4 * (live' + dirty') < 3 * n
  BY <1>2, <1>3, <1>4, <1>5
<1>7. \A r \in Slots(items) : Held(t.slot[r]) <=> Held(items.slot[r])
  BY Zenon, <1>3 DEF Held
<1>8. CASE sweeps
  <2>1. /\ items' = MakeFreeAll(t, QueuedTombs(t)) /\ deadCount' = 0
        /\ nodes' = [i \in Slots(t) |-> IF i \in QueuedTombs(t) THEN 0 ELSE nodes[i]]
    BY <1>4, <1>8
  <2>2. /\ items' \in Tables(n) /\ WellFormed(items') /\ Slots(items') = Slots(t)
        /\ \A r \in Slots(t) : items'.slot[r] = IF t.slot[r].st = "dead" THEN Freed(t.slot[r])
                                                                        ELSE t.slot[r]
        /\ LiveSlots(items') = LiveSlots(t) /\ TombSlots(items') = TombSlots(t)
    BY <1>2, <1>3, <2>1, MakesFreeAll
  <2> USE <2>2
  <2>3. \A r \in Slots(t) : \/ items'.slot[r] = t.slot[r] /\ t.slot[r].st # "dead"
                            \/ items'.slot[r].st = "free" /\ t.slot[r].st = "dead"
    <3>1. \A r \in Slots(t) : t.slot[r] \in Item
      BY Zenon, <1>3 DEF Tables, Slots
    <3> QED
      BY <3>1, FreedIsItem
  <2>4. Owes(items', owed')
    <3>1. \A r \in Slots(t) : \/ items'.slot[r].st # "live" /\ t.slot[r].st # "live"
                              \/ /\ items'.slot[r].st = t.slot[r].st
                                 /\ items'.slot[r].key = t.slot[r].key
                                 /\ items'.slot[r].val = t.slot[r].val
      BY Zenon, <2>3
    <3> QED
      BY <1>3, <1>4, <3>1, OwesSame
  <2>5. nodes' \in [Slots(items') -> Nat]
    BY <1>3, <1>5, <2>1
  <2>6. Linked(items', nodes')
    <3> SUFFICES ASSUME NEW r \in Slots(items')
                 PROVE  nodes'[r] = IF Held(items'.slot[r]) THEN 1 ELSE 0
      BY DEF Linked
    <3>1. r \in Slots(t) /\ r \in Slots(items) /\ (r \in QueuedTombs(t) <=> t.slot[r].st = "dead")
      BY <1>3 DEF QueuedTombs
    <3> QED
      BY Zenon, <2>3, <3>1, <1>2, <1>7, <2>1 DEF Held, Linked
  <2> QED
    BY Zenon, <1>2, <1>6, <2>4, <2>5, <2>6, RestingStep, <1>3, <1>4, <2>1
<1>9. CASE ~sweeps
  <2>1. items' = t /\ deadCount' = deadCount + 1 /\ nodes' = nodes /\ UNCHANGED rebuild
    BY <1>4, <1>9
  <2>4. n \in Nat /\ deadCount' \in Nat
    BY <1>2, <1>5, <2>1
  <2> QED
    BY Zenon, <1>2, <1>6, <2>1, <2>4, RestingStep, <1>3, <1>5, <1>7, <1>4 DEF Linked
<1> QED
  BY Zenon, <1>8, <1>9

\* Removing an expired key preserves the invariant.
LEMMA ExpireIInv ==
  ASSUME IInv, NEW s \in Slots(items), Expire(s)
  PROVE  IInv'
<1> DEFINE n == items.len
           x == [st |-> "live", key |-> items.slot[s].key, val |-> items.slot[s].val,
                 exp |-> TRUE]
<1>1. /\ pc # "rebuild" /\ items.slot[s].st = "live" /\ items' = With(items, s, x, items.over)
      /\ UNCHANGED <<live, dirty, deadCount, weight, nodes, pc, rebuild, owed>>
  BY Zenon DEF Expire, SetExpired
<1> USE <1>1
<1>2. /\ n \in Nat \ {0} /\ items \in Tables(n) /\ WellFormed(items) /\ n >= 4 * GroupLen
      /\ live = Cardinality(LiveSlots(items)) /\ dirty = Cardinality(TombSlots(items))
      /\ live \in Nat /\ dirty \in Nat
      /\ Owes(items, owed) /\ Linked(items, nodes) /\ 4 * (live + dirty) < 3 * n
  BY Zenon, RestingFacts
<1>4. /\ x \in Item /\ x.st = "live" /\ x.key = items.slot[s].key
      /\ x.val = items.slot[s].val /\ x.val \in Value
  BY Zenon, <1>2 DEF Item, Status, WellFormed, Keyed, Held
<1> HIDE DEF x, n
<1>5. /\ items' \in Tables(n) /\ WellFormed(items') /\ OneSlot(items, items', s, x)
      /\ LiveSlots(items') = LiveSlots(items) /\ TombSlots(items') = TombSlots(items)
  BY <1>2, <1>4, ChangesLive
<1>6. \A r \in Slots(items) : /\ items'.slot[r].st = items.slot[r].st
                              /\ items'.slot[r].key = items.slot[r].key
                              /\ items'.slot[r].val = items.slot[r].val
  BY Zenon, <1>4, <1>5 DEF OneSlot
<1>7. Slots(items') = Slots(items)
  BY Zenon, <1>5 DEF OneSlot
<1>8. Owes(items', owed')
  BY <1>2, <1>6, <1>7, OwesSame
<1>9. Linked(items', nodes') /\ nodes' \in [Slots(items') -> Nat]
  BY Zenon, <1>2, <1>6, <1>7 DEF IInv, TypeOK, Linked, Held
<1> QED
  BY Zenon, <1>2, <1>5, <1>8, <1>9, RestingStep DEF IInv, TypeOK

\* Removing the victim of an eviction round preserves the invariant.
LEMMA EvictIInv ==
  ASSUME IInv, NEW s \in Slots(items), Evict(s)
  PROVE  IInv'
<1> DEFINE n == items.len
           x == items.slot[s]
           killed == x.st = "live"
           t == IF killed THEN Kill(items, s) ELSE items
           o == IF killed THEN Reported(x.key, x.val) ELSE owed
<1>1. /\ pc = "evict" /\ nodes[s] > 0
      /\ items' = MakeFree(t, s)
      /\ nodes' = [nodes EXCEPT ![s] = @ - 1]
      /\ weight' = IF killed THEN weight - Cost[x.val] ELSE weight
      /\ live' = IF killed THEN live - 1 ELSE live
      /\ dirty' = IF killed THEN dirty + 1 ELSE dirty
      /\ owed' = o
      /\ pc' = AfterWeight(weight', nodes')
      /\ UNCHANGED <<deadCount, rebuild>>
  BY Zenon DEF Evict, Killed
<1>2. pc # "rebuild"
  BY Zenon, <1>1
<1>3. /\ n \in Nat \ {0} /\ items \in Tables(n) /\ WellFormed(items) /\ n >= 4 * GroupLen
      /\ live = Cardinality(LiveSlots(items)) /\ dirty = Cardinality(TombSlots(items))
      /\ live \in Nat /\ dirty \in Nat
      /\ Owes(items, owed) /\ Linked(items, nodes) /\ 4 * (live + dirty) < 3 * n
  BY Zenon, <1>2, RestingFacts
<1>4. weight \in Int /\ deadCount \in Nat /\ nodes \in [Slots(items) -> Nat]
  BY Zenon DEF IInv, TypeOK
<1> USE <1>4
<1>5. x.st \in {"live", "dead"} /\ nodes[s] = 1
  BY <1>1, <1>3 DEF Linked, Held
<1>6. /\ t \in Tables(n) /\ WellFormed(t) /\ Slots(t) = Slots(items) /\ t.slot[s].st = "dead"
      /\ \A r \in Slots(items) : r # s => t.slot[r] = items.slot[r]
      /\ Cardinality(LiveSlots(t)) = live' /\ Cardinality(TombSlots(t)) = dirty'
      /\ Owes(t, owed') /\ weight' \in Int /\ live' + dirty' = live + dirty
  <2>1. CASE killed
    <3>1. t = Kill(items, s) /\ owed' = Reported(x.key, x.val) /\ weight' = weight - Cost[x.val]
          /\ live' = live - 1 /\ dirty' = dirty + 1
      BY Zenon, <1>1, <2>1
    <3>2. live' + dirty' = live + dirty
      BY <1>3, <3>1
    <3> QED
      BY <1>2, <2>1, <3>1, <3>2, KillAccount
  <2>2. CASE ~killed
    BY Zenon, <1>1, <1>3, <1>5, <2>2
  <2> HIDE DEF t, o, n, killed
  <2> QED
    BY Zenon, <2>1, <2>2
<1> HIDE DEF t, o, n
<1>7. /\ items' \in Tables(n) /\ WellFormed(items') /\ OneSlot(t, items', s, Freed(t.slot[s]))
      /\ LiveSlots(items') = LiveSlots(t) /\ TombSlots(items') = TombSlots(t)
  BY Zenon, <1>3, <1>6, <1>1, MakesFree
<1>8. Freed(t.slot[s]).st = "free"
  BY Zenon, <1>3, <1>6, FreedIsItem DEF Tables, Slots
<1>9. /\ Slots(items') = Slots(items) /\ items'.slot[s].st = "free"
      /\ \A r \in Slots(items) : r # s => items'.slot[r] = t.slot[r]
  BY <1>6, <1>7, <1>8 DEF OneSlot
<1> USE <1>9
<1>10. Owes(items', owed')
  BY <1>6, OwesSame
<1>11. nodes' \in [Slots(items') -> Nat]
  BY <1>1, <1>5
<1>12. Linked(items', nodes')
  <2>1. nodes'[s] = 0 /\ ~Held(items'.slot[s])
    BY <1>1, <1>5 DEF Held
  <2>2. \A r \in Slots(items) : r # s => nodes'[r] = nodes[r] /\ items'.slot[r] = items.slot[r]
    BY Zenon, <1>1, <1>6
  <2> QED
    BY Zenon, <1>3, <2>1, <2>2 DEF Linked
<1> QED
  BY Zenon, <1>3, <1>7, <1>10, <1>11, <1>12, RestingStep, <1>6, <1>1, AfterWeightIs

=============================================================================
