---------------------------- MODULE ShardProofs -----------------------------
(***************************************************************************)
(* The steps of a rebuild preserve IInv, so that it is an invariant of the *)
(* shard; the properties that follow from it; and that a shard implements  *)
(* FirstLevel.                                                             *)
(***************************************************************************)
EXTENDS ShardStepProofs

\* What holds while a rebuild runs.
LEMMA RebuildingFacts ==
  ASSUME IInv, pc = "rebuild"
  PROVE  /\ Rebuilding /\ TypeOK /\ Owes(items, owed)
         /\ items.len \in Nat \ {0} /\ items \in Tables(items.len) /\ WellFormed(items)
         /\ fresh.len \in Nat \ {0} /\ fresh \in Tables(fresh.len) /\ WellFormed(fresh)
         /\ fresh.len >= 4 * GroupLen
         /\ live = Cardinality(LiveSlots(items)) /\ live \in Nat
<1>1. Sound(items) /\ TypeOK /\ CountersExact /\ Rebuilding /\ Owes(items, owed)
  BY Zenon DEF IInv
<1> QED
  BY <1>1, GroupAssumption DEF Sound, TypeOK, CountersExact, Rebuilding

\* Every slot of the old table that the rebuild did not touch is as it was.
LEMMA RebuildFrame ==
  ASSUME IInv, pc = "rebuild", NEW s \in Slots(items), nodes[s] > 0,
         nodes' = [nodes EXCEPT ![s] = @ - 1],
         UNCHANGED <<items, live, dirty, deadCount, weight, pc, owed>>
  PROVE  /\ nodes[s] = 1 /\ nodes'[s] = 0 /\ nodes' \in [Slots(items) -> Nat]
         /\ \A r \in Slots(items) : r # s => nodes'[r] = nodes[r]
         /\ Held(items.slot[s])
         /\ NodesLeft'
<1>1. /\ nodes \in [Slots(items) -> Nat]
      /\ \A r \in Slots(items) : /\ nodes[r] \in {0, 1}
                                 /\ nodes[r] = 1 => Held(items.slot[r])
  BY Zenon, RebuildingFacts DEF Rebuilding, TypeOK, NodesLeft
<1> USE <1>1
<1>2. nodes[s] = 1
  OBVIOUS
<1> USE <1>2
<1>3. /\ nodes'[s] = 0 /\ nodes' \in [Slots(items) -> Nat]
      /\ \A r \in Slots(items) : r # s => nodes'[r] = nodes[r]
  OBVIOUS
<1> QED
  BY Zenon, <1>3 DEF NodesLeft

\* A rebuild step that meets a tombstone frees its node and preserves the invariant.
LEMMA RebuildDeadIInv ==
  ASSUME IInv, NEW s \in Slots(items), RebuildNode(s), items.slot[s].st = "dead"
  PROVE  IInv'
<1>1. /\ pc = "rebuild" /\ nodes[s] > 0 /\ nodes' = [nodes EXCEPT ![s] = @ - 1]
      /\ UNCHANGED rebuild
      /\ UNCHANGED <<items, live, dirty, deadCount, weight, pc, owed>>
  BY Zenon DEF RebuildNode, Visited
<1> USE <1>1
<1>2. Rebuilding /\ TypeOK /\ Owes(items, owed)
  BY Zenon, RebuildingFacts
<1> USE <1>2
<1>3. /\ nodes'[s] = 0 /\ nodes' \in [Slots(items) -> Nat]
      /\ \A r \in Slots(items) : r # s => nodes'[r] = nodes[r]
      /\ NodesLeft'
  BY Zenon, RebuildFrame
<1>4. \A r \in LiveSlots(items) : nodes'[r] = nodes[r]
  BY Zenon, <1>3 DEF LiveSlots
<1> USE <1>4
<1>6. Copies'
  BY DEF Copies, Rebuilding, rebuild
<1>9. Sound(items)' /\ CountersExact' /\ Owes(items, owed)' /\ pc' = "rebuild"
  BY Zenon DEF IInv, CountersExact
<1> QED
  BY Zenon, <1>9, <1>3, <1>6 DEF IInv, TypeOK, rebuild, Rebuilding, Unmoved

\* A rebuild step that copies a live slot into the new table preserves the invariant.
LEMMA RebuildLiveIInv ==
  ASSUME IInv, NEW s \in Slots(items), RebuildNode(s), items.slot[s].st # "dead"
  PROVE  IInv'
<1> DEFINE x == items.slot[s]
           m == fresh.len
<1>1. PICK d \in Slots(fresh) :
        LET f == ProbeSlot(fresh, x.key, d)
        IN  /\ FreshProbeEnds(fresh, x.key, d)
            /\ fresh' = InsertFresh(fresh, f, x)
            /\ freshNodes' = [freshNodes EXCEPT ![f] = @ + 1]
            /\ freshLive' = freshLive + 1
            /\ UNCHANGED delta
  BY Zenon DEF RebuildNode
<1> DEFINE f == ProbeSlot(fresh, x.key, d)
<1>2. /\ pc = "rebuild" /\ nodes[s] > 0 /\ nodes' = [nodes EXCEPT ![s] = @ - 1]
      /\ UNCHANGED <<items, live, dirty, deadCount, weight, pc, owed>>
  BY Zenon DEF RebuildNode, Visited
<1>3. /\ Rebuilding /\ TypeOK /\ Owes(items, owed)
      /\ items.len \in Nat \ {0} /\ items \in Tables(items.len) /\ WellFormed(items)
      /\ m \in Nat \ {0} /\ fresh \in Tables(m) /\ WellFormed(fresh) /\ m >= 4 * GroupLen
      /\ live = Cardinality(LiveSlots(items)) /\ live \in Nat
  BY Zenon, <1>2, RebuildingFacts
<1>4. /\ nodes[s] = 1 /\ nodes'[s] = 0 /\ nodes' \in [Slots(items) -> Nat]
      /\ \A r \in Slots(items) : r # s => nodes'[r] = nodes[r]
      /\ Held(items.slot[s])
      /\ NodesLeft'
  BY Zenon, <1>2, RebuildFrame
<1>5. x \in Item /\ x.st = "live" /\ x.key \in Key /\ x.val \in Value
  BY Zenon, <1>3, <1>4 DEF Held, WellFormed, Keyed, Tables, Slots
<1>6. \A r \in Slots(fresh) : ~Holds(fresh.slot[r], x.key)
  <2> SUFFICES ASSUME NEW r \in Slots(fresh), Holds(fresh.slot[r], x.key)
               PROVE  FALSE
    BY Zenon
  <2>1. PICK q \in LiveSlots(items) : nodes[q] = 0 /\ items.slot[q] = fresh.slot[r]
    BY Zenon, <1>3 DEF Rebuilding, Copies, Holds
  <2> QED
    BY <1>4, <2>1, <1>3 DEF WellFormed, Distinct, LiveSlots
<1>7. /\ fresh' \in Tables(m) /\ WellFormed(fresh') /\ f \in Slots(fresh)
      /\ OneSlot(fresh, fresh', f, x) /\ fresh.slot[f].st = "empty"
      /\ Cardinality(LiveSlots(fresh')) = Cardinality(LiveSlots(fresh)) + 1
  BY <1>1, <1>3, <1>5, <1>6, InsertsFresh
<1>8. /\ freshNodes' = [freshNodes EXCEPT ![f] = @ + 1]
      /\ freshLive' = freshLive + 1 /\ delta' = delta
  BY Zenon, <1>1
<1> HIDE DEF x, f, m
<1>9. Slots(fresh') = Slots(fresh) /\ fresh'.len = m
  BY Zenon, <1>7 DEF OneSlot, Tables
<1>10. /\ freshNodes' \in [Slots(fresh') -> Nat] /\ Linked(fresh', freshNodes')
  <2>1. freshNodes \in [Slots(fresh) -> Nat] /\ Linked(fresh, freshNodes)
    BY Zenon, <1>3 DEF TypeOK, Rebuilding
  <2>3. ~Held(fresh.slot[f]) /\ Held(fresh'.slot[f])
    BY Zenon, <1>5, <1>7 DEF Held, OneSlot
  <2> QED
    BY <1>9, <2>1, <2>3, <1>7, <1>8 DEF Linked, OneSlot
<1>11. s \in Unmoved /\ Unmoved' = Unmoved \ {s}
  BY <1>2, <1>4, <1>5 DEF Unmoved, LiveSlots, x
<1>12. Cardinality(Unmoved') = Cardinality(Unmoved) - 1 /\ Cardinality(Unmoved) \in Nat
  <2>2. IsFiniteSet(Unmoved) /\ Cardinality(Unmoved) \in Nat
    BY Zenon, <1>3, SlotsFinite DEF Unmoved, LiveSlots
  <2> QED
    BY Zenon, <1>11, <2>2, FS_RemoveElement
<1>13. /\ freshLive \in Nat /\ freshLive = Cardinality(LiveSlots(fresh))
       /\ freshLive + Cardinality(Unmoved) = live
  BY Zenon, <1>3 DEF Rebuilding, TypeOK
<1>14. /\ freshLive' = Cardinality(LiveSlots(fresh')) /\ freshLive' \in Nat
       /\ freshLive' + Cardinality(Unmoved') = live'
  BY <1>2, <1>7, <1>8, <1>12, <1>13
<1>15. Copies'
  <2>1. ASSUME NEW r \in Slots(fresh'), fresh'.slot[r].st # "empty"
        PROVE  \E q \in LiveSlots(items') : nodes'[q] = 0 /\ items'.slot[q] = fresh'.slot[r]
    <3>1. CASE r = f
      BY <1>5, <1>7, <3>1, <1>2, <1>4 DEF OneSlot, LiveSlots, x
    <3>2. CASE r # f
      <4>1. r \in Slots(fresh) /\ fresh'.slot[r] = fresh.slot[r]
        BY <1>7, <1>9, <3>2 DEF OneSlot
      <4> USE <4>1
      <4>2. PICK q \in LiveSlots(items) : nodes[q] = 0 /\ items.slot[q] = fresh.slot[r]
        BY Zenon, <1>3, <2>1 DEF Rebuilding, Copies
      <4> QED
        BY Zenon, <1>2, <4>2, <1>4 DEF LiveSlots
    <3> QED
      BY <3>1, <3>2
  <2>2. ASSUME NEW q \in LiveSlots(items'), nodes'[q] = 0
        PROVE  \E r \in Slots(fresh') : fresh'.slot[r] = items'.slot[q]
    <3>1. q \in LiveSlots(items) /\ q \in Slots(items)
      BY <1>2 DEF LiveSlots
    <3>2. CASE q = s
      BY <1>7, <1>9, <3>2, <1>2 DEF OneSlot, x
    <3>3. CASE q # s
      <4>2. PICK r \in Slots(fresh) : fresh.slot[r] = items.slot[q]
        BY <1>3, <3>1, <1>4, <2>2, <3>3 DEF Rebuilding, Copies
      <4> QED
        BY Zenon, <1>2, <1>7, <1>9, <4>2, <3>1 DEF OneSlot, LiveSlots
    <3> QED
      BY Zenon, <3>2, <3>3
  <2> QED
    BY Zenon, <2>1, <2>2 DEF Copies
<1>16. TypeOK'
  BY <1>2, <1>3, <1>4, <1>7, <1>8, <1>9, <1>10, <1>14 DEF TypeOK
<1>19. Rebuilding'
  BY Zenon, <1>2, <1>4, <1>10, <1>14, <1>15, <1>3, <1>7, <1>9 DEF Rebuilding, Sound, Loaded, m
<1> QED
  BY Zenon, <1>16, <1>19, <1>2, <1>3 DEF IInv, CountersExact

\* Publishing the new table at the end of a rebuild preserves the invariant.
LEMMA RebuildDoneIInv ==
  ASSUME IInv, RebuildDone
  PROVE  IInv'
<1> DEFINE m == fresh.len
<1>1. /\ pc = "rebuild" /\ Queued(nodes) = {} /\ items' = fresh /\ nodes' = freshNodes
      /\ live' = freshLive /\ dirty' = 0 /\ deadCount' = 0 /\ weight' = weight + delta
      /\ pc' = AfterWeight(weight', freshNodes) /\ delta' = 0
      /\ fresh' = NewFlatHashMap(0) /\ freshNodes' = NoNodes(fresh') /\ freshLive' = 0
      /\ owed' = owed
  BY Zenon DEF RebuildDone
<1>2. /\ Rebuilding /\ TypeOK /\ Owes(items, owed)
      /\ m \in Nat \ {0} /\ fresh \in Tables(m) /\ WellFormed(fresh) /\ m >= 4 * GroupLen
      /\ live = Cardinality(LiveSlots(items)) /\ live \in Nat
  BY Zenon, <1>1, RebuildingFacts
<1> USE <1>2
<1>3. \A s \in Slots(items) : nodes[s] = 0
  BY <1>1 DEF TypeOK, Queued
<1>4. Unmoved = {}
  BY <1>3 DEF Unmoved, LiveSlots
<1>5. freshLive = live /\ freshLive = Cardinality(LiveSlots(fresh))
  BY <1>4, FS_EmptySet DEF Rebuilding, TypeOK
<1>7. TombSlots(fresh) = {} /\ Cardinality({}) = 0
  BY FS_EmptySet DEF TombSlots, Rebuilding, Copies, LiveSlots
<1>8. Owes(fresh, owed)
  <2>1. ASSUME NEW k \in Key, NEW v \in Value
        PROVE  Entry(fresh, k, v) <=> Entry(items, k, v)
    BY <1>3 DEF Entry, Rebuilding, Copies, IsLive, LiveSlots
  <2> QED
    BY Zenon, <2>1 DEF Owes
<1>11. pc' \in {"idle", "evict"}
  BY Zenon, <1>1, AfterWeightIs
<1> USE <1>11
<1>12. TypeOK'
  BY <1>1, NewIsEmpty DEF TypeOK
<1> QED
  BY Zenon, <1>12, <1>1, <1>5, <1>7, <1>8 DEF IInv, Sound, CountersExact, Resting, Loaded,
       Rebuilding

-----------------------------------------------------------------------------
(***************************************************************************)
(* The invariant is inductive.                                             *)
(***************************************************************************)

\* deleteLocked, and dropExpired after its checks, kill the live item found.
LEMMA DeleteLockedIInv ==
  ASSUME IInv, pc = "idle", NEW k \in Key, NEW d \in Slots(items), Finds(items, k, d),
         KillAt(ProbeSlot(items, k, d))
  PROVE  IInv'
<1>2. ProbeSlot(items, k, d) \in Slots(items)
  BY HomeInTable, ProbeSlotIs, RestingFacts
<1> QED
  BY Zenon, <1>2, KillAtIInv DEF Finds, IsLive, ProbeItem

\* Every step of the shard preserves the invariant.
LEMMA NextIInv == IInv /\ [Next]_vars => IInv'
<1> SUFFICES ASSUME IInv, [Next]_vars PROVE IInv'
  BY Zenon
<1>1. ASSUME NEW k \in Key, NEW v \in Value, SetMemory(k, v)
      PROVE  IInv'
  BY Zenon, <1>1, InsertIInv, ResurrectIInv, OverwriteIInv DEF SetMemory
<1>2. ASSUME NEW k \in Key, NEW v \in Value, SetTooHeavy(k, v)
      PROVE  IInv'
  BY Zenon, <1>2, DeleteLockedIInv DEF SetTooHeavy, DeleteLocked
<1>3. ASSUME NEW k \in Key, Delete(k)
      PROVE  IInv'
  BY Zenon, <1>3, DeleteLockedIInv DEF Delete, DeleteLocked
<1>4. ASSUME NEW k \in Key, DropExpired(k)
      PROVE  IInv'
  BY <1>4, DeleteLockedIInv DEF DropExpired
<1>5. ASSUME NEW s \in Slots(items), Expire(s)
      PROVE  IInv'
  BY Zenon, <1>5, ExpireIInv
<1>6. ASSUME NEW s \in Slots(items), RebuildNode(s)
      PROVE  IInv'
  BY Zenon, <1>6, RebuildDeadIInv, RebuildLiveIInv
<1>7. ASSUME NEW s \in Slots(items), Evict(s)
      PROVE  IInv'
  BY <1>7, EvictIInv
<1>8. CASE RebuildDone
  BY Zenon, <1>8, RebuildDoneIInv
<1>9. CASE UNCHANGED vars
  BY <1>9 DEF vars, table, rebuild, IInv, CountersExact, TypeOK, Unmoved, Resting, Copies,
       NodesLeft, Rebuilding
<1> QED
  BY Zenon, <1>1, <1>2, <1>3, <1>4, <1>5, <1>6, <1>7, <1>8, <1>9 DEF Next, Holder

\* IInv holds in every reachable state.
THEOREM Invariance == Spec => []IInv
  BY InitIInv, NextIInv, PTL DEF Spec

-----------------------------------------------------------------------------
(***************************************************************************)
(* What it says of the shard.                                              *)
(***************************************************************************)

\* The load bound and the minimum of four groups leave a group's worth of
\* empty slots, also while a rebuild is pending.
LEMMA ItemsRoomy ==
  ASSUME IInv
  PROVE  /\ items.len \in Nat \ {0} /\ items \in Tables(items.len) /\ WellFormed(items)
         /\ Roomy(items)
<1>1. /\ items.len \in Nat \ {0} /\ items \in Tables(items.len) /\ WellFormed(items)
      /\ items.len >= 4 * GroupLen
  BY GroupAssumption DEF IInv, Sound
<1> USE <1>1
<1>3. PICK n \in Nat, o \in Nat : n = items.len /\ o = live + dirty
  BY DEF IInv, TypeOK
<1> QED
  BY <1>3, GroupAssumption, RestingFacts DEF IInv, CountersExact, Roomy, Rebuilding

\* A table that is not full has an empty slot.
LEMMA RoomyHasEmpty ==
  ASSUME NEW n \in Nat \ {0}, NEW t \in Tables(n), Roomy(t)
  PROVE  \E s \in Slots(t) : t.slot[s].st = "empty"
<1> SUFFICES ASSUME \A s \in Slots(t) : t.slot[s].st # "empty" PROVE FALSE
  BY Zenon
<1> DEFINE L == LiveSlots(t)
           T == TombSlots(t)
<1>2. L \cup T = Slots(t) /\ L \cap T = {} /\ L \in SUBSET Slots(t) /\ T \in SUBSET Slots(t)
  BY Zenon DEF LiveSlots, TombSlots, Status, Tables, Slots, Item
<1> USE <1>2
<1>3. /\ IsFiniteSet(L) /\ IsFiniteSet(T) /\ Cardinality(Slots(t)) = n
      /\ Cardinality(L) \in Nat /\ Cardinality(T) \in Nat
  BY Zenon, SlotsFinite
<1> USE <1>3
<1>4. t.len = n /\ Cardinality(L) + Cardinality(T) <= t.len - GroupLen
  BY Zenon DEF Roomy, Tables
<1> HIDE DEF L, T
<1>6. Cardinality(L \cap T) = 0
  BY Zenon, FS_EmptySet
<1>7. Cardinality(L) + Cardinality(T) = n
  <2>2. PICK a \in Nat, b \in Nat : a = Cardinality(L) /\ b = Cardinality(T)
    BY Zenon
  <2> USE <2>2
  <2>3. n = a + b - 0
    BY Zenon, <1>6, FS_Union
  <2> QED
    BY <2>3
<1> QED
  BY <1>4, <1>7, GroupAssumption

\* A rebuild never overfills the table it is filling.
LEMMA FreshHasEmpty ==
  ASSUME IInv, pc = "rebuild"
  PROVE  \E s \in Slots(fresh) : fresh.slot[s].st = "empty"
<1>1. /\ Rebuilding /\ TypeOK /\ fresh.len \in Nat \ {0} /\ fresh \in Tables(fresh.len)
      /\ fresh.len >= 4 * GroupLen /\ live \in Nat
  BY Zenon, RebuildingFacts
<1> USE <1>1
<1>3. /\ freshLive = Cardinality(LiveSlots(fresh)) /\ freshLive + Cardinality(Unmoved) = live
      /\ 4 * (live + 0) < 3 * fresh.len /\ freshLive \in Nat
  BY Zenon DEF Rebuilding, Loaded, TypeOK
<1>4. TombSlots(fresh) = {} /\ Cardinality({}) = 0
  BY FS_EmptySet DEF Rebuilding, Copies, LiveSlots, TombSlots
<1>5. PICK n \in Nat, l \in Nat, f \in Nat, u \in Nat :
        n = fresh.len /\ l = live /\ f = freshLive /\ u = Cardinality(Unmoved)
  BY Zenon, <1>3, SlotsFinite, RebuildingFacts DEF Unmoved, LiveSlots
<1>7. Roomy(fresh)
  BY <1>3, <1>4, <1>5, GroupAssumption DEF Roomy
<1> QED
  BY Zenon, <1>7, RoomyHasEmpty

\* The inductive invariant implies each invariant the runs check.
LEMMA IInvImplies ==
  ASSUME IInv
  PROVE  /\ TypeOK /\ OneSlotPerKey /\ FindSlotComplete /\ ProbesEnd
         /\ CountersExact /\ NodesMatchSlots /\ DeletionReportedOnce
<1>1. /\ items.len \in Nat \ {0} /\ items \in Tables(items.len) /\ WellFormed(items)
      /\ Roomy(items)
  BY Zenon, ItemsRoomy
<1>6. DeletionReportedOnce
  BY Zenon DEF IInv, Owes, DeletionReportedOnce, Entry
<1> QED
  BY Zenon, <1>6, <1>1, FindsExactlyTheLive, RoomyHasEmpty, FreshHasEmpty DEF IInv, OneSlotPerKey,
       WellFormed, Distinct, Held, FindSlotComplete, ProbesEnd, Resting, NodesMatchSlots, Linked

\* No counter, overflow count or queue length of a shard ever goes negative or
\* out of its table's range.
THEOREM TypeCorrect == Spec => []TypeOK
  BY Invariance, IInvImplies, PTL

\* setMemory never publishes a key in a second slot.
THEOREM OneSlotPerKeyAlways == Spec => []OneSlotPerKey
  BY Invariance, IInvImplies, PTL

\* findSlot and the readers' probe find a key exactly when it is live, for any
\* hash function: the overflow count never lets a probe stop too early.
THEOREM FindSlotCompleteAlways == Spec => []FindSlotComplete
  BY Invariance, IInvImplies, PTL

\* The unbounded probe loops of setMemory, findSlot and InsertFresh end.
THEOREM ProbesEndAlways == Spec => []ProbesEnd
  BY Invariance, IInvImplies, PTL

\* sh.live and sh.dirty are exact, whatever mix of kills, sweeps, reuses,
\* evictions and rebuilds led here.
THEOREM CountersExactAlways == Spec => []CountersExact
  BY Invariance, IInvImplies, PTL

\* Outside a rebuild, the policy holds one node per live item and per queued
\* tombstone and none for any other slot.
THEOREM NodesMatchSlotsAlways == Spec => []NodesMatchSlots
  BY Invariance, IInvImplies, PTL

\* OnDeletion is called exactly once for every value that left the first level.
THEOREM DeletionReportedOnceAlways == Spec => []DeletionReportedOnce
  BY Invariance, IInvImplies, PTL

-----------------------------------------------------------------------------
(***************************************************************************)
(* A shard implements FirstLevel.  The inductive invariant makes the       *)
(* contents a function of the OnDeletion account: a Get of k sees v exactly *)
(* when v is stored under k and not yet reported.  So each step is shown to *)
(* be a Put, a Drop or a stutter by what it does to the account.           *)
(***************************************************************************)

Looked(c) == c \in [Key -> Value \cup {NoValue}]

\* The account of contents c.
Settled(c, o) == /\ o \in [Key \X Value -> Int]
                 /\ \A k \in Key, v \in Value : o[<<k, v>>] = IF c[k] = v THEN 1 ELSE 0

\* The accounts o and p agree on all but the entry of v under k.
SameElse(o, p, k, v) ==
  \A j \in Key, w \in Value : <<j, w>> # <<k, v>> => p[<<j, w>>] = o[<<j, w>>]

\* A function updated at one point agrees with the old one everywhere else.
LEMMA ExceptSameElse ==
  ASSUME NEW o \in [Key \X Value -> Int], NEW k \in Key, NEW v \in Value, NEW n \in Int,
         NEW p, p = [o EXCEPT ![<<k, v>>] = n]
  PROVE  SameElse(o, p, k, v) /\ p[<<k, v>>] = n
BY Zenon DEF SameElse

\* A lookup returns the value of the key's live item.
LEMMA LookupIs ==
  ASSUME NEW n \in Nat \ {0}, NEW t \in Tables(n), WellFormed(t), Roomy(t), NEW k \in Key
  PROVE  /\ Lookup(t, k) \in Value \cup {NoValue}
         /\ \A v \in Value : Entry(t, k, v) <=> Lookup(t, k) = v
<1>1. \A d \in Slots(t) : ProbeSlot(t, k, d) \in Slots(t)
  BY Zenon, HomeInTable, ProbeSlotIs
<1>2. CASE \E d \in Slots(t) : Finds(t, k, d)
  BY Zenon, <1>2, <1>1 DEF Lookup, ProbeItem, Finds, IsLive, WellFormed, Keyed, Held, Distinct,
       Holds, Entry
<1>3. CASE ~\E d \in Slots(t) : Finds(t, k, d)
  BY <1>3, FindsExactlyTheLive, KeyAssumption DEF Lookup, Entry
<1> QED
  BY <1>2, <1>3

\* Contents and account determine each other.
LEMMA ContentsSettled ==
  ASSUME IInv
  PROVE  Looked(Contents) /\ Settled(Contents, owed)
<1>2. \A k \in Key : /\ Lookup(items, k) \in Value \cup {NoValue}
                     /\ \A v \in Value : Entry(items, k, v) <=> Lookup(items, k) = v
  BY Zenon, LookupIs, ItemsRoomy
<1> QED
  BY <1>2 DEF Looked, Contents, Settled, IInv, Owes

\* What the account says of one key.
LEMMA SettledRow ==
  ASSUME NEW c, NEW d, NEW o, NEW p, Looked(c), Looked(d), Settled(c, o), Settled(d, p),
         NEW k \in Key, \A v \in Value : p[<<k, v>>] = o[<<k, v>>]
  PROVE  d[k] = c[k]
<1>1. ASSUME NEW v \in Value
      PROVE  (c[k] = v) <=> (d[k] = v)
  <2>2. (d[k] = v) <=> (p[<<k, v>>] = 1)
    BY DEF Settled
  <2> QED
    BY <2>2 DEF Settled
<1> QED
  BY <1>1 DEF Looked

\* Two contents with one account are the same.
LEMMA SettledUnique ==
  ASSUME NEW c, NEW d, NEW o, Looked(c), Looked(d), Settled(c, o), Settled(d, o)
  PROVE  d = c
<1>1. ASSUME NEW k \in Key
      PROVE  d[k] = c[k]
  BY Zenon, SettledRow
<1> QED
  BY <1>1 DEF Looked

\* Keys other than k keep their contents.
LEMMA OtherRows ==
  ASSUME NEW c, NEW d, NEW o, NEW p, Looked(c), Looked(d), Settled(c, o), Settled(d, p),
         NEW k \in Key, NEW v \in Value, SameElse(o, p, k, v)
  PROVE  \A j \in Key : j # k => d[j] = c[j]
<1> SUFFICES ASSUME NEW j \in Key, j # k PROVE d[j] = c[j]
  BY Zenon
<1> QED
  BY SettledRow DEF SameElse

\* A store on the account is a put of its key, which had no value.
LEMMA StoredIsPut ==
  ASSUME NEW c, NEW d, NEW o, NEW p, Looked(c), Looked(d), Settled(c, o), Settled(d, p),
         NEW k \in Key, NEW v \in Value, SameElse(o, p, k, v), p[<<k, v>>] = o[<<k, v>>] + 1
  PROVE  c[k] = NoValue /\ d = [c EXCEPT ![k] = v]
<1>1. c[k] # v /\ d[k] = v
  BY DEF Settled
<1> USE <1>1
<1>2. \A w \in Value : c[k] # w
  <2> SUFFICES ASSUME NEW w \in Value, c[k] = w PROVE FALSE
    BY Zenon
  <2>1. w # v
    BY Zenon
  <2> USE <2>1
  <2>3. o[<<k, w>>] = 1 /\ p[<<k, w>>] = 0
    BY DEF Settled
  <2> QED
    BY <2>3 DEF SameElse
<1> QED
  BY <1>2, OtherRows DEF Looked

\* A report of the key's value is the end of its entry.
LEMMA ReportedIsDrop ==
  ASSUME NEW c, NEW d, NEW o, NEW p, Looked(c), Looked(d), Settled(c, o), Settled(d, p),
         NEW k \in Key, NEW v \in Value, c[k] = v, SameElse(o, p, k, v),
         p[<<k, v>>] = o[<<k, v>>] - 1
  PROVE  d = [c EXCEPT ![k] = NoValue]
<1>1. o[<<k, v>>] = 1 /\ d[k] # v
  BY DEF Settled
<1>2. \A w \in Value : d[k] # w
  <2> SUFFICES ASSUME NEW w \in Value, d[k] = w PROVE FALSE
    BY Zenon
  <2>1. w # v
    BY Zenon, <1>1
  <2>2. p[<<k, w>>] = o[<<k, w>>]
    BY Zenon, <2>1 DEF SameElse
  <2>3. p[<<k, w>>] = 1
    BY Zenon DEF Settled
  <2>4. o[<<k, w>>] # 1
    BY <2>1 DEF Settled
  <2> QED
    BY Zenon, <2>2, <2>3, <2>4
<1>3. d[k] = NoValue
  BY Zenon, <1>2 DEF Looked
<1>4. \A j \in Key : j # k => d[j] = c[j]
  BY OtherRows
<1> QED
  BY Zenon, <1>3, <1>4 DEF Looked

\* The account after a report of old and a store of v.
LEMMA ReplacedAccount ==
  ASSUME NEW o \in [Key \X Value -> Int], NEW k \in Key, NEW v \in Value, NEW old \in Value,
         NEW p, p = [[o EXCEPT ![<<k, old>>] = @ - 1] EXCEPT ![<<k, v>>] = @ + 1]
  PROVE  /\ \A j \in Key, w \in Value : j # k => p[<<j, w>>] = o[<<j, w>>]
         /\ p[<<k, v>>] = IF v = old THEN o[<<k, v>>] ELSE o[<<k, v>>] + 1
<1> DEFINE q == [o EXCEPT ![<<k, old>>] = @ - 1]
<1>1. /\ q \in [Key \X Value -> Int] /\ q[<<k, old>>] = o[<<k, old>>] - 1
      /\ \A j \in Key, w \in Value : <<j, w>> # <<k, old>> => q[<<j, w>>] = o[<<j, w>>]
  OBVIOUS
<1> USE <1>1
<1> HIDE DEF q
<1>3. /\ p[<<k, v>>] = q[<<k, v>>] + 1
      /\ \A j \in Key, w \in Value : <<j, w>> # <<k, v>> => p[<<j, w>>] = q[<<j, w>>]
  BY Zenon
<1> USE <1>3
<1>4. p[<<k, v>>] = IF v = old THEN o[<<k, v>>] ELSE o[<<k, v>>] + 1
  OBVIOUS
<1> QED
  BY Zenon, <1>4

\* A report of the key's value and a store of another replace it.
LEMMA ReplacedIsPut ==
  ASSUME NEW c, NEW d, NEW o, NEW p, Looked(c), Looked(d), Settled(c, o), Settled(d, p),
         NEW k \in Key, NEW v \in Value,
         \A j \in Key, w \in Value : j # k => p[<<j, w>>] = o[<<j, w>>],
         p[<<k, v>>] = IF v = c[k] THEN o[<<k, v>>] ELSE o[<<k, v>>] + 1
  PROVE  d = [c EXCEPT ![k] = v]
<1>4. \A j \in Key : j # k => d[j] = c[j]
  BY SettledRow
<1> QED
  BY <1>4 DEF Looked, Settled

-----------------------------------------------------------------------------
(***************************************************************************)
(* The steps.                                                              *)
(***************************************************************************)

\* Both ends of a step.
LEMMA StepSettled ==
  ASSUME IInv, IInv'
  PROVE  /\ Looked(Contents) /\ Settled(Contents, owed)
         /\ Looked(Contents') /\ Settled(Contents', owed')
<1>2. (IInv => (Looked(Contents) /\ Settled(Contents, owed)))'
  BY ContentsSettled, PTL
<1> QED
  BY Zenon, <1>2, ContentsSettled

\* A step that leaves the account alone leaves the contents alone.
LEMMA SameAccount ==
  ASSUME IInv, IInv', owed' = owed
  PROVE  Contents' = Contents
<1> QED
  BY Zenon, SettledUnique, StepSettled

\* The value of a live slot is the contents of its key.
LEMMA LiveIsContents ==
  ASSUME IInv, NEW s \in Slots(items), items.slot[s].st = "live"
  PROVE  /\ items.slot[s].key \in Key /\ items.slot[s].val \in Value
         /\ Contents[items.slot[s].key] = items.slot[s].val
<1>1. items.slot[s].key \in Key /\ items.slot[s].val \in Value
  BY Zenon, ItemsRoomy DEF WellFormed, Keyed, Held
<1> USE <1>1
<1>3. owed[<<items.slot[s].key, items.slot[s].val>>] = 1
  BY Zenon DEF IInv, Owes, Entry, IsLive
<1> QED
  BY <1>3, ContentsSettled DEF Settled

\* A set is a Put of its key and nothing else.
LEMMA SetMemoryPuts ==
  ASSUME IInv, IInv', NEW k \in Key, NEW v \in Value, SetMemory(k, v)
  PROVE  L1!Put(k, v)
<1>1. /\ Looked(Contents) /\ Settled(Contents, owed)
      /\ Looked(Contents') /\ Settled(Contents', owed')
  BY Zenon, StepSettled
<1>2. CASE Insert(k, v) \/ Resurrect(k, v)
  <2>1. owed' = [owed EXCEPT ![<<k, v>>] = @ + 1]
    BY Zenon, <1>2 DEF Insert, Resurrect, Stored
  <2>2. owed \in [Key \X Value -> Int] /\ owed[<<k, v>>] + 1 \in Int
    BY <1>1 DEF Settled
  <2>3. SameElse(owed, owed', k, v) /\ owed'[<<k, v>>] = owed[<<k, v>>] + 1
    BY ZenonT(60), <2>1, <2>2, ExceptSameElse
  <2>4. Contents[k] = NoValue /\ Contents' = [Contents EXCEPT ![k] = v]
    BY <1>1, <2>3, StoredIsPut
  <2> QED
    BY Zenon, <2>1, <2>4 DEF L1!Put, L1!Report
<1>3. CASE Overwrite(k, v)
  <2>1. PICK d \in Slots(items) :
          LET s   == ProbeSlot(items, k, d)
              old == items.slot[s].val
          IN  /\ SetProbeEnds(items, k, d)
              /\ items.slot[s].st = "live"
              /\ owed' = [Reported(k, old) EXCEPT ![<<k, v>>] = @ + 1]
    BY Zenon, <1>3 DEF Overwrite
  <2> DEFINE s   == ProbeSlot(items, k, d)
             old == items.slot[s].val
  <2>2. s \in Slots(items)
    BY Zenon, ItemsRoomy, HomeInTable, ProbeSlotIs
  <2>4. old \in Value /\ Contents[k] = old
    BY Zenon, <2>2, LiveIsContents, <2>1 DEF SetProbeEnds, ProbeItem, Holds
  <2>5. owed' = [[owed EXCEPT ![<<k, old>>] = @ - 1] EXCEPT ![<<k, v>>] = @ + 1]
    BY <2>1 DEF Reported
  <2> HIDE DEF old, s
  <2>6. owed \in [Key \X Value -> Int]
    BY Zenon, <1>1 DEF Settled
  <2>7. /\ \A j \in Key, w \in Value : j # k => owed'[<<j, w>>] = owed[<<j, w>>]
        /\ owed'[<<k, v>>] = IF v = old THEN owed[<<k, v>>] ELSE owed[<<k, v>>] + 1
    BY <2>4, <2>5, <2>6, ReplacedAccount
  <2>8. Contents' = [Contents EXCEPT ![k] = v]
    BY <1>1, <2>4, <2>7, ReplacedIsPut
  <2> QED
    BY Zenon, <2>5, <2>8, <2>4, KeyAssumption DEF L1!Put, L1!Report
<1> QED
  BY <1>2, <1>3 DEF SetMemory

\* Reporting the item of slot s is the Drop of its key.
LEMMA ReportedDrops ==
  ASSUME IInv, IInv', NEW s \in Slots(items), items.slot[s].st = "live",
         owed' = Reported(items.slot[s].key, items.slot[s].val)
  PROVE  items.slot[s].key \in Key /\ L1!Drop(items.slot[s].key)
<1> DEFINE k == items.slot[s].key
           v == items.slot[s].val
<1>1. k \in Key /\ v \in Value /\ Contents[k] = v
  BY Zenon, LiveIsContents
<1>2. /\ Looked(Contents) /\ Settled(Contents, owed)
      /\ Looked(Contents') /\ Settled(Contents', owed')
  BY Zenon, StepSettled
<1>3. owed' = [owed EXCEPT ![<<k, v>>] = @ - 1]
  BY Zenon DEF Reported
<1> HIDE DEF k, v
<1>4. owed \in [Key \X Value -> Int] /\ owed[<<k, v>>] - 1 \in Int
  BY <1>1, <1>2 DEF Settled
<1>5. SameElse(owed, owed', k, v) /\ owed'[<<k, v>>] = owed[<<k, v>>] - 1
  <2>1. PICK n \in Int : n = owed[<<k, v>>] - 1
    BY Zenon, <1>4
  <2>2. owed' = [owed EXCEPT ![<<k, v>>] = n]
    BY Zenon, <1>3, <2>1
  <2>3. SameElse(owed, owed', k, v) /\ owed'[<<k, v>>] = n
    BY Zenon, <1>1, <1>4, <2>2, ExceptSameElse
  <2> QED
    BY Zenon, <2>1, <2>3
<1>6. Contents' = [Contents EXCEPT ![k] = NoValue]
  BY <1>1, <1>2, <1>5, ReportedIsDrop
<1> QED
  BY Zenon, <1>1, KeyAssumption, <1>3, <1>6 DEF k, L1!Drop, L1!Report

\* A new shard maps to an empty first level.
LEMMA InitImplements == Init => L1!Init
<1> SUFFICES ASSUME Init PROVE L1!Init
  BY Zenon
<1>1. Looked(Contents) /\ Settled(Contents, owed)
  BY Zenon, InitIInv, ContentsSettled
<1> USE <1>1
<1>2. owed = [e \in Key \X Value |-> 0]
  BY Zenon DEF Init
<1> USE <1>2
<1>4. \A k \in Key : Contents[k] = NoValue
  <2>1. ASSUME NEW k \in Key, NEW v \in Value
        PROVE  Contents[k] # v
    <3>2. owed[<<k, v>>] = 0
      BY Zenon
    <3> QED
      BY <3>2 DEF Settled
  <2> QED
    BY Zenon, <2>1 DEF Looked
<1> QED
  BY Zenon, <1>4 DEF L1!Init, Looked

\* Every step of the shard maps to a Put, to a Drop or to a stuttering step.
LEMMA StepImplements ==
  ASSUME IInv, IInv', [Next]_vars
  PROVE  [L1!Next]_<<Contents, owed>>
<1>1. ASSUME NEW k \in Key, NEW v \in Value, SetMemory(k, v)
      PROVE  L1!Next
  BY Zenon, <1>1, SetMemoryPuts DEF L1!Next
<1>2. ASSUME NEW k \in Key, NEW d \in Slots(items), Finds(items, k, d),
             KillAt(ProbeSlot(items, k, d))
      PROVE  L1!Next
  <2>1. ProbeSlot(items, k, d) \in Slots(items)
    BY ItemsRoomy, HomeInTable, ProbeSlotIs
  <2> QED
    BY Zenon, <2>1, ReportedDrops, <1>2 DEF L1!Next, Finds, IsLive, ProbeItem, KillAt
<1>3. ASSUME owed' = owed
      PROVE  UNCHANGED <<Contents, owed>>
  BY Zenon, <1>3, SameAccount
<1>4. ASSUME NEW s \in Slots(items), Evict(s)
      PROVE  [L1!Next]_<<Contents, owed>>
  BY Zenon, <1>4, ReportedDrops, <1>3 DEF Evict, Killed, L1!Next
<1>5. ASSUME \/ \E s \in Slots(items) : Expire(s) \/ RebuildNode(s)
             \/ RebuildDone
             \/ UNCHANGED vars
      PROVE  UNCHANGED <<Contents, owed>>
  BY <1>5, <1>3 DEF Expire, RebuildNode, RebuildDone, vars
<1> QED
  BY Zenon, <1>1, <1>2, <1>4, <1>5 DEF Next, Holder, Delete, DeleteLocked, SetTooHeavy, DropExpired

\* Every shard is a FirstLevel map: for any keys, hashes, costs and capacity,
\* and with any policy that keeps its contract, Sets put one key, removals and
\* their OnDeletion report are one step, and nothing else is ever visible.
THEOREM Implementation == Spec => ImplementsFirstLevel
<1>1. Init => L1!Init
  BY Zenon, InitImplements
<1>2. IInv /\ IInv' /\ [Next]_vars => [L1!Next]_<<Contents, owed>>
  BY StepImplements
<1> QED
  BY <1>1, <1>2, Invariance, PTL DEF Spec, L1!Spec, ImplementsFirstLevel

\* No step of a rebuild, its table swap included, changes what any key's
\* lookup returns.
THEOREM RebuildKeepsContentsAlways == Spec => RebuildKeepsContents
<1>1. IInv /\ IInv' /\ [Next]_vars => [pc = "rebuild" => Contents' = Contents]_vars
  BY Zenon, SameAccount DEF Next, SetMemory, SetTooHeavy, Delete, DropExpired, Expire, Holder,
       RebuildNode, RebuildDone, Evict
<1> QED
  BY <1>1, Invariance, PTL DEF Spec, RebuildKeepsContents

=============================================================================
