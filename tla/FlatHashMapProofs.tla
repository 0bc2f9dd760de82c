------------------------- MODULE FlatHashMapProofs -------------------------
(***************************************************************************)
(* What the operations of the slot table preserve, for tables of any size, *)
(* any hash function and any group size.                                   *)
(***************************************************************************)
EXTENDS FlatHashMap, FiniteSetTheorems, TLAPS

Held(x) == x.st \in {"live", "dead"}

\* Held items carry a key and a value.
Keyed(t) == \A s \in Slots(t) : Held(t.slot[s]) => /\ t.slot[s].key \in Key
                                                   /\ t.slot[s].val \in Value

\* A key is held by at most one slot.
Distinct(t) == \A s, r \in Slots(t) :
                 (Held(t.slot[s]) /\ Holds(t.slot[r], t.slot[s].key)) => s = r

\* No empty slot interrupts the probe chain of a held key.
Chained(t) == \A k \in Key, d \in Slots(t) :
                Holds(ProbeItem(t, k, d), k) =>
                  \A e \in 0..d-1 : ProbeItem(t, k, e).st # "empty"

\* The live items homed in group g that sit outside it.
Outside(t, g) == {s \in LiveSlots(t) : /\ Group(Home(t, t.slot[s].key)) = g
                                       /\ Group(s) # g}

Counted(t) == \A g \in Groups(t.len) : t.over[g] = Cardinality(Outside(t, g))

\* Strictly fewer occupied slots than slots less one group.
Roomy(t) == Cardinality(LiveSlots(t)) + Cardinality(TombSlots(t)) <= t.len - GroupLen

WellFormed(t) == Keyed(t) /\ Distinct(t) /\ Chained(t) /\ Counted(t)

-----------------------------------------------------------------------------
(***************************************************************************)
(* Arithmetic of probe positions and groups.                               *)
(***************************************************************************)

\* A remainder lies in range (Home and Wrap mask with the table size).
LEMMA ModRange ==
  ASSUME NEW n \in Nat \ {0}, NEW x \in Nat
  PROVE  x % n \in 0..n-1
  OBVIOUS

\* A position at or past the end of a slot's group lies in a later group.
LEMMA GroupNext ==
  ASSUME NEW s \in Nat, NEW r \in Nat, r >= s - (s % GroupLen) + GroupLen
  PROVE  Group(r) # Group(s)
<1>1. r \div GroupLen > s \div GroupLen
  BY GroupAssumption
<1>2. r \div GroupLen \in Int /\ s \div GroupLen \in Int
  BY GroupAssumption
<1> QED
  BY <1>1, <1>2 DEF Group

\* A position before the start of a slot's group lies in an earlier group.
LEMMA GroupPrev ==
  ASSUME NEW s \in Nat, NEW r \in Nat, r < s - (s % GroupLen)
  PROVE  Group(r) # Group(s)
<1>1. r \div GroupLen < s \div GroupLen
  BY GroupAssumption
<1>2. r \div GroupLen \in Int /\ s \div GroupLen \in Int
  BY GroupAssumption
<1> QED
  BY <1>1, <1>2 DEF Group

\* Home is a slot of the table (FlatHashMap.Home).
LEMMA HomeInTable ==
  ASSUME NEW n \in Nat \ {0}, NEW t \in Tables(n), NEW k \in Key
  PROVE  /\ t.len = n
         /\ Slots(t) = 0..n-1
         /\ Home(t, k) \in Slots(t)
<1>1. t.len = n
  BY Zenon DEF Tables
<1>2. Hash[k] \in Nat
  BY Zenon, HashAssumption
<1> QED
  BY Zenon, <1>1, <1>2, ModRange DEF Home, Slots

\* Where d steps of a probe lead (FlatHashMap.Wrap).
LEMMA ProbeSlotIs ==
  ASSUME NEW n \in Nat \ {0}, NEW t \in Tables(n), NEW k \in Key, NEW d \in 0..n-1
  PROVE  /\ ProbeSlot(t, k, d) = IF Home(t, k) + d < n THEN Home(t, k) + d
                                                       ELSE Home(t, k) + d - n
         /\ ProbeSlot(t, k, d) \in Slots(t)
<1> DEFINE h == Home(t, k)
<1>1. t.len = n /\ Slots(t) = 0..n-1 /\ h \in 0..n-1
  BY Zenon, HomeInTable
<1>2. ProbeSlot(t, k, d) = (h + d) % n
  BY Zenon, <1>1 DEF ProbeSlot
<1> HIDE DEF h
<1>3. h + d \in 0..2*n-1
  BY <1>1
<1>4. (h + d) % n = IF h + d < n THEN h + d ELSE h + d - n
  <2>1. CASE h + d < n
    BY <1>1, <2>1
  <2>2. CASE h + d >= n
    BY <1>1, <2>2
  <2> QED
    BY <1>1, <2>1, <2>2
<1>5. (IF h + d < n THEN h + d ELSE h + d - n) \in 0..n-1
  BY <1>1
<1> QED
  BY Zenon, <1>1, <1>2, <1>4, <1>5 DEF h

\* A probe of len steps visits every slot once.
LEMMA ProbeCovers ==
  ASSUME NEW n \in Nat \ {0}, NEW t \in Tables(n), NEW k \in Key
  PROVE  /\ \A d, e \in Slots(t) : ProbeSlot(t, k, d) = ProbeSlot(t, k, e) => d = e
         /\ \A s \in Slots(t) : \E d \in Slots(t) : ProbeSlot(t, k, d) = s
<1> DEFINE h == Home(t, k)
           at(d) == IF h + d < n THEN h + d ELSE h + d - n
<1>1. Slots(t) = 0..n-1 /\ h \in 0..n-1
  BY Zenon, HomeInTable
<1>2. \A d \in 0..n-1 : ProbeSlot(t, k, d) = at(d)
  BY Zenon, ProbeSlotIs
<1> HIDE DEF h
<1>3. ASSUME NEW d \in 0..n-1, NEW e \in 0..n-1, at(d) = at(e)
      PROVE  d = e
  BY <1>1, <1>3
<1>4. ASSUME NEW s \in 0..n-1
      PROVE  \E d \in 0..n-1 : at(d) = s
  <2>1. CASE s >= h
    <3>1. s - h \in 0..n-1 /\ at(s - h) = s
      BY <1>1, <2>1
    <3> QED
      BY Zenon, <3>1
  <2>2. CASE s < h
    <3>1. s - h + n \in 0..n-1 /\ at(s - h + n) = s
      BY <1>1, <2>2
    <3> QED
      BY Zenon, <3>1
  <2> QED
    BY <1>1, <2>1, <2>2
<1> HIDE DEF at
<1> QED
  BY ZenonT(60), <1>1, <1>2, <1>3, <1>4

-----------------------------------------------------------------------------
(***************************************************************************)
(* Keyed, Distinct and Chained.                                            *)
(***************************************************************************)

\* Probes depend on the size of the table only, not on what it holds.
LEMMA SameProbes ==
  ASSUME NEW n \in Nat \ {0}, NEW t \in Tables(n), NEW u \in Tables(n),
         NEW k \in Key
  PROVE  /\ Slots(u) = Slots(t) /\ Slots(t) = 0..n-1
         /\ Home(u, k) = Home(t, k)
         /\ \A d \in 0..n-1 : /\ ProbeSlot(u, k, d) = ProbeSlot(t, k, d)
                              /\ ProbeSlot(t, k, d) \in Slots(t)
<1>1. t.len = n /\ u.len = n
  BY Zenon DEF Tables
<1>2. \A d \in 0..n-1 : ProbeSlot(t, k, d) \in Slots(t)
  BY Zenon, ProbeSlotIs
<1> QED
  BY Zenon, <1>1, <1>2 DEF Slots, Home, ProbeSlot

\* An operation that empties no slot and adds no key keeps the probe chains:
\* Kill, MakeFree, a sweep, an overwrite, a resurrection.
LEMMA KeepsChains ==
  ASSUME NEW n \in Nat \ {0}, NEW t \in Tables(n), NEW u \in Tables(n),
         Keyed(t), Distinct(t), Chained(t),
         \A s \in Slots(t) :
           /\ t.slot[s].st # "empty" => u.slot[s].st # "empty"
           /\ Held(u.slot[s]) => /\ Held(t.slot[s])
                                 /\ u.slot[s].key = t.slot[s].key
                                 /\ u.slot[s].val \in Value
  PROVE  Keyed(u) /\ Distinct(u) /\ Chained(u)
<1>1. Slots(u) = Slots(t) /\ Slots(t) = 0..n-1
  BY Zenon DEF Tables, Slots
<1>2. Keyed(u)
  BY Zenon, <1>1 DEF Keyed
<1>3. Distinct(u)
  BY Zenon, <1>1 DEF Distinct, Held, Holds
<1>4. ASSUME NEW k \in Key, NEW d \in Slots(u), Holds(ProbeItem(u, k, d), k),
             NEW e \in 0..d-1
      PROVE  ProbeItem(u, k, e).st # "empty"
  <2>1. d \in 0..n-1 /\ e \in 0..n-1
    BY <1>1
  <2>2. /\ ProbeSlot(u, k, d) = ProbeSlot(t, k, d) /\ ProbeSlot(t, k, d) \in Slots(t)
        /\ ProbeSlot(u, k, e) = ProbeSlot(t, k, e) /\ ProbeSlot(t, k, e) \in Slots(t)
    BY <2>1, SameProbes
  <2>3. Holds(ProbeItem(t, k, d), k)
    BY Zenon, <1>4, <2>2 DEF ProbeItem, Holds, Held
  <2>4. ProbeItem(t, k, e).st # "empty"
    BY Zenon, <1>1, <2>1, <2>3 DEF Chained
  <2> QED
    BY Zenon, <2>2, <2>4 DEF ProbeItem
<1> QED
  BY Zenon, <1>2, <1>3, <1>4 DEF Chained

\* The writer's probe that ends at an empty slot has shown the key absent.
LEMMA ProbeShowsAbsent ==
  ASSUME NEW n \in Nat \ {0}, NEW t \in Tables(n), Chained(t),
         NEW k \in Key, NEW d \in Slots(t), SetProbeEnds(t, k, d),
         ProbeItem(t, k, d).st = "empty"
  PROVE  \A s \in Slots(t) : ~Holds(t.slot[s], k)
<1> SUFFICES ASSUME NEW s \in Slots(t), Holds(t.slot[s], k)
             PROVE  FALSE
  BY Zenon
<1>1. PICK e \in Slots(t) : ProbeSlot(t, k, e) = s
  BY Zenon, ProbeCovers
<1>2. Slots(t) = 0..n-1
  BY Zenon, HomeInTable
<1>3. Holds(ProbeItem(t, k, e), k)
  BY Zenon, <1>1 DEF ProbeItem
<1>4. CASE e < d
  BY <1>2, <1>3, <1>4 DEF SetProbeEnds
<1>5. CASE e = d
  BY Zenon, <1>3, <1>5 DEF Holds
<1>6. CASE e > d
  BY <1>2, <1>3, <1>6 DEF Chained
<1> QED
  BY <1>2, <1>4, <1>5, <1>6

\* A key that no slot holds may be placed at any point of its probe before
\* which there is no empty slot: setMemory's insert and InsertFresh.
LEMMA PlacesKey ==
  ASSUME NEW n \in Nat \ {0}, NEW t \in Tables(n), NEW u \in Tables(n),
         Keyed(t), Distinct(t), Chained(t),
         NEW k \in Key, NEW c \in Slots(t), NEW x,
         u.slot = [t.slot EXCEPT ![ProbeSlot(t, k, c)] = x],
         x.st = "live", x.key = k, x.val \in Value,
         \A s \in Slots(t) : ~Holds(t.slot[s], k),
         \A e \in 0..c-1 : ProbeItem(t, k, e).st # "empty"
  PROVE  Keyed(u) /\ Distinct(u) /\ Chained(u)
<1> DEFINE s0 == ProbeSlot(t, k, c)
<1>1. Slots(u) = Slots(t) /\ Slots(t) = 0..n-1
  BY Zenon DEF Tables, Slots
<1>2. s0 \in Slots(t)
  BY Zenon, <1>1, SameProbes
<1>3. t.slot \in [Slots(t) -> Item]
  BY Zenon, <1>1 DEF Tables
<1>4. u.slot[s0] = x /\ \A s \in Slots(t) : s # s0 => u.slot[s] = t.slot[s]
  BY Zenon, <1>2, <1>3
<1> HIDE DEF s0
<1>5. Keyed(u)
  BY Zenon, <1>1, <1>4 DEF Keyed, Held
<1>6. Distinct(u)
  BY <1>1, <1>4 DEF Distinct, Held, Holds
<1>7. ASSUME NEW j \in Key, NEW d \in Slots(u), Holds(ProbeItem(u, j, d), j),
             NEW e \in 0..d-1
      PROVE  ProbeItem(u, j, e).st # "empty"
  <2>1. d \in 0..n-1 /\ e \in 0..n-1
    BY <1>1
  <2>2. /\ ProbeSlot(u, j, d) = ProbeSlot(t, j, d) /\ ProbeSlot(t, j, d) \in Slots(t)
        /\ ProbeSlot(u, j, e) = ProbeSlot(t, j, e) /\ ProbeSlot(t, j, e) \in Slots(t)
    <3>1. \A i \in 0..n-1 : /\ ProbeSlot(u, j, i) = ProbeSlot(t, j, i)
                            /\ ProbeSlot(t, j, i) \in Slots(t)
      BY Zenon, SameProbes
    <3> QED
      BY Zenon, <2>1, <3>1
  <2>3. ProbeItem(t, j, e).st # "empty"
    <3>1. CASE ProbeSlot(t, j, d) = s0
      <4>1. j = k
        BY Zenon, <1>4, <1>7, <2>2, <3>1 DEF ProbeItem, Holds
      <4>2. d = c
        BY Zenon, <1>1, <3>1, <4>1, ProbeCovers DEF s0
      <4> QED
        BY Zenon, <4>1, <4>2
    <3>2. CASE ProbeSlot(t, j, d) # s0
      <4>1. Holds(ProbeItem(t, j, d), j)
        BY Zenon, <1>4, <1>7, <2>2, <3>2 DEF ProbeItem
      <4> QED
        BY Zenon, <1>1, <4>1 DEF Chained
    <3> QED
      BY Zenon, <3>1, <3>2
  <2> QED
    BY Zenon, <1>4, <2>2, <2>3 DEF ProbeItem
<1> QED
  BY Zenon, <1>5, <1>6, <1>7 DEF Chained

-----------------------------------------------------------------------------
(***************************************************************************)
(* Counted: the overflow counts.                                           *)
(***************************************************************************)

\* The sets of slots that are counted are finite.
LEMMA SlotsFinite ==
  ASSUME NEW n \in Nat, NEW t \in Tables(n)
  PROVE  /\ IsFiniteSet(Slots(t)) /\ Cardinality(Slots(t)) = n
         /\ \A S \in SUBSET Slots(t) : IsFiniteSet(S) /\ Cardinality(S) \in Nat
<1>1. Slots(t) = 0..n-1
  BY Zenon DEF Tables, Slots
<1>2. IsFiniteSet(0..n-1) /\ Cardinality(0..n-1) = n
  BY FS_Interval
<1>3. ASSUME NEW S \in SUBSET Slots(t)
      PROVE  IsFiniteSet(S) /\ Cardinality(S) \in Nat
  BY Zenon, <1>1, <1>2, FS_Subset, FS_CardinalityType
<1> QED
  BY Zenon, <1>1, <1>2, <1>3

\* Making an item live in slot s and NoteDisplaced keep the counts exact.
LEMMA CountsLive ==
  ASSUME NEW n \in Nat \ {0}, NEW t \in Tables(n), Counted(t),
         NEW s \in Slots(t), t.slot[s].st # "live",
         NEW x \in Item, x.st = "live", x.key \in Key,
         NEW u, u = With(t, s, x, NoteDisplaced(t, x.key, s))
  PROVE  /\ u \in Tables(n)
         /\ Counted(u)
         /\ LiveSlots(u) = LiveSlots(t) \cup {s}
         /\ Cardinality(LiveSlots(u)) = Cardinality(LiveSlots(t)) + 1
<1> DEFINE k == x.key
           h == Group(Home(t, k))
<1>1. /\ t.len = n /\ Slots(t) = 0..n-1 /\ t.slot \in [0..n-1 -> Item]
      /\ t.over \in [Groups(n) -> Nat]
  BY Zenon DEF Tables, Slots
<1>2. h \in Groups(n)
  BY Zenon, <1>1, HomeInTable DEF Groups
<1>3. /\ u.len = n /\ u.slot = [t.slot EXCEPT ![s] = x]
      /\ u.over = NoteDisplaced(t, k, s)
      /\ u = [len |-> u.len, slot |-> u.slot, over |-> u.over]
  BY Zenon, <1>1 DEF With
<1>4. /\ u.slot[s] = x /\ \A r \in Slots(t) : r # s => u.slot[r] = t.slot[r]
      /\ u.slot \in [0..n-1 -> Item]
  BY Zenon, <1>1, <1>3
<1>5. NoteDisplaced(t, k, s) \in [Groups(n) -> Nat]
  BY <1>1, <1>2 DEF NoteDisplaced
<1>6. u \in Tables(n)
  BY Zenon, <1>3, <1>4, <1>5 DEF Tables
<1>7. Slots(u) = Slots(t) /\ \A j : Home(u, j) = Home(t, j)
  BY Zenon, <1>1, <1>3 DEF Slots, Home
<1>8. LiveSlots(u) = LiveSlots(t) \cup {s} /\ s \notin LiveSlots(t)
  BY Zenon, <1>4, <1>7 DEF LiveSlots
<1>9. Cardinality(LiveSlots(u)) = Cardinality(LiveSlots(t)) + 1
  BY Zenon, <1>8, SlotsFinite, FS_AddElement DEF LiveSlots
<1>10. ASSUME NEW g \in Groups(n)
       PROVE  u.over[g] = Cardinality(Outside(u, g))
  <2>1. IsFiniteSet(Outside(t, g))
    BY Zenon, SlotsFinite DEF Outside, LiveSlots
  <2>2. t.over[g] = Cardinality(Outside(t, g))
    BY Zenon, <1>1 DEF Counted
  <2>3. CASE g = h /\ Group(s) # g
    <3>1. Outside(u, g) = Outside(t, g) \cup {s} /\ s \notin Outside(t, g)
      BY SMTT(60), <1>4, <1>7, <1>8, <2>3 DEF Outside, LiveSlots
    <3>2. Cardinality(Outside(u, g)) = Cardinality(Outside(t, g)) + 1
      BY Zenon, <2>1, <3>1, FS_AddElement
    <3> QED
      BY Zenon, <1>1, <1>3, <2>2, <2>3, <3>2 DEF NoteDisplaced, Displaced
  <2>4. CASE ~(g = h /\ Group(s) # g)
    <3>1. Outside(u, g) = Outside(t, g)
      BY <1>4, <1>7, <1>8, <2>4 DEF Outside, LiveSlots
    <3> QED
      BY Zenon, <1>1, <1>3, <2>2, <2>4, <3>1 DEF NoteDisplaced, Displaced
  <2> QED
    BY Zenon, <2>3, <2>4
<1> QED
  BY Zenon, <1>3, <1>6, <1>8, <1>9, <1>10 DEF Counted

\* Killing the live item of slot s and ForgetDisplaced keep the counts exact,
\* and never take a count below zero.
LEMMA CountsKill ==
  ASSUME NEW n \in Nat \ {0}, NEW t \in Tables(n), Counted(t),
         NEW s \in Slots(t), t.slot[s].st = "live", t.slot[s].key \in Key,
         NEW x \in Item, x.st # "live",
         NEW u, u = With(t, s, x, ForgetDisplaced(t, t.slot[s].key, s))
  PROVE  /\ u \in Tables(n)
         /\ Counted(u)
         /\ LiveSlots(u) = LiveSlots(t) \ {s}
         /\ Cardinality(LiveSlots(u)) = Cardinality(LiveSlots(t)) - 1
<1> DEFINE k == t.slot[s].key
           h == Group(Home(t, k))
<1>1. /\ t.len = n /\ Slots(t) = 0..n-1 /\ t.slot \in [0..n-1 -> Item]
      /\ t.over \in [Groups(n) -> Nat]
  BY Zenon DEF Tables, Slots
<1>2. h \in Groups(n)
  BY Zenon, <1>1, HomeInTable DEF Groups
<1>3. /\ u.len = n /\ u.slot = [t.slot EXCEPT ![s] = x]
      /\ u.over = ForgetDisplaced(t, k, s)
      /\ u = [len |-> u.len, slot |-> u.slot, over |-> u.over]
  BY Zenon, <1>1 DEF With
<1>4. /\ u.slot[s] = x /\ \A r \in Slots(t) : r # s => u.slot[r] = t.slot[r]
      /\ u.slot \in [0..n-1 -> Item]
  BY SMTT(60), <1>1, <1>3
<1>5. \A g \in Groups(n) : /\ IsFiniteSet(Outside(t, g))
                           /\ t.over[g] = Cardinality(Outside(t, g))
  BY Zenon, <1>1, SlotsFinite DEF Counted, Outside, LiveSlots
<1>6. Displaced(t, k, s) => s \in Outside(t, h)
  BY Zenon DEF Outside, LiveSlots, Displaced
<1>7. Displaced(t, k, s) => t.over[h] >= 1
  BY SMTT(60), <1>1, <1>2, <1>5, <1>6, FS_EmptySet
<1>8. ForgetDisplaced(t, k, s) \in [Groups(n) -> Nat]
  BY SMTT(60), <1>1, <1>2, <1>7 DEF ForgetDisplaced
<1>9. u \in Tables(n)
  BY Zenon, <1>3, <1>4, <1>8 DEF Tables
<1>10. Slots(u) = Slots(t) /\ \A j : Home(u, j) = Home(t, j)
  BY Zenon, <1>1, <1>3 DEF Slots, Home
<1>11. LiveSlots(u) = LiveSlots(t) \ {s} /\ s \in LiveSlots(t)
  BY Zenon, <1>4, <1>10 DEF LiveSlots
<1>12. Cardinality(LiveSlots(u)) = Cardinality(LiveSlots(t)) - 1
  <2>1. IsFiniteSet(LiveSlots(t))
    BY Zenon, SlotsFinite DEF LiveSlots
  <2>2. Cardinality(LiveSlots(t) \ {s}) = Cardinality(LiveSlots(t)) - 1
    BY Zenon, <1>11, <2>1, FS_RemoveElement
  <2> QED
    BY Zenon, <1>11, <2>2
<1>13. ASSUME NEW g \in Groups(n)
       PROVE  u.over[g] = Cardinality(Outside(u, g))
  <2>1. CASE g = h /\ Group(s) # g
    <3>1. Outside(u, g) = Outside(t, g) \ {s} /\ s \in Outside(t, g)
      BY <1>4, <1>10, <1>11, <2>1 DEF Outside, LiveSlots
    <3>2. Cardinality(Outside(u, g)) = Cardinality(Outside(t, g)) - 1
      <4>1. Cardinality(Outside(t, g) \ {s}) = Cardinality(Outside(t, g)) - 1
        BY Zenon, <1>5, <3>1, FS_RemoveElement
      <4> QED
        BY Zenon, <3>1, <4>1
    <3> QED
      BY ZenonT(60), <1>1, <1>3, <1>5, <2>1, <3>2 DEF ForgetDisplaced, Displaced
  <2>2. CASE ~(g = h /\ Group(s) # g)
    <3>1. Outside(u, g) = Outside(t, g)
      BY SMTT(60), <1>4, <1>10, <1>11, <2>2 DEF Outside, LiveSlots
    <3> QED
      BY Zenon, <1>1, <1>3, <1>5, <2>2, <3>1 DEF ForgetDisplaced, Displaced
  <2> QED
    BY Zenon, <2>1, <2>2
<1> QED
  BY Zenon, <1>3, <1>9, <1>11, <1>12, <1>13 DEF Counted

\* An operation that leaves the live slots and their keys alone leaves the
\* counts exact: overwrites, expirations, MakeFree, sweeps.
LEMMA CountsSame ==
  ASSUME NEW n \in Nat \ {0}, NEW t \in Tables(n), NEW u \in Tables(n), Counted(t),
         u.over = t.over,
         \A s \in Slots(t) : /\ u.slot[s].st = "live" <=> t.slot[s].st = "live"
                             /\ t.slot[s].st = "live" => u.slot[s].key = t.slot[s].key
  PROVE  Counted(u) /\ LiveSlots(u) = LiveSlots(t)
<1>1. u.len = n /\ t.len = n /\ Slots(u) = Slots(t) /\ \A j : Home(u, j) = Home(t, j)
  BY Zenon DEF Tables, Slots, Home
<1>2. LiveSlots(u) = LiveSlots(t)
  BY Zenon, <1>1 DEF LiveSlots
<1>3. \A g : Outside(u, g) = Outside(t, g)
  BY <1>1, <1>2 DEF Outside, LiveSlots
<1> QED
  BY Zenon, <1>1, <1>2, <1>3 DEF Counted

\* The tombstones after one slot changed.
LEMMA CountsTombs ==
  ASSUME NEW n \in Nat \ {0}, NEW t \in Tables(n), NEW u \in Tables(n),
         NEW s \in Slots(t), \A r \in Slots(t) : r # s => u.slot[r] = t.slot[r]
  PROVE  Cardinality(TombSlots(u)) =
           CASE s \in TombSlots(t) /\ s \notin TombSlots(u) -> Cardinality(TombSlots(t)) - 1
             [] s \notin TombSlots(t) /\ s \in TombSlots(u) -> Cardinality(TombSlots(t)) + 1
             [] OTHER -> Cardinality(TombSlots(t))
<1>1. Slots(u) = Slots(t)
  BY Zenon DEF Tables, Slots
<1>2. IsFiniteSet(TombSlots(t))
  BY Zenon, SlotsFinite DEF TombSlots
<1>3. CASE s \in TombSlots(t) /\ s \notin TombSlots(u)
  <2>1. TombSlots(u) = TombSlots(t) \ {s}
    BY Zenon, <1>1, <1>3 DEF TombSlots
  <2>2. Cardinality(TombSlots(t) \ {s}) = Cardinality(TombSlots(t)) - 1
    BY Zenon, <1>2, <1>3, FS_RemoveElement
  <2> QED
    BY Zenon, <1>3, <2>1, <2>2
<1>4. CASE s \notin TombSlots(t) /\ s \in TombSlots(u)
  <2>1. TombSlots(u) = TombSlots(t) \cup {s}
    BY Zenon, <1>1, <1>4 DEF TombSlots
  <2>2. Cardinality(TombSlots(t) \cup {s}) = Cardinality(TombSlots(t)) + 1
    BY Zenon, <1>2, <1>4, FS_AddElement
  <2> QED
    BY Zenon, <1>4, <2>1, <2>2
<1>5. CASE s \in TombSlots(t) <=> s \in TombSlots(u)
  <2>1. TombSlots(u) = TombSlots(t)
    BY Zenon, <1>1, <1>5 DEF TombSlots
  <2> QED
    BY Zenon, <1>5, <2>1
<1> QED
  BY Zenon, <1>3, <1>4, <1>5

-----------------------------------------------------------------------------
(***************************************************************************)
(* The operations of the table.                                            *)
(***************************************************************************)

\* Only slot s differs between t and u, and it now holds x.
OneSlot(t, u, s, x) == /\ Slots(u) = Slots(t)
                       /\ u.slot[s] = x
                       /\ \A r \in Slots(t) : r # s => u.slot[r] = t.slot[r]

\* With changes one slot.
LEMMA WithOneSlot ==
  ASSUME NEW n \in Nat \ {0}, NEW t \in Tables(n), NEW s \in Slots(t), NEW x \in Item,
         NEW o, NEW u, u = With(t, s, x, o)
  PROVE  /\ OneSlot(t, u, s, x)
         /\ u.slot = [t.slot EXCEPT ![s] = x]
         /\ u.over = o
<1>1. /\ t.len = n /\ Slots(t) = 0..n-1 /\ t.slot \in [0..n-1 -> Item]
  BY Zenon DEF Tables, Slots
<1>2. u.len = n /\ u.slot = [t.slot EXCEPT ![s] = x] /\ u.over = o
  BY Zenon, <1>1 DEF With
<1> QED
  BY Zenon, <1>1, <1>2 DEF OneSlot, Slots

\* A table whose overflow counts are untouched is a table.
LEMMA WithIsTable ==
  ASSUME NEW n \in Nat \ {0}, NEW t \in Tables(n), NEW s \in Slots(t), NEW x \in Item,
         NEW u, u = With(t, s, x, t.over)
  PROVE  OneSlot(t, u, s, x) /\ u.over = t.over /\ u \in Tables(n)
<1>1. /\ t.len = n /\ Slots(t) = 0..n-1 /\ t.slot \in [0..n-1 -> Item]
      /\ t.over \in [Groups(n) -> Nat]
  BY Zenon DEF Tables, Slots
<1>2. u.len = n /\ u.slot = [t.slot EXCEPT ![s] = x] /\ u.over = t.over
  BY Zenon, <1>1 DEF With
<1>3. u = [len |-> u.len, slot |-> u.slot, over |-> u.over]
  BY Zenon DEF With
<1>4. u.slot \in [0..n-1 -> Item]
  BY Zenon, <1>1, <1>2
<1>5. u \in Tables(n)
  BY Zenon, <1>1, <1>2, <1>3, <1>4 DEF Tables
<1>6. OneSlot(t, u, s, x)
  BY Zenon, <1>1, <1>2 DEF OneSlot, Slots
<1> QED
  BY Zenon, <1>2, <1>5, <1>6

\* The probe of k in t ends at the empty slot d steps from its home and claims
\* the slot c steps from it: the branch of setMemory that inserts.
Inserting(t, k, d, c) == /\ d \in Slots(t) /\ c \in 0..d
                         /\ SetProbeEnds(t, k, d)
                         /\ ProbeItem(t, k, d).st = "empty"
                         /\ Claims(t, k, d, c)

\* What the insert leaves: a well-formed table that differs from t in slot s,
\* which was empty or free and now holds x, the only item with its key.
Inserted(n, t, u, s, x, fromEmpty) ==
  /\ u \in Tables(n) /\ WellFormed(u) /\ s \in Slots(t)
  /\ \A r \in Slots(t) : ~Holds(t.slot[r], x.key)
  /\ OneSlot(t, u, s, x)
  /\ t.slot[s].st = IF fromEmpty THEN "empty" ELSE "free"
  /\ Cardinality(LiveSlots(u)) = Cardinality(LiveSlots(t)) + 1
  /\ Cardinality(TombSlots(u)) =
       IF fromEmpty THEN Cardinality(TombSlots(t)) ELSE Cardinality(TombSlots(t)) - 1

\* Publishing a key that its probe showed absent, in the slot the probe
\* claims: setMemory's insert.
LEMMA PublishInserts ==
  ASSUME NEW n \in Nat \ {0}, NEW t \in Tables(n), WellFormed(t),
         NEW k \in Key, NEW v \in Value, NEW d, NEW c, Inserting(t, k, d, c)
  PROVE  Inserted(n, t, Publish(t, ProbeSlot(t, k, c), k, v), ProbeSlot(t, k, c),
                  [st |-> "live", key |-> k, val |-> v, exp |-> FALSE], c = d)
<1> DEFINE s == ProbeSlot(t, k, c)
           u == Publish(t, s, k, v)
<1>0. /\ d \in Slots(t) /\ c \in 0..d /\ SetProbeEnds(t, k, d)
      /\ ProbeItem(t, k, d).st = "empty" /\ Claims(t, k, d, c)
  BY Zenon DEF Inserting
<1> DEFINE x == [st |-> "live", key |-> k, val |-> v, exp |-> FALSE]
<1>1. /\ Slots(t) = 0..n-1 /\ c \in Slots(t) /\ d \in 0..n-1
  BY <1>0, HomeInTable
<1>2. s \in Slots(t)
  BY Zenon, <1>0, <1>1, ProbeSlotIs
<1>3. t.slot[s].st = IF c = d THEN "empty" ELSE "free"
  BY Zenon, <1>0, <1>1 DEF Claims, ProbeItem
<1>4. x \in Item /\ x.st = "live" /\ x.key = k /\ x.val = v
  BY Zenon DEF Item, Status
<1>5. u = With(t, s, x, NoteDisplaced(t, k, s))
  BY Zenon DEF Publish
<1> HIDE DEF x, u
<1>s. s = ProbeSlot(t, k, c)
  BY Zenon
<1> HIDE DEF s
<1>6. /\ u \in Tables(n) /\ Counted(u)
      /\ Cardinality(LiveSlots(u)) = Cardinality(LiveSlots(t)) + 1
  BY SMTT(60), <1>2, <1>3, <1>4, <1>5, CountsLive DEF WellFormed
<1>7. OneSlot(t, u, s, x) /\ u.slot = [t.slot EXCEPT ![s] = x]
  BY SMTT(60), <1>2, <1>4, <1>5, WithOneSlot
<1>8. \A r \in Slots(t) : ~Holds(t.slot[r], k)
  BY Zenon, <1>0, ProbeShowsAbsent DEF WellFormed
<1>9. \A e \in 0..c-1 : ProbeItem(t, k, e).st # "empty"
  BY SMTT(60), <1>0, <1>1 DEF SetProbeEnds
<1>10. Keyed(u) /\ Distinct(u) /\ Chained(u)
  BY Zenon, <1>1, <1>4, <1>6, <1>7, <1>8, <1>9, <1>s, <1>0, PlacesKey DEF WellFormed
<1>11. s \notin TombSlots(u) /\ (s \in TombSlots(t) <=> c # d)
  BY Zenon, <1>2, <1>3, <1>4, <1>7 DEF TombSlots, OneSlot
<1>12. Cardinality(TombSlots(u)) =
         IF c = d THEN Cardinality(TombSlots(t)) ELSE Cardinality(TombSlots(t)) - 1
  BY Zenon, <1>2, <1>6, <1>7, <1>11, CountsTombs DEF OneSlot
<1> QED
  BY Zenon, <1>2, <1>3, <1>4, <1>6, <1>7, <1>8, <1>10, <1>12 DEF WellFormed, Inserted, s, u, x

\* Publishing a key again in the tombstone that holds it.
LEMMA PublishResurrects ==
  ASSUME NEW n \in Nat \ {0}, NEW t \in Tables(n), WellFormed(t),
         NEW k \in Key, NEW v \in Value, NEW s \in Slots(t),
         Holds(t.slot[s], k), t.slot[s].st = "dead", NEW u, u = Publish(t, s, k, v)
  PROVE  /\ u \in Tables(n) /\ WellFormed(u)
         /\ OneSlot(t, u, s, [st |-> "live", key |-> k, val |-> v, exp |-> FALSE])
         /\ Cardinality(LiveSlots(u)) = Cardinality(LiveSlots(t)) + 1
         /\ Cardinality(TombSlots(u)) = Cardinality(TombSlots(t)) - 1
<1> DEFINE x == [st |-> "live", key |-> k, val |-> v, exp |-> FALSE]
<1>1. x \in Item /\ x.st = "live" /\ x.key = k /\ x.val = v
  BY Zenon DEF Item, Status
<1>2. u = With(t, s, x, NoteDisplaced(t, k, s))
  BY Zenon DEF Publish
<1> HIDE DEF x
<1>3. /\ u \in Tables(n) /\ Counted(u)
      /\ Cardinality(LiveSlots(u)) = Cardinality(LiveSlots(t)) + 1
  BY <1>1, <1>2, CountsLive DEF WellFormed
<1>4. OneSlot(t, u, s, x)
  BY Zenon, <1>1, <1>2, WithOneSlot
<1>5. Keyed(u) /\ Distinct(u) /\ Chained(u)
  <2>1. \A r \in Slots(t) :
           /\ t.slot[r].st # "empty" => u.slot[r].st # "empty"
           /\ Held(u.slot[r]) => /\ Held(t.slot[r])
                                 /\ u.slot[r].key = t.slot[r].key
                                 /\ u.slot[r].val \in Value
    BY Zenon, <1>1, <1>4 DEF OneSlot, Held, Holds, WellFormed, Keyed
  <2> QED
    BY Zenon, <1>3, <2>1, KeepsChains DEF WellFormed
<1>6. s \notin TombSlots(u) /\ s \in TombSlots(t)
  BY Zenon, <1>1, <1>4 DEF TombSlots, OneSlot
<1>7. Cardinality(TombSlots(u)) = Cardinality(TombSlots(t)) - 1
  BY SMTT(60), <1>3, <1>4, <1>6, CountsTombs DEF OneSlot
<1> QED
  BY Zenon, <1>3, <1>4, <1>5, <1>7 DEF WellFormed, x

\* An in-place change of a live item: an overwrite or the end of its TTL.
LEMMA ChangesLive ==
  ASSUME NEW n \in Nat \ {0}, NEW t \in Tables(n), WellFormed(t),
         NEW s \in Slots(t), t.slot[s].st = "live",
         NEW x \in Item, x.st = "live", x.key = t.slot[s].key, x.val \in Value,
         NEW u, u = With(t, s, x, t.over)
  PROVE  /\ u \in Tables(n) /\ WellFormed(u) /\ OneSlot(t, u, s, x)
         /\ LiveSlots(u) = LiveSlots(t) /\ TombSlots(u) = TombSlots(t)
<1>2. OneSlot(t, u, s, x) /\ u.over = t.over /\ u \in Tables(n)
  BY SMTT(60), WithIsTable
<1>3. \A r \in Slots(t) :
        /\ u.slot[r].st = t.slot[r].st
        /\ u.slot[r].key = t.slot[r].key
        /\ Held(u.slot[r]) => u.slot[r].val \in Value
  BY Zenon, <1>2 DEF OneSlot, WellFormed, Keyed
<1>4. Keyed(u) /\ Distinct(u) /\ Chained(u)
  BY SMTT(60), <1>2, <1>3, KeepsChains DEF WellFormed, Held
<1>5. Counted(u) /\ LiveSlots(u) = LiveSlots(t)
  BY SMTT(60), <1>2, <1>3, CountsSame DEF WellFormed
<1>6. TombSlots(u) = TombSlots(t)
  BY Zenon, <1>2, <1>3 DEF TombSlots, OneSlot
<1> QED
  BY Zenon, <1>2, <1>4, <1>5, <1>6 DEF WellFormed

\* Killing a live item (Kill of killAt and evictShard).
LEMMA Kills ==
  ASSUME NEW n \in Nat \ {0}, NEW t \in Tables(n), WellFormed(t),
         NEW s \in Slots(t), t.slot[s].st = "live", NEW u, u = Kill(t, s)
  PROVE  /\ u \in Tables(n) /\ WellFormed(u)
         /\ OneSlot(t, u, s, [st |-> "dead", key |-> t.slot[s].key,
                              val |-> t.slot[s].val, exp |-> t.slot[s].exp])
         /\ Cardinality(LiveSlots(u)) = Cardinality(LiveSlots(t)) - 1
         /\ Cardinality(TombSlots(u)) = Cardinality(TombSlots(t)) + 1
<1> DEFINE y == t.slot[s]
           x == [st |-> "dead", key |-> y.key, val |-> y.val, exp |-> y.exp]
<1>1. y \in Item /\ y.key \in Key /\ y.val \in Value
  BY Zenon DEF Tables, Slots, WellFormed, Keyed, Held
<1>2. x \in Item /\ x.st = "dead" /\ x.key = y.key /\ x.val \in Value
  BY Zenon, <1>1 DEF Item, Status
<1>3. u = With(t, s, x, ForgetDisplaced(t, y.key, s))
  BY Zenon DEF Kill
<1> HIDE DEF x, y
<1>4. /\ u \in Tables(n) /\ Counted(u)
      /\ Cardinality(LiveSlots(u)) = Cardinality(LiveSlots(t)) - 1
  BY SMTT(60), <1>1, <1>2, <1>3, CountsKill DEF WellFormed, y
<1>5. OneSlot(t, u, s, x)
  BY ZenonT(60), <1>2, <1>3, WithOneSlot
<1>6. Keyed(u) /\ Distinct(u) /\ Chained(u)
  <2>1. \A r \in Slots(t) :
           /\ t.slot[r].st # "empty" => u.slot[r].st # "empty"
           /\ Held(u.slot[r]) => /\ Held(t.slot[r])
                                 /\ u.slot[r].key = t.slot[r].key
                                 /\ u.slot[r].val \in Value
    BY Zenon, <1>2, <1>5 DEF OneSlot, Held, WellFormed, Keyed, y
  <2> QED
    BY Zenon, <1>4, <2>1, KeepsChains DEF WellFormed
<1>7. s \in TombSlots(u) /\ s \notin TombSlots(t)
  BY Zenon, <1>2, <1>5 DEF TombSlots, OneSlot
<1>8. Cardinality(TombSlots(u)) = Cardinality(TombSlots(t)) + 1
  BY <1>4, <1>5, <1>7, CountsTombs DEF OneSlot
<1> QED
  BY Zenon, <1>4, <1>5, <1>6, <1>8 DEF WellFormed, x, y

\* A zeroed entry is an item.
LEMMA FreedIsItem ==
  ASSUME NEW x \in Item
  PROVE  Freed(x) \in Item /\ Freed(x).st = "free"
BY Zenon DEF Freed, Item, Status

\* Releasing tombstones (MakeFree, singly or by a sweep).
LEMMA FreesTombs ==
  ASSUME NEW n \in Nat \ {0}, NEW t \in Tables(n), WellFormed(t),
         NEW u \in Tables(n), u.over = t.over,
         \A r \in Slots(t) : \/ u.slot[r] = t.slot[r]
                             \/ t.slot[r].st = "dead" /\ u.slot[r] = Freed(t.slot[r])
  PROVE  WellFormed(u) /\ LiveSlots(u) = LiveSlots(t) /\ TombSlots(u) = TombSlots(t)
<1>0. \A r \in Slots(t) : t.slot[r] \in Item
  BY Zenon DEF Tables, Slots
<1>1. \A r \in Slots(t) :
        \/ u.slot[r] = t.slot[r]
        \/ t.slot[r].st = "dead" /\ u.slot[r].st = "free"
  BY <1>0, FreedIsItem
<1>2. Slots(u) = Slots(t)
  BY Zenon DEF Tables, Slots
<1>3. Keyed(u) /\ Distinct(u) /\ Chained(u)
  <2>1. \A r \in Slots(t) :
           /\ t.slot[r].st # "empty" => u.slot[r].st # "empty"
           /\ Held(u.slot[r]) => /\ Held(t.slot[r])
                                 /\ u.slot[r].key = t.slot[r].key
                                 /\ u.slot[r].val \in Value
    BY Zenon, <1>1 DEF Held, WellFormed, Keyed
  <2> QED
    BY Zenon, <2>1, KeepsChains DEF WellFormed
<1>4. Counted(u) /\ LiveSlots(u) = LiveSlots(t)
  <2>1. \A r \in Slots(t) : /\ u.slot[r].st = "live" <=> t.slot[r].st = "live"
                            /\ t.slot[r].st = "live" => u.slot[r].key = t.slot[r].key
    BY Zenon, <1>1
  <2> QED
    BY Zenon, <2>1, CountsSame DEF WellFormed
<1>5. TombSlots(u) = TombSlots(t)
  BY Zenon, <1>1, <1>2 DEF TombSlots
<1> QED
  BY Zenon, <1>3, <1>4, <1>5 DEF WellFormed

\* MakeFree of one tombstone.
LEMMA MakesFree ==
  ASSUME NEW n \in Nat \ {0}, NEW t \in Tables(n), WellFormed(t),
         NEW s \in Slots(t), t.slot[s].st = "dead", NEW u, u = MakeFree(t, s)
  PROVE  /\ u \in Tables(n) /\ WellFormed(u) /\ OneSlot(t, u, s, Freed(t.slot[s]))
         /\ LiveSlots(u) = LiveSlots(t) /\ TombSlots(u) = TombSlots(t)
<1> DEFINE x == Freed(t.slot[s])
<1>1. x \in Item /\ u = With(t, s, x, t.over)
  BY Zenon, FreedIsItem DEF MakeFree, Tables, Slots
<1> HIDE DEF x
<1>2. u \in Tables(n) /\ OneSlot(t, u, s, x) /\ u.over = t.over
  BY <1>1, WithIsTable
<1>3. \A r \in Slots(t) : \/ u.slot[r] = t.slot[r]
                          \/ t.slot[r].st = "dead" /\ u.slot[r] = Freed(t.slot[r])
  BY Zenon, <1>2 DEF OneSlot, x
<1>4. WellFormed(u) /\ LiveSlots(u) = LiveSlots(t) /\ TombSlots(u) = TombSlots(t)
  BY Zenon, <1>2, <1>3, FreesTombs
<1> QED
  BY Zenon, <1>2, <1>4 DEF x

\* MakeFree of all the tombstones a sweep releases.
LEMMA MakesFreeAll ==
  ASSUME NEW n \in Nat \ {0}, NEW t \in Tables(n), WellFormed(t),
         NEW u, u = MakeFreeAll(t, QueuedTombs(t))
  PROVE  /\ u \in Tables(n) /\ WellFormed(u) /\ Slots(u) = Slots(t)
         /\ \A r \in Slots(t) : u.slot[r] = IF t.slot[r].st = "dead" THEN Freed(t.slot[r])
                                                                     ELSE t.slot[r]
         /\ LiveSlots(u) = LiveSlots(t) /\ TombSlots(u) = TombSlots(t)
<1>1. /\ t.len = n /\ Slots(t) = 0..n-1 /\ t.slot \in [Slots(t) -> Item]
      /\ t.over \in [Groups(n) -> Nat]
  BY Zenon DEF Tables, Slots
<1>2. /\ u.len = n /\ u.over = t.over
      /\ u.slot = [s \in Slots(t) |-> IF s \in QueuedTombs(t) THEN Freed(t.slot[s]) ELSE t.slot[s]]
      /\ u = [len |-> u.len, slot |-> u.slot, over |-> u.over]
  BY Zenon, <1>1 DEF MakeFreeAll
<1>3. \A r \in Slots(t) : u.slot[r] = IF t.slot[r].st = "dead" THEN Freed(t.slot[r])
                                                              ELSE t.slot[r]
  BY Zenon, <1>2 DEF QueuedTombs
<1>4. u.slot \in [0..n-1 -> Item]
  <2>1. \A r \in Slots(t) : (IF r \in QueuedTombs(t) THEN Freed(t.slot[r]) ELSE t.slot[r]) \in Item
    BY Zenon, <1>1, FreedIsItem
  <2> QED
    BY Zenon, <1>1, <1>2, <2>1
<1>5. u \in Tables(n) /\ Slots(u) = Slots(t)
  BY Zenon, <1>1, <1>2, <1>4 DEF Tables, Slots
<1>6. WellFormed(u) /\ LiveSlots(u) = LiveSlots(t) /\ TombSlots(u) = TombSlots(t)
  BY SMTT(60), <1>2, <1>3, <1>5, FreesTombs
<1> QED
  BY Zenon, <1>3, <1>5, <1>6

\* InsertFresh of an item whose key the new table does not hold.
LEMMA InsertsFresh ==
  ASSUME NEW n \in Nat \ {0}, NEW t \in Tables(n), WellFormed(t),
         NEW x \in Item, x.st = "live", x.key \in Key, x.val \in Value,
         \A r \in Slots(t) : ~Holds(t.slot[r], x.key),
         NEW d \in Slots(t), FreshProbeEnds(t, x.key, d),
         NEW s, s = ProbeSlot(t, x.key, d), NEW u, u = InsertFresh(t, s, x)
  PROVE  /\ u \in Tables(n) /\ WellFormed(u) /\ s \in Slots(t) /\ OneSlot(t, u, s, x)
         /\ t.slot[s].st = "empty"
         /\ Cardinality(LiveSlots(u)) = Cardinality(LiveSlots(t)) + 1
<1>1. /\ Slots(t) = 0..n-1 /\ s \in Slots(t)
  BY Zenon, HomeInTable, ProbeSlotIs
<1>2. t.slot[s].st = "empty" /\ \A e \in 0..d-1 : ProbeItem(t, x.key, e).st # "empty"
  BY Zenon DEF FreshProbeEnds, ProbeItem
<1>3. u = With(t, s, x, NoteDisplaced(t, x.key, s))
  BY Zenon DEF InsertFresh
<1>4. /\ u \in Tables(n) /\ Counted(u)
      /\ Cardinality(LiveSlots(u)) = Cardinality(LiveSlots(t)) + 1
  BY SMTT(60), <1>1, <1>2, <1>3, CountsLive DEF WellFormed
<1>5. OneSlot(t, u, s, x) /\ u.slot = [t.slot EXCEPT ![s] = x]
  BY SMTT(60), <1>1, <1>3, WithOneSlot
<1>6. Keyed(u) /\ Distinct(u) /\ Chained(u)
  BY Zenon, <1>2, <1>4, <1>5, PlacesKey DEF WellFormed
<1> QED
  BY Zenon, <1>1, <1>2, <1>4, <1>5, <1>6 DEF WellFormed

-----------------------------------------------------------------------------
(***************************************************************************)
(* findSlot.                                                               *)
(***************************************************************************)

\* In a table with room, a key that left its home group by probing past its
\* edge did not come all the way round into it again: its slot is outside the
\* group, so the group's overflow count covers it.
LEMMA PastEdgeIsOutside ==
  ASSUME NEW n \in Nat \ {0}, NEW t \in Tables(n), Chained(t), Roomy(t),
         NEW k \in Key, NEW d \in Slots(t), Holds(ProbeItem(t, k, d), k),
         d >= GroupEdge(t, k)
  PROVE  Group(ProbeSlot(t, k, d)) # Group(Home(t, k))
<1> DEFINE h == Home(t, k)
           s == ProbeSlot(t, k, d)
           m == h % GroupLen
<1>1. /\ t.len = n /\ Slots(t) = 0..n-1 /\ h \in 0..n-1
  BY HomeInTable
<1>2. m \in 0..GroupLen-1 /\ m <= h /\ GroupLen \in Nat \ {0}
  BY SMTT(60), <1>1, GroupAssumption
<1>3. s = (IF h + d < n THEN h + d ELSE h + d - n) /\ s \in 0..n-1
  <2>1. d \in 0..n-1
    BY Zenon, <1>1
  <2>2. s = (IF h + d < n THEN h + d ELSE h + d - n) /\ s \in Slots(t)
    BY Zenon, <2>1, ProbeSlotIs
  <2> QED
    BY Zenon, <1>1, <2>2
<1>4. d >= GroupLen - m
  BY Zenon DEF GroupEdge
<1>5. \A e \in 0..d-1 : t.slot[ProbeSlot(t, k, e)].st # "empty"
  BY Zenon DEF Chained, ProbeItem
<1>6. \A e \in 0..n-1 : ProbeSlot(t, k, e) = IF h + e < n THEN h + e ELSE h + e - n
  BY Zenon, ProbeSlotIs
<1> HIDE DEF h, s, m
<1>7. CASE h + d < n
  <2>1. s >= h - m + GroupLen
    BY SMTT(60), <1>1, <1>2, <1>3, <1>4, <1>7
  <2> QED
    BY SMTT(60), <1>1, <1>3, <2>1, GroupNext DEF h, s, m
<1>8. CASE h + d >= n
  <2>1. s = h + d - n /\ s < h
    BY SMTT(60), <1>1, <1>3, <1>8
  <2>2. CASE s < h - m
    BY SMTT(60), <1>1, <1>3, <2>2, GroupPrev DEF h, s, m
  <2>3. CASE s >= h - m
    \* all slots but those of s..h-1, fewer than a group, would be occupied
    <3> DEFINE occ == LiveSlots(t) \cup TombSlots(t)
               gap == s..h-1
    <3>1. \A r \in Slots(t) : r \notin gap => r \in occ
      <4> SUFFICES ASSUME NEW r \in Slots(t), r \notin gap PROVE r \in occ
        BY Zenon
      <4>1. t.slot[r].st # "empty"
        <5>1. CASE r >= h
          <6>1. r - h \in 0..d-1 /\ r - h \in 0..n-1 /\ h + (r - h) = r /\ r < n
            BY SMTT(60), <1>1, <1>8, <5>1
          <6>2. ProbeSlot(t, k, r - h) = r
            BY Zenon, <1>6, <6>1
          <6> QED
            BY Zenon, <1>5, <6>1, <6>2
        <5>2. CASE r < h
          <6>1. r < s
            BY SMTT(60), <1>1, <1>3, <5>2
          <6>2. r - h + n \in 0..d-1 /\ r - h + n \in 0..n-1 /\ h + (r - h + n) >= n
            BY SMTT(60), <1>1, <1>3, <2>1, <5>2, <6>1
          <6>3. h + (r - h + n) - n = r
            BY SMTT(60), <1>1
          <6>4. ProbeSlot(t, k, r - h + n) = r
            BY SMTT(60), <1>1, <1>6, <6>2, <6>3
          <6> QED
            BY Zenon, <1>5, <6>2, <6>4
        <5> QED
          BY SMTT(60), <1>1, <5>1, <5>2
      <4>2. t.slot[r].st \in Status
        BY Zenon, <1>1 DEF Tables, Item
      <4> QED
        BY Zenon, <4>1, <4>2 DEF LiveSlots, TombSlots, Status
    <3>2. /\ IsFiniteSet(LiveSlots(t)) /\ IsFiniteSet(TombSlots(t)) /\ IsFiniteSet(occ)
          /\ Cardinality(LiveSlots(t)) \in Nat /\ Cardinality(TombSlots(t)) \in Nat
          /\ Cardinality(occ) \in Nat
      BY Zenon, SlotsFinite DEF LiveSlots, TombSlots
    <3>3. Cardinality(occ) <= Cardinality(LiveSlots(t)) + Cardinality(TombSlots(t))
      <4>1. /\ Cardinality(occ) = Cardinality(LiveSlots(t)) + Cardinality(TombSlots(t))
                                    - Cardinality(LiveSlots(t) \cap TombSlots(t))
            /\ Cardinality(LiveSlots(t) \cap TombSlots(t)) \in Nat
        BY Zenon, <3>2, FS_Union, FS_Intersection, FS_CardinalityType
      <4> QED
        BY SMTT(60), <3>2, <4>1
    <3>4. IsFiniteSet(gap) /\ Cardinality(gap) = h - s
      <4>1. s \in Int /\ h - 1 \in Int /\ ~(s > h - 1) /\ h - 1 - s + 1 = h - s
        BY <1>1, <1>3, <2>1
      <4> QED
        BY Zenon, <4>1, FS_Interval
    <3>5. /\ IsFiniteSet(occ \cup gap) /\ Cardinality(occ \cup gap) \in Nat
          /\ Cardinality(occ \cup gap) <= Cardinality(occ) + (h - s)
      <4>1. /\ Cardinality(occ \cup gap) =
                 Cardinality(occ) + Cardinality(gap) - Cardinality(occ \cap gap)
            /\ Cardinality(occ \cap gap) \in Nat
            /\ IsFiniteSet(occ \cup gap)
        BY Zenon, <3>2, <3>4, FS_Union, FS_Intersection, FS_CardinalityType
      <4>2. Cardinality(occ \cup gap) \in Nat /\ Cardinality(gap) \in Nat
        BY Zenon, <3>4, <4>1, FS_CardinalityType
      <4>3. PICK A \in Nat, G \in Nat, I \in Nat, U \in Nat :
              /\ A = Cardinality(occ) /\ G = Cardinality(gap)
              /\ I = Cardinality(occ \cap gap) /\ U = Cardinality(occ \cup gap)
        BY Zenon, <3>2, <4>1, <4>2
      <4>4. U = A + G - I
        BY Zenon, <4>1, <4>3
      <4>5. U <= A + G
        BY <4>4
      <4> QED
        BY Zenon, <3>4, <4>1, <4>2, <4>3, <4>5
    <3>6. n <= Cardinality(occ \cup gap)
      <4>1. Slots(t) \in SUBSET (occ \cup gap)
        BY Zenon, <3>1
      <4>2. Cardinality(Slots(t)) <= Cardinality(occ \cup gap)
        BY Zenon, <3>5, <4>1, FS_Subset
      <4> QED
        BY Zenon, <4>2, SlotsFinite
    <3>7. Cardinality(LiveSlots(t)) + Cardinality(TombSlots(t)) <= n - GroupLen
      BY Zenon, <1>1 DEF Roomy
    <3>8. h - s <= GroupLen - 1
      BY SMTT(60), <1>1, <1>2, <1>3, <2>3
    <3> DEFINE L == Cardinality(LiveSlots(t))
               T == Cardinality(TombSlots(t))
               O == Cardinality(occ)
               U == Cardinality(occ \cup gap)
    <3>9. /\ L \in Nat /\ T \in Nat /\ O \in Nat /\ U \in Nat
          /\ O <= L + T /\ U <= O + (h - s) /\ n <= U /\ L + T <= n - GroupLen
      BY Zenon, <3>2, <3>3, <3>5, <3>6, <3>7
    <3> HIDE DEF L, T, O, U
    <3>10. FALSE
      BY SMTT(60), <1>1, <1>2, <1>3, <3>8, <3>9
    <3> QED
      BY Zenon, <3>10
  <2> QED
    BY SMTT(60), <1>1, <1>2, <1>3, <2>2, <2>3
<1> QED
  BY SMTT(60), <1>1, <1>7, <1>8

\* findSlot finds a key exactly when a slot holds it live, and then that slot:
\* neither rule by which a probe gives up hides a live item.
THEOREM FindsExactlyTheLive ==
  ASSUME NEW n \in Nat \ {0}, NEW t \in Tables(n), WellFormed(t), Roomy(t), NEW k \in Key
  PROVE  /\ \A d \in Slots(t) : IsLive(ProbeItem(t, k, d), k) => Finds(t, k, d)
         /\ (\E s \in Slots(t) : IsLive(t.slot[s], k)) <=> (\E d \in Slots(t) : Finds(t, k, d))
<1>1. t.len = n /\ Slots(t) = 0..n-1 /\ \A d \in Slots(t) : ProbeSlot(t, k, d) \in Slots(t)
  BY Zenon, HomeInTable, ProbeSlotIs
<1>2. ASSUME NEW d \in Slots(t), IsLive(ProbeItem(t, k, d), k)
      PROVE  Finds(t, k, d)
  <2>1. Holds(ProbeItem(t, k, d), k)
    BY Zenon, <1>2 DEF IsLive, Holds
  <2>2. ASSUME NEW e \in 0..d-1
        PROVE  ProbeItem(t, k, e).st # "empty" /\ ~IsLive(ProbeItem(t, k, e), k)
    <3>1. ProbeItem(t, k, e).st # "empty"
      BY Zenon, <2>1 DEF WellFormed, Chained
    <3>2. e \in Slots(t) /\ e # d
      BY <1>1
    <3>3. ProbeSlot(t, k, e) # ProbeSlot(t, k, d)
      BY Zenon, <3>2, ProbeCovers
    <3> QED
      BY Zenon, <1>1, <1>2, <3>1, <3>2, <3>3 DEF WellFormed, Distinct, ProbeItem, IsLive, Holds,
           Held
  <2>3. ASSUME d >= GroupEdge(t, k)
        PROVE  Overflowed(t, k)
    <3> DEFINE s == ProbeSlot(t, k, d)
               g == Group(Home(t, k))
    <3>1. Group(s) # g
      BY Zenon, <2>1, <2>3, PastEdgeIsOutside DEF WellFormed
    <3>2. s \in Outside(t, g)
      BY Zenon, <1>1, <1>2, <3>1 DEF Outside, LiveSlots, IsLive, ProbeItem
    <3>3. IsFiniteSet(Outside(t, g))
      BY Zenon, SlotsFinite DEF Outside, LiveSlots
    <3>4. g \in Groups(n)
      BY Zenon, <1>1, HomeInTable DEF Groups
    <3>5. t.over[g] = Cardinality(Outside(t, g))
      BY Zenon, <1>1, <3>4 DEF WellFormed, Counted
    <3>6. Cardinality(Outside(t, g)) # 0
      BY Zenon, <3>2, <3>3, FS_EmptySet
    <3> QED
      BY Zenon, <3>5, <3>6 DEF Overflowed
  <2> QED
    BY Zenon, <1>2, <2>2, <2>3 DEF Finds
<1>3. ASSUME NEW s \in Slots(t), IsLive(t.slot[s], k)
      PROVE  \E d \in Slots(t) : Finds(t, k, d)
  <2>1. PICK d \in Slots(t) : ProbeSlot(t, k, d) = s
    BY Zenon, ProbeCovers
  <2> QED
    BY Zenon, <1>2, <1>3, <2>1 DEF ProbeItem
<1>4. ASSUME NEW d \in Slots(t), Finds(t, k, d)
      PROVE  \E s \in Slots(t) : IsLive(t.slot[s], k)
  BY Zenon, <1>1, <1>4 DEF Finds, ProbeItem
<1> QED
  BY Zenon, <1>2, <1>3, <1>4
=============================================================================
