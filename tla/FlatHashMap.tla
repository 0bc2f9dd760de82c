---------------------------- MODULE FlatHashMap ----------------------------
(***************************************************************************)
(* The slot table of one shard (internal/itemstore/map.go): open           *)
(* addressing, linear probing, tombstones, and one overflow count per      *)
(* group of GroupLen slots that lets a probe stop at the group's edge.     *)
(*                                                                         *)
(* A table is a record: len slots, slot[s] the item in slot s, over[g] the *)
(* overflow count of group g.  An item's meta word is kept as far as the   *)
(* table tells it apart: "empty" (meta word 0), "live", "dead" (a          *)
(* tombstone its queue node still references) and "free" (dead and         *)
(* released: reusable).  Tags only prefilter the key comparison, so a      *)
(* match is an equality of keys.  exp says that the item's TTL elapsed.    *)
(***************************************************************************)
EXTENDS Integers, FiniteSets

CONSTANTS Key,       \* the keys a client uses
          Value,     \* the values it stores
          NoKey,     \* the zeroed key of an empty or released slot
          NoValue,   \* the zeroed value of an empty or released slot
          Hash,      \* the high bits of a key's hash: a natural number
          GroupLen   \* slots per overflow group (8 in the code)

ASSUME KeyAssumption   == NoKey \notin Key /\ NoValue \notin Value
ASSUME HashAssumption  == Hash \in [Key -> Nat]
ASSUME GroupAssumption == GroupLen \in Nat \ {0}

Status == {"empty", "live", "dead", "free"}

Item == [st : Status, key : Key \cup {NoKey}, val : Value \cup {NoValue},
         exp : BOOLEAN]

EmptyItem == [st |-> "empty", key |-> NoKey, val |-> NoValue, exp |-> FALSE]

\* The group of slots that slot s belongs to.
Group(s) == s \div GroupLen

Groups(n) == {Group(s) : s \in 0..n-1}

Tables(n) == [len : {n}, slot : [0..n-1 -> Item], over : [Groups(n) -> Nat]]

NewFlatHashMap(n) == [len  |-> n,
                      slot |-> [s \in 0..n-1 |-> EmptyItem],
                      over |-> [g \in Groups(n) |-> 0]]

Slots(t) == 0..t.len-1

Home(t, k) == Hash[k] % t.len

\* The slot a probe for k looks at after d steps.
ProbeSlot(t, k, d) == (Home(t, k) + d) % t.len

ProbeItem(t, k, d) == t.slot[ProbeSlot(t, k, d)]

\* The number of steps after which a probe for k leaves its home group.
GroupEdge(t, k) == GroupLen - (Home(t, k) % GroupLen)

Overflowed(t, k) == t.over[Group(Home(t, k))] # 0

Displaced(t, k, s) == Group(Home(t, k)) # Group(s)

NoteDisplaced(t, k, s) ==
  IF Displaced(t, k, s) THEN [t.over EXCEPT ![Group(Home(t, k))] = @ + 1]
                        ELSE t.over

ForgetDisplaced(t, k, s) ==
  IF Displaced(t, k, s) THEN [t.over EXCEPT ![Group(Home(t, k))] = @ - 1]
                        ELSE t.over

(***************************************************************************)
(* What holds an entry of k: its live item, or the tombstone its queue     *)
(* node still references.                                                  *)
(***************************************************************************)
IsLive(x, k) == x.st = "live" /\ x.key = k

Holds(x, k) == x.st \in {"live", "dead"} /\ x.key = k

LiveSlots(t) == {s \in Slots(t) : t.slot[s].st = "live"}

TombSlots(t) == {s \in Slots(t) : t.slot[s].st \in {"dead", "free"}}

QueuedTombs(t) == {s \in Slots(t) : t.slot[s].st = "dead"}

(***************************************************************************)
(* Mutations under the shard mutex.                                        *)
(***************************************************************************)

\* The table with item x in slot s and overflow counts o.
With(t, s, x, o) == [len |-> t.len, slot |-> [t.slot EXCEPT ![s] = x], over |-> o]

\* Variant: the displacement is not counted.
PublishUncounted(t, s, k, v) ==
  With(t, s, [st |-> "live", key |-> k, val |-> v, exp |-> FALSE], t.over)

\* Publish an entry of k in slot s and count it if it left its home group.
Publish(t, s, k, v) ==
  With(t, s, [st |-> "live", key |-> k, val |-> v, exp |-> FALSE], NoteDisplaced(t, k, s))

\* SetValue and RefreshExpire of the live item in slot s.
Replace(t, s, v) ==
  With(t, s, [st |-> "live", key |-> t.slot[s].key, val |-> v, exp |-> FALSE], t.over)

\* Turn the live item of slot s into a tombstone.
Kill(t, s) ==
  LET x == t.slot[s]
  IN  With(t, s, [st |-> "dead", key |-> x.key, val |-> x.val, exp |-> x.exp],
           ForgetDisplaced(t, x.key, s))

\* The TTL of the live item in slot s elapses.
SetExpired(t, s) ==
  LET x == t.slot[s]
  IN  With(t, s, [st |-> "live", key |-> x.key, val |-> x.val, exp |-> TRUE], t.over)

\* Variant: the whole meta word is zeroed.
FreedEmpty(x) == EmptyItem

\* The tombstone x handed back to inserts: its entry is zeroed.
Freed(x) == [st |-> "free", key |-> NoKey, val |-> NoValue, exp |-> x.exp]

MakeFree(t, s) == With(t, s, Freed(t.slot[s]), t.over)

\* Variant: the sweep dequeues the nodes and releases no slot.
MakeFreeNone(t, S) == t

\* MakeFree of every slot a sweep hands to release.
MakeFreeAll(t, S) ==
  [len |-> t.len, over |-> t.over,
   slot |-> [s \in Slots(t) |-> IF s \in S THEN Freed(t.slot[s]) ELSE t.slot[s]]]

(***************************************************************************)
(* Probes.  Each loop over positions is stated by the number d of steps    *)
(* after which it stops; a loop that never stops has no such d.            *)
(***************************************************************************)

\* The writer's probe (setMemory) ends after d steps: at an empty slot or at
\* the slot that holds k.
SetProbeEnds(t, k, d) ==
  LET Ends(e) == ProbeItem(t, k, e).st = "empty" \/ Holds(ProbeItem(t, k, e), k)
  IN  Ends(d) /\ \A e \in 0..d-1 : ~Ends(e)

\* The slot a new key claims when its probe found the empty slot d: the first
\* released tombstone on the way, or else the empty slot.
Claims(t, k, d, c) ==
  /\ c = d \/ ProbeItem(t, k, c).st = "free"
  /\ \A e \in 0..c-1 : ProbeItem(t, k, e).st # "free"

\* findSlot (and the readers' probe) returns the slot after d steps.
Finds(t, k, d) ==
  /\ IsLive(ProbeItem(t, k, d), k)
  /\ \A e \in 0..d-1 : /\ ProbeItem(t, k, e).st # "empty"
                       /\ ~IsLive(ProbeItem(t, k, e), k)
  /\ d >= GroupEdge(t, k) => Overflowed(t, k)

\* InsertFresh places k after d steps in a table nobody reads yet.
FreshProbeEnds(t, k, d) ==
  /\ ProbeItem(t, k, d).st = "empty"
  /\ \A e \in 0..d-1 : ProbeItem(t, k, e).st # "empty"

\* InsertFresh copies item x of the old table into slot s.
InsertFresh(t, s, x) == With(t, s, x, NoteDisplaced(t, x.key, s))

\* What a probe returns for k: the value a Get of k would see.
Lookup(t, k) ==
  IF \E d \in Slots(t) : Finds(t, k, d)
  THEN ProbeItem(t, k, CHOOSE d \in Slots(t) : Finds(t, k, d)).val
  ELSE NoValue

=============================================================================
