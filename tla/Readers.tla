------------------------------ MODULE Readers ------------------------------
(***************************************************************************)
(* Lock-free readers on the slot table of Shard while the holder of the    *)
(* mutex changes it: getMemory, one key of a batchGetGroup, the probe of   *)
(* Delete (livePresent) and the walk of Iterator and SaveTo                *)
(* (iterateWithLife).                                                      *)
(*                                                                         *)
(* Every load of a meta word is a step, and so is every look at an         *)
(* overflow count.  A writer changes a slot and the overflow count of its  *)
(* key in two steps: late is the count that is not up to date yet.  A      *)
(* reader stays on the table it loaded first; when a rebuild replaces that *)
(* one it keeps the superseded table, which nobody changes any more.       *)
(*                                                                         *)
(* The copy of an Entry is taken and validated in one step: Item shows     *)
(* that a validated copy is a pair the slot held during the read.          *)
(***************************************************************************)
EXTENDS Shard

CONSTANTS Reader,
          Tag,         \* the tag bits of a key's hash
          Wide,        \* values of more than one machine word
          RefreshOnGet,
          Stores,      \* bound of the model: the pairs that are set
          Wanted,      \* bound of the model: the keys that are looked up
          Mortal,      \* bound of the model: the keys whose TTL elapses
          MaxBehind    \* bound of the model: operations that begin while a
                       \* reader is on a superseded table

ASSUME ReadersAssumption ==
  /\ DOMAIN Tag = Key /\ Wide \in BOOLEAN /\ RefreshOnGet \in BOOLEAN
  /\ Stores \subseteq Key \X Value /\ Wanted \subseteq Key /\ Mortal \subseteq Key
  /\ MaxBehind \in Nat

VARIABLES
  late,  \* the overflow count to be updated next: its group, key and change
  rd     \* rd[r]: reader r

allVars == <<vars, late, rd>>

Settled == [grp |-> -1, key |-> NoKey, by |-> 0]

\* What a client may be told of a key that table t holds, or does not hold.
Lapsed == "lapsed"

TellsOf(t, k) ==
  LET S == {s \in Slots(t) : IsLive(t.slot[s], k)}
  IN  IF S = {} THEN NoValue
      ELSE LET x == t.slot[CHOOSE s \in S : TRUE]
           IN  IF x.exp THEN Lapsed ELSE x.val

Now(k) == TellsOf(items, k)

\* A key whose count is still to come is published and not yet stored.
Admitted(t, l, k) == {TellsOf(t, k)} \cup (IF l.key = k /\ l.by = 1 THEN {NoValue} ELSE {})

NoTable == NewFlatHashMap(0)

(***************************************************************************)
(* A reader: what it runs, its key, the table it stays on (NoTable: the    *)
(* current one), how far it probed, and the meta word it holds: the slot,  *)
(* whether the slot was written since, and whether the word had expired    *)
(* when it was loaded.  The rest is history: what clients could be told of *)
(* the key since the call began, the keys written or removed since, those  *)
(* that had expired when it began, the pairs a walk has yielded, how many  *)
(* writes landed since the table was superseded, and whether the item that *)
(* dropExpired is about to kill was renewed after the re-check.            *)
(***************************************************************************)
Idle == [pc |-> "idle", op |-> "get", key |-> NoKey, tab |-> NoTable, dist |-> 0, behind |-> 0,
         slot |-> -1, same |-> TRUE, exp |-> FALSE, val |-> NoValue,
         res |-> "none", seen |-> {}, changed |-> {}, lapsed |-> {},
         out |-> [k \in Key |-> 0], raced |-> FALSE]

ReadersInit == Init /\ late = Settled /\ rd = [r \in Reader |-> Idle]

Tab(r) == IF rd[r].tab = NoTable THEN items ELSE rd[r].tab

At(r) == ProbeSlot(Tab(r), rd[r].key, rd[r].dist)

\* Variant: the count of the group the probe has reached.
SeesOverflowHere(r) ==
  LET g == Group(At(r))
  IN  Tab(r).over[g] - (IF rd[r].tab = NoTable /\ late.grp = g THEN late.by ELSE 0) # 0

\* The overflow count of the home group as a load sees it.
SeesOverflow(r) ==
  LET g == Group(Home(Tab(r), rd[r].key))
  IN  Tab(r).over[g] - (IF rd[r].tab = NoTable /\ late.grp = g THEN late.by ELSE 0) # 0

\* metaWord & DeadOrTag = tagged
Candidate(x, k) == x.st = "live" /\ Tag[x.key] = Tag[k]

-----------------------------------------------------------------------------
(***************************************************************************)
(* What a step of the mutex holder means to the readers under way.         *)
(***************************************************************************)

\* The generation or the Dead bit of slot s changes: a word loaded before is
\* no longer validated.  SetValue of a narrow value leaves both alone.
Rewritten(s) ==
  LET x == items.slot[s] IN LET y == items'.slot[s] IN
  x.st # y.st \/ x.key # y.key \/ (Wide /\ x.val # y.val)

\* Readers after a step that wrote or removed the keys K of the current table.
Witnessed(r, K) ==
  LET q == rd[r] IN
  IF q.pc = "idle" THEN q
  ELSE [q EXCEPT !.same = @ /\ (q.tab # NoTable \/ q.slot = -1 \/ ~Rewritten(q.slot)),
                 !.seen = IF q.op = "walk" THEN {} ELSE @ \cup Admitted(items', late', q.key),
                 !.changed = IF q.op = "walk" THEN @ \cup K ELSE @ \cup (K \cap {q.key}),
                 !.out = [k \in Key |-> IF k \in K THEN 0 ELSE @[k]],
                 !.raced = @ \/ (q.pc = "kill" /\ q.key \in K),
                 !.behind = IF q.tab # NoTable /\ K # {} /\ @ < MaxBehind THEN @ + 1 ELSE @]

\* The overflow count that the writer of k's slot goes on to change.
Lag(k, by) == IF items'.over = items.over THEN Settled
              ELSE [grp |-> Group(Home(items, k)), key |-> k, by |-> by]

\* No reader holds the mutex, in dropExpired.
Unheld == \A r \in Reader : rd[r].pc # "kill"

\* A step that writes the slot of k.
Writes(A, k, by) ==
  /\ late = Settled /\ Unheld
  /\ A
  /\ late' = Lag(k, by)
  /\ rd' = [r \in Reader |-> Witnessed(r, {k})]

\* A step that begins an operation of a writer.
Operates(A, k, by) ==
  /\ \A r \in Reader : rd[r].behind < MaxBehind
  /\ Writes(A, k, by)

\* storage.NoteDisplaced or ForgetDisplaced, after the slot is written.
CountLands ==
  /\ late # Settled
  /\ late' = Settled
  /\ UNCHANGED <<vars, rd>>

\* The superseded table, as far as reader q can still tell its slots apart.
LeftBehind(q) ==
  LET Matters(s) == items.slot[s].st = "empty" \/ q.op = "walk" \/ Candidate(items.slot[s], q.key)
  IN  [items EXCEPT !.slot = [s \in Slots(items) |->
                                IF Matters(s) THEN @[s] ELSE Freed(EmptyItem)]]

\* storage.Store: a reader under way keeps the table it loaded.
Superseded(r) ==
  IF rd[r].pc = "idle" \/ rd[r].tab # NoTable THEN rd[r]
  ELSE [rd[r] EXCEPT !.tab = LeftBehind(rd[r])]

Swap ==
  /\ late = Settled
  /\ RebuildDone
  /\ rd' = [r \in Reader |-> Superseded(r)]
  /\ UNCHANGED late

\* Another reader's TouchAndRefreshExpire renews the TTL of a live item, without
\* the mutex.  Its clock may be old: the item it renews may have lapsed meanwhile.
\* Of a rebuild the same holds as in Expire.
Renew(k) ==
  /\ RefreshOnGet /\ TTLEnabled
  /\ \E s \in Slots(items) :
       /\ IsLive(items.slot[s], k)
       /\ items.slot[s].exp => pc # "rebuild"
       /\ items' = [items EXCEPT !.slot[s].exp = FALSE]
  /\ UNCHANGED <<live, dirty, deadCount, weight, nodes, pc, rebuild, owed, late>>
  /\ rd' = [r \in Reader |-> Witnessed(r, {k})]

Lapse(s) ==
  /\ items.slot[s].key \in Mortal
  /\ Expire(s)
  /\ UNCHANGED late
  /\ rd' = [r \in Reader |-> Witnessed(r, {})]

\* What writers do.  A Set of an item that is too heavy removes the key exactly
\* as Delete does.
Mutations ==
  \/ \E e \in Stores : Operates(SetMemory(e[1], e[2]), e[1], 1)
  \/ \E k \in Key : Operates(Delete(k), k, -1) \/ Operates(DropExpired(k), k, -1)
  \/ \E s \in Slots(items) : \/ Writes(Evict(s), items.slot[s].key, -1)
                             \/ late = Settled /\ RebuildNode(s) /\ UNCHANGED <<late, rd>>
                             \/ Lapse(s)
  \/ \E k \in Wanted : Renew(k)
  \/ CountLands
  \/ Swap

-----------------------------------------------------------------------------
(***************************************************************************)
(* The readers.                                                            *)
(***************************************************************************)

Goes(r, q) == rd' = [rd EXCEPT ![r] = q] /\ UNCHANGED <<vars, late>>

Returns(r, res) == [rd[r] EXCEPT !.pc = "ret", !.res = res, !.raced = FALSE]

\* The next position of a probe; the first one past the home group comes after
\* a look at the group's overflow count.
Advanced(r) ==
  LET d == rd[r].dist + 1
  IN  [rd[r] EXCEPT !.dist = d, !.slot = -1, !.same = TRUE,
                    !.pc = IF d = GroupEdge(Tab(r), rd[r].key) THEN "edge" ELSE "look"]

\* GetStorage: the call stays on the table that is current now.
Begin(r, op, k) ==
  /\ rd[r].pc = "idle"
  /\ Goes(r, [Idle EXCEPT !.pc = "look", !.op = op, !.key = k, !.seen = Admitted(items, late, k)])

BeginWalk(r) ==
  /\ rd[r].pc = "idle"
  /\ Goes(r, [Idle EXCEPT !.pc = "slot", !.op = "walk", !.lapsed = {k \in Key : Now(k) = Lapsed}])

\* The load of one meta word by getMemory or livePresent.
Look(r) ==
  LET x == Tab(r).slot[At(r)]
      k == rd[r].key
  IN  /\ rd[r].pc = "look" /\ rd[r].op \in {"get", "delete"}
      /\ Goes(r, IF x.st = "empty" THEN Returns(r, "miss")
                 ELSE IF ~(Candidate(x, k) /\ x.key = k) THEN Advanced(r)
                 ELSE IF rd[r].op = "delete" THEN [rd[r] EXCEPT !.pc = "lock"]
                 ELSE [rd[r] EXCEPT !.pc = "check", !.slot = At(r), !.exp = x.exp, !.val = x.val])

Edge(r) ==
  /\ rd[r].pc = "edge" /\ rd[r].op \in {"get", "delete"}
  /\ Goes(r, IF SeesOverflow(r) THEN [rd[r] EXCEPT !.pc = "look"] ELSE Returns(r, "miss"))

\* The load of one meta word by batchGetGroup, which looks at the overflow
\* count after it.
GroupLook(r) ==
  LET x == Tab(r).slot[At(r)]
      q == [rd[r] EXCEPT !.slot = At(r), !.same = TRUE, !.exp = x.exp]
  IN  /\ rd[r].op = "group" /\ rd[r].pc \in {"look", "edge"}
      /\ Goes(r, IF x.st = "empty" THEN Returns(r, "miss")
                 ELSE IF rd[r].pc = "edge"
                 THEN [q EXCEPT !.pc = IF Candidate(x, rd[r].key) THEN "edgeHit" ELSE "edgeMiss"]
                 ELSE IF Candidate(x, rd[r].key) THEN [q EXCEPT !.pc = "validate"]
                 ELSE Advanced(r))

GroupAtEdge(r) ==
  /\ rd[r].pc \in {"edgeHit", "edgeMiss"}
  /\ Goes(r, IF ~SeesOverflow(r) THEN Returns(r, "miss")
             ELSE IF rd[r].pc = "edgeHit" THEN [rd[r] EXCEPT !.pc = "validate"]
             ELSE Advanced(r))

\* SnapshotInto under the word loaded earlier.
Validates(r) == rd[r].same

\* batchGetGroup's last stage; what does not validate starts over as getMemory.
Validate(r) ==
  LET x == Tab(r).slot[rd[r].slot]
  IN  /\ rd[r].pc = "validate"
      /\ Goes(r, IF Validates(r) /\ x.key = rd[r].key
                 THEN [rd[r] EXCEPT !.pc = "check", !.val = x.val]
                 ELSE [rd[r] EXCEPT !.pc = "look", !.op = "get", !.tab = NoTable, !.behind = 0,
                                    !.dist = 0, !.slot = -1, !.same = TRUE])

\* Whether the loaded word has expired by now.  While the key is not written
\* it is the item's; a word whose item was renewed keeps its old deadline.
WordLapsed(r) ==
  IF ~TTLEnabled THEN {FALSE}
  ELSE IF rd[r].key \in rd[r].changed THEN {rd[r].exp, TRUE}
  ELSE {Now(rd[r].key) = Lapsed}

Check(r) ==
  /\ rd[r].pc = "check"
  /\ \E lapsed \in WordLapsed(r) :
       Goes(r, IF lapsed THEN [rd[r] EXCEPT !.pc = "drop"] ELSE Returns(r, "hit"))

\* Variant: the slot is looked at again, its TTL is not.
DoomedStale(r, d) ==
  Finds(items, rd[r].key, d) /\ ProbeSlot(items, rd[r].key, d) = rd[r].slot

\* dropExpired finds the key d steps from its home, in the slot the reader saw
\* and still expired.
Doomed(r, d) ==
  /\ Finds(items, rd[r].key, d)
  /\ ProbeSlot(items, rd[r].key, d) = rd[r].slot
  /\ ProbeItem(items, rd[r].key, d).exp

\* dropExpired takes the mutex and looks again.
Drop(r) ==
  /\ rd[r].pc = "drop" /\ pc = "idle" /\ late = Settled /\ Unheld
  /\ Goes(r, IF \E d \in Slots(items) : Doomed(r, d)
             THEN [rd[r] EXCEPT !.pc = "kill", !.val = items.slot[rd[r].slot].val]
             ELSE Returns(r, "lapsed"))

\* killAt, still under the mutex, does not look once more.
DropKill(r) ==
  LET k == rd[r].key
  IN  /\ rd[r].pc = "kill"
      /\ KillAt(rd[r].slot)
      /\ late' = Lag(k, -1)
      /\ rd' = [[q \in Reader |-> Witnessed(q, {k})] EXCEPT ![r] = Returns(r, "lapsed")]

\* deleteLocked under the mutex, for a key that livePresent saw.
Deletes(r) ==
  LET k == rd[r].key
  IN  /\ rd[r].pc = "lock" /\ pc = "idle" /\ late = Settled /\ Unheld
      /\ IF \E d \in Slots(items) : Finds(items, k, d)
         THEN /\ DeleteLocked(k)
              /\ late' = Lag(k, -1)
              /\ rd' = [q \in Reader |->
                          IF q = r THEN [Witnessed(r, {k}) EXCEPT !.pc = "ret", !.res = "deleted"]
                                   ELSE Witnessed(q, {k})]
         ELSE Goes(r, Returns(r, "deleted"))

\* Variant: a walk ends at a never-occupied slot, as a probe does.
WalkEndsAtGap(r) == rd[r].dist = Tab(r).len \/ Tab(r).slot[rd[r].dist].st = "empty"

WalkEnds(r) == rd[r].dist = Tab(r).len

\* iterateWithLife loads the word of the next slot.  Expirations are compared
\* with the clock as it stood when the walk began.
WalkLook(r) ==
  LET q == rd[r]
      x == Tab(r).slot[q.dist]
      Skips == IF ~x.exp THEN {FALSE}
               ELSE IF x.key \in q.changed THEN BOOLEAN ELSE {x.key \in q.lapsed}
  IN  /\ q.pc = "slot"
      /\ IF WalkEnds(r) THEN Goes(r, Returns(r, "walked"))
         ELSE IF x.st # "live" THEN Goes(r, [q EXCEPT !.dist = @ + 1])
         ELSE \E skip \in Skips :
                Goes(r, IF skip THEN [q EXCEPT !.dist = @ + 1]
                        ELSE [q EXCEPT !.pc = "copy", !.slot = q.dist, !.same = TRUE])

\* The copy validates and is yielded, or the slot is skipped.
WalkYield(r) ==
  LET q == rd[r]
      k == Tab(r).slot[q.slot].key
  IN  /\ q.pc = "copy"
      /\ Goes(r, [q EXCEPT !.pc = "slot", !.dist = @ + 1, !.slot = -1, !.same = TRUE,
                           !.out = IF Validates(r) /\ k \notin q.changed THEN [@ EXCEPT ![k] = @ + 1] ELSE @])

Return(r) == rd[r].pc = "ret" /\ Goes(r, Idle)

Steps(r) ==
  \/ Look(r) \/ Edge(r) \/ GroupLook(r) \/ GroupAtEdge(r) \/ Validate(r) \/ Check(r)
  \/ Drop(r) \/ DropKill(r) \/ Deletes(r) \/ WalkLook(r) \/ WalkYield(r) \/ Return(r)

ReadersNext ==
  \/ Mutations
  \/ \E r \in Reader : \/ \E k \in Wanted, op \in {"get", "group", "delete"} : Begin(r, op, k)
                       \/ BeginWalk(r)
                       \/ Steps(r)

ReadersSpec == ReadersInit /\ [][ReadersNext]_allVars
-----------------------------------------------------------------------------
(***************************************************************************)
(* Properties.                                                             *)
(***************************************************************************)

\* However its probe is overtaken by inserts, kills, reused slots, late
\* overflow counts and table swaps, a lookup answers what was true at some
\* moment of the call: a hit returns a value the key had then, the end of the
\* probe chain means that the key was absent then, and a Delete returns only
\* if it was.  A miss for an elapsed TTL may also mean that the key was written
\* or renewed during the call.
AnswersTrue ==
  \A r \in Reader : LET q == rd[r] IN
    q.pc = "ret" =>
      /\ q.res = "hit"    => q.val \in q.seen
      /\ q.res \in {"miss", "deleted"} => NoValue \in q.seen
      /\ q.res = "lapsed" => q.seen \cap {NoValue, Lapsed} # {} \/ q.key \in q.changed

\* A walk (Iterator, SaveTo) yields a key that is neither written nor removed
\* while it runs exactly once if it was live and unexpired when the walk began,
\* and not at all otherwise, also when a rebuild moves every item meanwhile.
WalkExact ==
  \A r \in Reader : LET q == rd[r] IN
    q.pc = "ret" /\ q.op = "walk" =>
      \A k \in Key \ q.changed :
        q.out[k] = IF Now(k) # NoValue /\ k \notin q.lapsed THEN 1 ELSE 0

\* A reader that found the key expired and comes back with the mutex does not
\* remove what was stored or renewed under it meanwhile.  "a refreshed TTL means
\* the item survives" (comment of dropExpired) goes further than the code: a
\* renewal does not take the mutex, and one that lands after the re-check and
\* before Kill is lost.  That is the only exception, and then the value removed is
\* still the one that had expired.
SparesRenewed ==
  [][\A r \in Reader : LET k == rd[r].key IN
       rd[r].pc \in {"drop", "kill"} /\ rd'[r].pc = "ret" /\ TellsOf(items', k) # Now(k)
         => Now(k) = Lapsed \/ (rd[r].raced /\ Now(k) = rd[r].val)]_allVars
=============================================================================
