------------------------------- MODULE Expiry -------------------------------
(***************************************************************************)
(* The life of one entry on the coarse, wrapping TTL clock (cache.go and   *)
(* item.go), through Set, SetWithTTL, TTL refreshes, lazy removal and the  *)
(* snapshots of snapshot.go.                                               *)
(*                                                                         *)
(* Time counts instants, Second of them per second.  The clock goroutine   *)
(* stores the number of whole expireUnits since the epoch, modulo Scale,   *)
(* once a second (TickInterval); readers and writers see that value only.  *)
(***************************************************************************)
EXTENDS Integers, FiniteSetsExt

CONSTANTS Scale,        \* offsets wrap at Scale (2^18)
          Second,       \* instants per second
          Phase,        \* the ticker's offset from the epoch, in instants
          TTL,          \* the configured TTL, in instants
          EntryTTLs,    \* the lifetimes SetWithTTL is called with
          RefreshOnGet,
          MaxTime,      \* bound of the model
          MaxSave       \* bound on the instants a SaveTo takes

ASSUME ExpiryAssumption ==
  /\ Scale \in Nat /\ Scale >= 8 /\ Scale % 2 = 0
  /\ Second \in Nat \ {0} /\ Phase \in 0..Second-1 /\ TTL \in Nat \ {0} /\ EntryTTLs \subseteq Nat
  /\ RefreshOnGet \in BOOLEAN /\ MaxTime \in Nat /\ MaxSave \in Nat

VARIABLES time,   \* instants since the epoch
          nowOff, \* the coarse clock
          item,   \* the entry of one key, or None
          saved,  \* its record in a snapshot, or None
          walk    \* how far the SaveTo of this behaviour is: there is one

vars == <<time, nowOff, item, saved, walk>>

None == [off |-> 0]
NoWalk == [at |-> "none"]

CeilDiv(a, b) == (a + b - 1) \div b

ExpireMax == (Scale \div 2) - 1

\* NewWithConfig: the unit the scale counts in, and the TTL in such units.
TTLSec     == CeilDiv(TTL, Second)
UnitSec    == Max({CeilDiv(TTLSec, ExpireMax), 1})
ExpireUnit == UnitSec * Second
TTLOff     == Min({CeilDiv(TTLSec, UnitSec), ExpireMax - 1})

\* The offset of an entry that lives for units from clock value now.
OffsetAfter(now, units) ==
  LET off == (now + units + 1) % Scale
  IN  IF off = 0 THEN 1 ELSE off

\* Variant: only the very unit of the expiration counts.
ExpiredExact(off, now) == off # 0 /\ (off - now) % Scale = 0

Expired(off, now) ==
  LET diff == (off - now) % Scale
  IN  off # 0 /\ (diff = 0 \/ diff > ExpireMax)

\* The units of a caller-supplied lifetime, rounded up and capped.
EntryUnits(ttl) == Min({CeilDiv(ttl, ExpireUnit), ExpireMax - 1})

\* lifeLeft, as SaveTo stores it: seconds, biased by one.
LifeSeconds(off, now) == CeilDiv(((off - now) % Scale) * ExpireUnit, Second) + 1

\* The units expireOffsetIn gives an item restored with remaining to live.
UnitsIn(remaining) == Min({CeilDiv(remaining, ExpireUnit), TTLOff})

Init == time = 0 /\ nowOff = 0 /\ item = None /\ saved = None /\ walk = NoWalk

\* Time passes; once a second clockLoop stores the clock.
Advance ==
  /\ time < MaxTime
  /\ walk.at \in {"begun", "shard"} => time < walk.since + MaxSave
  /\ time' = time + 1
  /\ nowOff' = IF (time + 1) % Second = Phase THEN ((time + 1) \div ExpireUnit) % Scale ELSE nowOff
  /\ UNCHANGED <<item, saved, walk>>

\* An entry stored now for units.  The rest is history: what it was promised,
\* when it was stored (at the clock's first tick if that is later), and the units
\* after which it is to expire, one for the lag of the clock and, if its offset
\* wrapped to 0, one more.
Stored(units, until) ==
  [off |-> OffsetAfter(nowOff, units), until |-> until, since |-> Max({time, Phase}),
   units |-> units + (IF (nowOff + units + 1) % Scale = 0 THEN 2 ELSE 1)]

Set ==
  /\ item' = Stored(TTLOff, time + TTL)
  /\ UNCHANGED <<time, nowOff, saved, walk>>

SetWithTTL(ttl) ==
  /\ ttl > 0
  /\ item' = Stored(EntryUnits(ttl), time + EntryUnits(ttl) * ExpireUnit)
  /\ UNCHANGED <<time, nowOff, saved, walk>>

\* A read of the expired entry drops it.
GetExpired ==
  /\ item # None /\ Expired(item.off, nowOff)
  /\ item' = None
  /\ UNCHANGED <<time, nowOff, saved, walk>>

\* A read that refreshes the TTL; an offset that is already the new one is
\* left alone, which comes to the same.
GetRefresh ==
  /\ RefreshOnGet
  /\ item # None /\ ~Expired(item.off, nowOff)
  /\ item' = Stored(TTLOff, time + TTL)
  /\ UNCHANGED <<time, nowOff, saved, walk>>

\* SaveTo takes the time of the snapshot before its walk ...
SaveTo ==
  /\ walk = NoWalk
  /\ walk' = [at |-> "begun", since |-> time]
  /\ UNCHANGED <<time, nowOff, item, saved>>

\* ... the walk loads the clock when it comes to the entry's shard ...
WalkShard ==
  /\ walk.at = "begun"
  /\ walk' = [at |-> "shard", since |-> walk.since, now |-> nowOff, spent |-> time - walk.since]
  /\ UNCHANGED <<time, nowOff, item, saved>>

\* Variant: the life left is counted from the clock of now.
WalkItemNow ==
  /\ walk.at = "shard"
  /\ saved' = IF item = None \/ Expired(item.off, walk.now) THEN None
              ELSE [at |-> walk.since, life |-> LifeSeconds(item.off, nowOff),
                    until |-> item.until - walk.spent]
  /\ walk' = [at |-> "saved"]
  /\ UNCHANGED <<time, nowOff, item>>

\* ... and at last reads the entry and saves what it has left to live, unless it
\* has expired.  The record counts from the time of the snapshot, not from that of
\* the clock, so the time the walk had spent is missing from its promise.
WalkItem ==
  /\ walk.at = "shard"
  /\ saved' = IF item = None \/ Expired(item.off, walk.now) THEN None
              ELSE [at |-> walk.since, life |-> LifeSeconds(item.off, walk.now),
                    until |-> item.until - walk.spent]
  /\ walk' = [at |-> "saved"]
  /\ UNCHANGED <<time, nowOff, item>>

\* LoadFrom with LoadWithTTL; an item past its moment is skipped.
LoadWithTTL ==
  LET remaining == saved.at + (saved.life - 1) * Second - time
      capped    == time + TTLOff * ExpireUnit
  IN  /\ saved # None
      /\ remaining > 0
      /\ item' = Stored(UnitsIn(remaining), Min({saved.until, capped}))
      /\ UNCHANGED <<time, nowOff, saved, walk>>

\* LoadFrom with LoadWithCurrentTTL is a Set of the saved pair.
LoadWithCurrentTTL == saved # None /\ Set

Next ==
  \/ Advance \/ Set \/ GetExpired \/ GetRefresh
  \/ SaveTo \/ WalkShard \/ WalkItem \/ LoadWithTTL \/ LoadWithCurrentTTL
  \/ \E ttl \in EntryTTLs : SetWithTTL(ttl)

Spec == Init /\ [][Next]_vars
-----------------------------------------------------------------------------
(***************************************************************************)
(* Properties.                                                             *)
(***************************************************************************)

\* "An item lives at least its TTL" (comment of expireOffset): before the
\* moment it was promised no read finds it expired, although the clock lags
\* and the offsets wrap.  An item restored by LoadWithTTL is not promised the
\* time that SaveTo had spent before it came to the item's shard: "a restored
\* item never expires earlier than it would have" (comment of expireOffsetIn)
\* is true of the rounding and up to that time only.
LivesAtLeastTTL == (item # None /\ time < item.until) => ~Expired(item.off, nowOff)

\* What a lookup finds of an item that nobody touches.  It is expired when the
\* clock has gone through its units, which is one more than its TTL has or, after
\* a wrap to 0, two; it stays so for half the scale; then it looks alive again
\* until the scale has turned.  "at most one extra clock unit" and "a wrap
\* landing there shifts one unit earlier" (comments of expireOffset and
\* expireOffsetAt) say less of the wrap, and nothing of the second life.
ExpiresInTime ==
  LET age  == time - item.since
      life == item.units * ExpireUnit
      half == (Scale \div 2) * ExpireUnit
  IN  item # None =>
        /\ age \in life..(life + half - 1) => Expired(item.off, nowOff)
        /\ age \in (life + half + ExpireUnit)..(life + (Scale - 1) * ExpireUnit - 1)
             => ~Expired(item.off, nowOff)

=============================================================================
