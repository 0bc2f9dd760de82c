----------------------------- MODULE PolicyHost -----------------------------
(***************************************************************************)
(* A shard as its eviction policy sees it: the items behind the slots that *)
(* queue nodes reference, and which method of the policy is running.  All  *)
(* of them run under the shard mutex, one at a time; only readers, who     *)
(* touch items, run beside them.                                           *)
(***************************************************************************)
EXTENDS Integers, Sequences, FiniteSetsExt, SequencesExt

CONSTANTS Slot,
          Kinds,    \* the policies a cache may be built with
          MaxTouch  \* bound of the model: touches by readers

ASSUME HostAssumption == /\ Slot # {} /\ MaxTouch \in Nat
                         /\ Kinds \subseteq {"clock", "s3fifo", "wtinylfu", "sieve"}

VARIABLES kind,    \* the policy of this cache, fixed when it is built
          item,    \* item[s]: the item in slot s
          fresh,   \* the table a rebuild is filling
          pc,      \* the method that is running, or "idle"
          touches  \* how often readers touched an item

host == <<kind, item, fresh, pc, touches>>

\* An item is live, expired by the clock value Evict is called with, or dead.
\* chance counts the chance bits that are set; those of a dead item are not
\* looked at again.
NoItem   == [st |-> "none", chance |-> 0]
NewItem  == [st |-> "live", chance |-> 0]
DeadItem == [st |-> "dead", chance |-> 0]

\* What an eviction reclaims without a second look.
Doomed(x) == x.st \in {"dead", "expired"}

HostInit == /\ kind \in Kinds /\ pc = "idle" /\ touches = 0
            /\ item = [s \in Slot |-> NoItem] /\ fresh = [s \in Slot |-> NoItem]

\* A reader hits the item in slot s.  One whose clock is older than the policy's
\* may renew an expired item with its touch, also while a method is running.
Touch(s) ==
  /\ touches < MaxTouch
  /\ item[s].st = "expired" \/ (item[s].st = "live" /\ item[s].chance < 2)
  /\ item' = [item EXCEPT ![s] = [st |-> "live", chance |-> Min({2, item[s].chance + 1})]]
  /\ touches' = touches + 1
  /\ UNCHANGED <<kind, fresh, pc>>

\* Delete, or a reader that finds it expired, kills an item; its node stays.
Kill(s) ==
  /\ pc = "idle" /\ item[s].st \in {"live", "expired"}
  /\ item' = [item EXCEPT ![s] = DeadItem]
  /\ UNCHANGED <<kind, fresh, pc, touches>>

\* A Set of its key brings a dead item back ...
Resurrect(s) ==
  /\ pc = "idle" /\ item[s].st = "dead"
  /\ item' = [item EXCEPT ![s] = NewItem]
  /\ UNCHANGED <<kind, fresh, pc, touches>>

\* ... and renews an expired one, with the chances it had.
Renew(s) ==
  /\ pc = "idle" /\ item[s].st = "expired"
  /\ item' = [item EXCEPT ![s].st = "live"]
  /\ UNCHANGED <<kind, fresh, pc, touches>>

Expire(s) ==
  /\ pc = "idle" /\ item[s].st = "live"
  /\ item' = [item EXCEPT ![s].st = "expired"]
  /\ UNCHANGED <<kind, fresh, pc, touches>>

HostStep == \E s \in Slot : Touch(s) \/ Kill(s) \/ Resurrect(s) \/ Renew(s) \/ Expire(s)

(***************************************************************************)
(* What the host does around a call of the policy.                         *)
(***************************************************************************)

\* A new item in slot s is handed to Add.
HostAdd(s) ==
  /\ pc = "idle" /\ item[s] = NoItem
  /\ item' = [item EXCEPT ![s] = NewItem]
  /\ UNCHANGED <<kind, fresh, pc, touches>>

HostCall(method) ==
  /\ pc = "idle" /\ pc' = method
  /\ UNCHANGED <<kind, item, fresh, touches>>

HostReturn(method) ==
  /\ pc = method /\ pc' = "idle"
  /\ UNCHANGED <<kind, item, fresh, touches>>

\* Evict returned slot s: its item is killed and released.
HostVictim(s) ==
  /\ pc = "evict" /\ pc' = "idle"
  /\ item' = [item EXCEPT ![s] = NoItem]
  /\ UNCHANGED <<kind, fresh, touches>>

\* Evict takes chances of the item in slot s away, down to n.
HostRevoke(s, n) ==
  /\ pc = "evict" /\ item[s].chance > n
  /\ item' = [item EXCEPT ![s].chance = n]
  /\ UNCHANGED <<kind, fresh, pc, touches>>

\* Sweep hands slot s to release.
HostRelease(s) ==
  /\ pc = "sweep" /\ item[s].st = "dead"
  /\ item' = [item EXCEPT ![s] = NoItem]
  /\ UNCHANGED <<kind, fresh, pc, touches>>

\* remap of a live item: it moves to slot t of the new table.
HostMove(s, t) ==
  /\ pc = "rebuild" /\ item[s].st \in {"live", "expired"} /\ fresh[t] = NoItem
  /\ fresh' = [fresh EXCEPT ![t] = item[s]]
  /\ UNCHANGED <<kind, item, pc, touches>>

\* remap of a dead one: the node has to drop out.
HostDrop(s) == pc = "rebuild" /\ item[s].st = "dead" /\ UNCHANGED host

HostSwap ==
  /\ pc = "rebuild" /\ pc' = "idle"
  /\ item' = fresh /\ fresh' = [s \in Slot |-> NoItem]
  /\ UNCHANGED <<kind, touches>>

=============================================================================
