------------------------------- MODULE Policy -------------------------------
(***************************************************************************)
(* What a shard asks of its eviction policy (EvictionPolicy, eviction.go): *)
(* Evict hands out some queued node, Sweep removes the nodes of all dead   *)
(* items and of no other, Rebuild visits each node once.  The steps of     *)
(* Shard's rebuild and eviction rest on this contract.                     *)
(***************************************************************************)
EXTENDS PolicyHost

VARIABLES queued, \* the slots that nodes reference
          moved   \* those of the new table, during a rebuild

Init == HostInit /\ queued = {} /\ moved = {}

Add(s) == HostAdd(s) /\ queued' = queued \union {s} /\ UNCHANGED moved

Evict(s) == HostVictim(s) /\ s \in queued /\ queued' = queued \ {s} /\ UNCHANGED moved

EvictNothing == HostReturn("evict") /\ queued = {} /\ UNCHANGED <<queued, moved>>

Revoke(s) == \E n \in 0..1 : HostRevoke(s, n) /\ s \in queued /\ UNCHANGED <<queued, moved>>

SweepNode(s) == HostRelease(s) /\ s \in queued /\ queued' = queued \ {s} /\ UNCHANGED moved

SweepDone ==
  /\ HostReturn("sweep")
  /\ \A s \in queued : item[s].st # "dead"
  /\ UNCHANGED <<queued, moved>>

RebuildNode(s) ==
  /\ \/ \E t \in Slot : HostMove(s, t) /\ moved' = moved \union {t}
     \/ HostDrop(s) /\ UNCHANGED moved
  /\ s \in queued /\ queued' = queued \ {s}

RebuildDone == HostSwap /\ queued = {} /\ queued' = moved /\ moved' = {}

Next ==
  \/ HostStep /\ UNCHANGED <<queued, moved>>
  \/ \E method \in {"evict", "sweep", "rebuild"} : HostCall(method) /\ UNCHANGED <<queued, moved>>
  \/ \E s \in Slot : Add(s) \/ Evict(s) \/ Revoke(s) \/ SweepNode(s) \/ RebuildNode(s)
  \/ EvictNothing \/ SweepDone \/ RebuildDone

Spec == Init /\ [][Next]_<<host, queued, moved>>
=============================================================================
