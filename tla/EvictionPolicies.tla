-------------------------- MODULE EvictionPolicies --------------------------
(***************************************************************************)
(* A shard with one of the four policies, and what they all owe the shard. *)
(***************************************************************************)
EXTENDS QueuePolicies, Sieve

VARIABLE target \* the slot the running Evict has to hand out, if it is settled

vars == <<host, queues, sieve, target>>

\* The slots of a sequence of nodes.
Slots(q) == [i \in DOMAIN q |-> q[i].idx]

\* The nodes of SIEVE that a sequence of links names.
Linked(links) == LET l == links IN [i \in DOMAIN l |-> nodes[l[i]].idx]

\* All nodes, and during a rebuild those it has visited: they carry slots of the
\* new table.
All == IF kind = "sieve" THEN Linked(List) ELSE Slots(probation) \o Slots(main)

Visited ==
  IF pc # "rebuild" THEN <<>>
  ELSE IF kind = "sieve"
       THEN LET ahead == Range(Walk(cur, "prev")) IN Linked(SelectSeq(List, LAMBDA c : c \notin ahead))
       ELSE Slots(SubSeq(probation, left[1] + 1, Len(probation))) \o Slots(SubSeq(main, left[2] + 1, Len(main)))

Unvisited ==
  IF pc # "rebuild" THEN All
  ELSE IF kind = "sieve" THEN Linked(Walk(cur, "prev"))
       ELSE Slots(SubSeq(probation, 1, left[1])) \o Slots(SubSeq(main, 1, left[2]))

(***************************************************************************)
(* The victim of a call to Evict that no reader disturbs, stated without   *)
(* its loop.  GCLOCK: the oldest node among those with the fewest chances. *)
(* SIEVE: the first node without a chance from the hand on, going round at *)
(* the newest; with no such node, the one under the hand.                  *)
(***************************************************************************)
Chances(s) == IF Doomed(item[s]) THEN 0 ELSE item[s].chance

Coldest(q) == SelectInSeq(q, LAMBDA s : \A t \in Range(q) : Chances(s) <= Chances(t))

FromHand ==
  LET old == Reverse(List)
      at  == IF hand = noLink THEN 1 ELSE SelectInSeq(old, LAMBDA c : c = hand)
  IN  Slots([i \in DOMAIN old |-> nodes[old[((at + i - 2) % Len(old)) + 1]]])

Settled ==
  CASE kind = "clock" /\ main # <<>> -> Slots(main)[Coldest(Slots(main))]
    [] kind = "sieve" /\ size > 0 ->
         LET i == SelectInSeq(FromHand, LAMBDA s : Chances(s) = 0)
         IN  FromHand[IF i = 0 THEN 1 ELSE i]
    [] OTHER -> "any"

Watch == target' = CASE pc = "idle" /\ pc' = "evict" -> Settled
                     [] pc' # "evict" \/ touches' # touches -> "any"
                     [] OTHER -> target

Init == HostInit /\ QueueInit /\ SieveInit /\ target = "any"

Step == \/ kind # "sieve" /\ QueueNext /\ UNCHANGED sieve
        \/ kind = "sieve" /\ SieveNext /\ UNCHANGED queues

Next == \/ HostStep /\ UNCHANGED <<queues, sieve>> /\ Watch
        \/ Step /\ Watch

Spec == Init /\ [][Next]_vars

(***************************************************************************)
(* Properties                                                              *)
(***************************************************************************)

\* Every policy keeps the contract the shard relies on: Evict hands out a queued
\* node, and reports none only when there is none; Sweep releases the nodes of all
\* dead items and of no others; Rebuild remaps every node once and leaves none
\* with a slot of the old table.
Contract == INSTANCE Policy WITH
               queued <- LET u == Unvisited IN Range(u), moved <- LET v == Visited IN Range(v)
KeepsContract == Contract!Spec

\* No slot is queued twice and, between two calls, a slot is queued exactly when
\* it holds an item: promotion, rotation, sweeps and rebuilds neither copy a node
\* nor lose one.
NodesExact ==
  /\ IsInjective(Unvisited) /\ IsInjective(Visited)
  /\ Range(Visited) = {s \in Slot : fresh[s] # NoItem}
  /\ pc # "rebuild" => Range(All) = {s \in Slot : item[s] # NoItem}

\* smallWeight and windowWeight are the weight of the nodes on probation, whatever
\* mix of promotions, evictions, sweeps and rebuilds took nodes out of it; a drift
\* would turn the quarantine off or drain it for ever.
ProbationExact == probWeight = Weight(probation)

\* The list of SIEVE reads the same in both directions, size counts it, every other
\* node of the slice is on the freelist, and the hand is off or on a listed node.
ListSound ==
  LET spare == Walk(free, "next")
  IN  /\ Walk(tail, "prev") = Reverse(List)
      /\ size = Len(List) /\ Len(List) + Len(spare) = Len(nodes)
      /\ Range(List) \intersect Range(spare) = {}
      /\ hand \in Range(List) \union {noLink}

\* An Evict of GCLOCK or SIEVE that no reader disturbs hands out the node that its
\* definition names, although the scan takes chances away and turns as it goes.
VictimSettled ==
  [][pc = "evict" /\ pc' = "idle" /\ target # "any" => Range(All) \ Range(All)' = {target}]_vars

\* "Finite: each step removes a node for good or spends one of its at most two
\* chances" (comment in Evict of the clock policy): whatever does not end a call of
\* Evict lowers this count, and a touch by a reader raises it by one at most, so the
\* scan ends when readers leave it alone for long enough.
Remaining == MapThenSumSet(LAMBDA s : item[s].chance, Range(All)) + Len(probation)
ScanProgresses ==
  [][pc = "evict" /\ pc' = "evict" =>
       IF touches' = touches THEN Remaining' < Remaining ELSE Remaining' <= Remaining + 1]_vars

=============================================================================
