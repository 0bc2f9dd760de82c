------------------------------- MODULE Sieve -------------------------------
(***************************************************************************)
(* The SIEVE policy, pointer by pointer: a doubly linked list and a        *)
(* freelist in one slice of nodes, and a hand that moves from the oldest   *)
(* node to the newest.                                                     *)
(***************************************************************************)
EXTENDS PolicyHost

VARIABLES nodes, \* the slice; links are indices into it, noLink is 0
          free, head, tail, hand,
          size,
          cur    \* where a Sweep or a Rebuild stands

sieve == <<nodes, free, head, tail, hand, size, cur>>

noLink == 0

\* Deliberate deviations, for testing the properties.

\* A sweep that leaves the hand on a node it frees.
HandStays(c) == UNCHANGED hand

SieveInit == /\ nodes = <<>> /\ size = 0 /\ cur = noLink
             /\ free = noLink /\ head = noLink /\ tail = noLink /\ hand = noLink

\* Add, with alloc: the freelist first, then a longer slice.
SieveAdd(s) ==
  /\ HostAdd(s)
  /\ LET c     == IF free # noLink THEN free ELSE Len(nodes) + 1
         grown == IF free # noLink THEN nodes ELSE Append(nodes, [idx |-> "-", prev |-> noLink, next |-> noLink])
         n     == [idx |-> s, prev |-> noLink, next |-> head]
     IN  /\ nodes' = [i \in DOMAIN grown |->
                        IF i = c THEN n ELSE IF i = head THEN [grown[i] EXCEPT !.prev = c] ELSE grown[i]]
         /\ free' = IF free # noLink THEN nodes[free].next ELSE free
         /\ head' = c
         /\ tail' = IF head = noLink THEN c ELSE tail
  /\ size' = size + 1 /\ UNCHANGED <<hand, cur>>

\* Takes node c out of the list and puts it on the freelist.
unlink(c) ==
  LET n == nodes[c]
  IN  /\ nodes' = [i \in DOMAIN nodes |->
                     IF i = c THEN [idx |-> "-", prev |-> n.prev, next |-> free]
                     ELSE [nodes[i] EXCEPT !.next = IF i = n.prev THEN n.next ELSE @,
                                           !.prev = IF i = n.next THEN n.prev ELSE @]]
      /\ head' = IF n.prev = noLink THEN n.next ELSE head
      /\ tail' = IF n.next = noLink THEN n.prev ELSE tail
      /\ free' = c /\ size' = size - 1

SieveEvict == HostCall("evict") /\ UNCHANGED sieve

SieveEvictNothing == size = 0 /\ HostReturn("evict") /\ UNCHANGED sieve

\* One turn of the loop of Evict, with removeAt.
SieveStep ==
  /\ pc = "evict" /\ size > 0
  /\ LET c == IF hand = noLink THEN tail ELSE hand
         n == nodes[c]
         x == item[n.idx]
     IN  /\ hand' = n.prev /\ UNCHANGED cur
         /\ \/ /\ Doomed(x) \/ x.chance = 0
               /\ HostVictim(n.idx) /\ unlink(c)
            \/ /\ ~Doomed(x) /\ x.chance > 0
               /\ HostRevoke(n.idx, 0)
               /\ UNCHANGED <<nodes, free, head, tail, size>>

\* The hand leaves a node that a Sweep or a Rebuild is about to free.
HandOff(c) == hand' = IF hand = c THEN nodes[c].prev ELSE hand

SieveSweep ==
  HostCall("sweep") /\ cur' = head /\ UNCHANGED <<nodes, free, head, tail, hand, size>>

SieveSweepNode ==
  /\ pc = "sweep" /\ cur # noLink
  /\ cur' = nodes[cur].next
  /\ \/ /\ HostRelease(nodes[cur].idx)
        /\ HandOff(cur) /\ unlink(cur)
     \/ /\ item[nodes[cur].idx].st # "dead" /\ UNCHANGED host
        /\ UNCHANGED <<nodes, free, head, tail, hand, size>>

SieveSweepDone == cur = noLink /\ HostReturn("sweep") /\ UNCHANGED sieve

\* Rebuild walks the other way, from the oldest node.
SieveRebuild ==
  HostCall("rebuild") /\ cur' = tail /\ UNCHANGED <<nodes, free, head, tail, hand, size>>

SieveRebuildNode ==
  /\ pc = "rebuild" /\ cur # noLink
  /\ cur' = nodes[cur].prev
  /\ \/ /\ HostDrop(nodes[cur].idx)
        /\ HandOff(cur) /\ unlink(cur)
     \/ \E t \in Slot :
          /\ HostMove(nodes[cur].idx, t)
          /\ nodes' = [nodes EXCEPT ![cur].idx = t]
          /\ UNCHANGED <<free, head, tail, hand, size>>

SieveRebuildDone == cur = noLink /\ HostSwap /\ UNCHANGED sieve

SieveNext ==
  \/ \E s \in Slot : SieveAdd(s)
  \/ SieveEvict \/ SieveEvictNothing \/ SieveStep
  \/ SieveSweep \/ SieveSweepNode \/ SieveSweepDone
  \/ SieveRebuild \/ SieveRebuildNode \/ SieveRebuildDone

\* The nodes met from start along one of the two links.
Walk(start, link) ==
  LET hop == [c \in 0..Len(nodes) |-> IF c = noLink THEN noLink ELSE nodes[c][link]]
      nth[n \in 1..Len(nodes)] == IF n = 1 THEN start ELSE hop[nth[n - 1]]
  IN  SelectSeq([n \in 1..Len(nodes) |-> nth[n]], LAMBDA c : c # noLink)

\* The list, newest first.
List == Walk(head, "next")

=============================================================================
