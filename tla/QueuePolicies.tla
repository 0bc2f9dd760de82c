--------------------------- MODULE QueuePolicies ---------------------------
(***************************************************************************)
(* The policies built on FIFO queues: GCLOCK with one queue, S3-FIFO and   *)
(* W-TinyLFU with a probation queue (small, window) in front of a main     *)
(* one.  Sweep and Rebuild turn each queue once.  The ghost table and the  *)
(* frequency sketch only tip a choice between two legal outcomes, so what  *)
(* they answer is left open.                                               *)
(***************************************************************************)
EXTENDS PolicyHost

CONSTANTS Costs,    \* the weights items may have
          ProbCap   \* smallCap, windowCap

VARIABLES probation,  \* small or window: the queued nodes [idx, cost]
          main,       \* main, and the only queue of GCLOCK
          probWeight, \* smallWeight, windowWeight
          left        \* during Sweep and Rebuild: nodes still to turn, per queue

queues == <<probation, main, probWeight, left>>

\* Deliberate deviations, for testing the properties.

\* A rebuild that forgets the weight of the nodes it drops.
RebuildDropFree(n) == UNCHANGED probWeight

\* An eviction that gives up on an empty main queue.
EvictNothingInMain == main = <<>> /\ HostReturn("evict") /\ UNCHANGED queues

\* A scan that moves a node on without taking its chance.
RevokeNone(s) == pc = "evict" /\ UNCHANGED host

\* A turn that starts one node short.
TurnShort == left' = <<Len(probation), IF main = <<>> THEN 0 ELSE Len(main) - 1>>

QueueInit == probation = <<>> /\ main = <<>> /\ probWeight = 0 /\ left = <<0, 0>>

Segmented == kind \in {"s3fifo", "wtinylfu"}

Weight(q) == FoldSeq(LAMBDA n, sum : n.cost + sum, 0, q)

\* Add: newcomers of the segmented policies go on probation, unless the ghost
\* table of S3-FIFO remembers the key.
QueueAdd(s, c) ==
  LET n == [idx |-> s, cost |-> c]
  IN  /\ HostAdd(s) /\ UNCHANGED left
      /\ \/ /\ Segmented
            /\ probation' = Append(probation, n) /\ probWeight' = probWeight + c
            /\ UNCHANGED main
         \/ /\ kind \in {"clock", "s3fifo"}
            /\ main' = Append(main, n)
            /\ UNCHANGED <<probation, probWeight>>

QueueEvict == HostCall("evict") /\ UNCHANGED queues

QueueEvictNothing == probation = <<>> /\ main = <<>> /\ HostReturn("evict") /\ UNCHANGED queues

FromProbation == probation # <<>> /\ (probWeight > ProbCap \/ main = <<>>)

\* admit: an untouched newcomer enters main when the sketch prefers it, and
\* always when main is empty or a tombstone leads it.
MustAdmit == main = <<>> \/ item[Head(main).idx].st = "dead"

\* The head of probation is reclaimed, or promoted when it was touched; fates says
\* what may become of one that was not.
EvictProbation(fates) ==
  /\ pc = "evict" /\ FromProbation
  /\ LET n == Head(probation)
         x == item[n.idx]
     IN  /\ probation' = Tail(probation) /\ probWeight' = probWeight - n.cost
         /\ UNCHANGED left
         /\ \/ /\ Doomed(x) /\ HostVictim(n.idx) /\ UNCHANGED main
            \/ /\ ~Doomed(x) /\ x.chance > 0
               /\ HostRevoke(n.idx, 0) /\ main' = Append(main, n)
            \/ /\ ~Doomed(x) /\ x.chance = 0 /\ "evict" \in fates
               /\ HostVictim(n.idx) /\ UNCHANGED main
            \/ /\ ~Doomed(x) /\ x.chance = 0 /\ "admit" \in fates
               /\ main' = Append(main, n) /\ UNCHANGED host

evictSmallOnce == kind = "s3fifo" /\ EvictProbation({"evict"})

evictWindowOnce ==
  kind = "wtinylfu" /\ EvictProbation(IF MustAdmit THEN {"admit"} ELSE {"admit", "evict"})

RevokeChance(s) == HostRevoke(s, item[s].chance - 1)

\* Variant: a scan that takes a node's last chance and evicts it on the spot.
EvictMainHasty ==
  /\ pc = "evict" /\ ~FromProbation /\ main # <<>>
  /\ LET n == Head(main)
         x == item[n.idx]
     IN  \/ /\ Doomed(x) \/ x.chance <= 1
            /\ HostVictim(n.idx) /\ main' = Tail(main)
         \/ /\ ~Doomed(x) /\ x.chance > 1
            /\ RevokeChance(n.idx) /\ main' = Append(Tail(main), n)
  /\ UNCHANGED <<probation, probWeight, left>>

\* One step of the GCLOCK scan: Evict of the clock policy, evictMainOnce.
EvictMain ==
  /\ pc = "evict" /\ ~FromProbation /\ main # <<>>
  /\ LET n == Head(main)
         x == item[n.idx]
     IN  \/ /\ Doomed(x) \/ x.chance = 0
            /\ HostVictim(n.idx) /\ main' = Tail(main)
         \/ /\ ~Doomed(x) /\ x.chance > 0
            /\ RevokeChance(n.idx) /\ main' = Append(Tail(main), n)
  /\ UNCHANGED <<probation, probWeight, left>>

\* SweepQueue and RebuildQueue: probation is turned first, then main, each by
\* as many nodes as it has when the turn starts.
StartTurn == left' = <<Len(probation), Len(main)>>

QueueTurn(method) ==
  HostCall(method) /\ StartTurn /\ UNCHANGED <<probation, main, probWeight>>

\* The node now turned is put back as kept says: as it is, with its new slot, or
\* not at all.
TurnProbation(kept) ==
  /\ left[1] > 0 /\ left' = <<left[1] - 1, left[2]>>
  /\ probation' = Tail(probation) \o kept
  /\ UNCHANGED main

TurnMain(kept) ==
  /\ left[1] = 0 /\ left[2] > 0 /\ left' = <<0, left[2] - 1>>
  /\ main' = Tail(main) \o kept
  /\ UNCHANGED <<probation, probWeight>>

TurnDone == left = <<0, 0>>

Turned == IF left[1] > 0 THEN Head(probation) ELSE Head(main)

SweepNode ==
  /\ pc = "sweep" /\ ~TurnDone
  /\ LET n == Turned
     IN  \/ /\ item[n.idx].st = "dead" /\ HostRelease(n.idx)
            /\ \/ TurnProbation(<<>>) /\ probWeight' = probWeight - n.cost
               \/ TurnMain(<<>>)
         \/ /\ item[n.idx].st # "dead" /\ UNCHANGED host
            /\ \/ TurnProbation(<<n>>) /\ UNCHANGED probWeight
               \/ TurnMain(<<n>>)

SweepDone == TurnDone /\ HostReturn("sweep") /\ UNCHANGED queues

RebuildDrop(n) == probWeight' = probWeight - n.cost

RebuildNode ==
  /\ pc = "rebuild" /\ ~TurnDone
  /\ LET n == Turned
     IN  \/ /\ HostDrop(n.idx)
            /\ \/ TurnProbation(<<>>) /\ RebuildDrop(n)
               \/ TurnMain(<<>>)
         \/ \E t \in Slot :
              /\ HostMove(n.idx, t)
              /\ \/ TurnProbation(<<[n EXCEPT !.idx = t]>>) /\ UNCHANGED probWeight
                 \/ TurnMain(<<[n EXCEPT !.idx = t]>>)

RebuildDone == TurnDone /\ HostSwap /\ UNCHANGED queues

QueueNext ==
  \/ \E s \in Slot : \E c \in IF Segmented THEN Costs ELSE {1} : QueueAdd(s, c)
  \/ QueueEvict \/ QueueEvictNothing \/ evictSmallOnce \/ evictWindowOnce \/ EvictMain
  \/ QueueTurn("sweep") \/ SweepNode \/ SweepDone
  \/ QueueTurn("rebuild") \/ RebuildNode \/ RebuildDone

=============================================================================
