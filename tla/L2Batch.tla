------------------------------- MODULE L2Batch -------------------------------
(***************************************************************************)
(* Calls of an L2 adapter in progress: the requests of a plan (L2Adapters) *)
(* served by a store that executes them, hands part of them back, or       *)
(* fails.  A request that failed may still be carried out later: its reply *)
(* was lost, its context ran out, or nobody waited for its future.         *)
(*                                                                         *)
(* The store itself is external; what the adapters make of its answers is  *)
(* modelled here.                                                          *)
(***************************************************************************)
EXTENDS L2Adapters

CONSTANTS Key,
          MaxBatchRetries, \* dynamo
          MaxFaults        \* bound on failed requests

ASSUME L2BatchAssumption == MaxBatchRetries \in Nat /\ MaxFaults \in Nat

VARIABLES store,  \* the store: key -> value
          call,   \* who -> the call in progress
          adrift, \* writes of failed requests that may still be carried out
          faults  \* failed requests so far

l2Vars == <<store, call, adrift, faults>>

\* A value carries the key it was written for.
NoValue == <<>>

NoCall == <<>>
-----------------------------------------------------------------------------
\* A call: left holds, per request, the positions not executed yet; open the
\* requests in flight; next the number of requests claimed; tries the attempts
\* per request; got the pairs read.
NewCall(op, keys, vals, plan) ==
  LET first == Smaller(plan.width, Len(plan.reqs))
  IN  [op |-> op, keys |-> keys, vals |-> vals, plan |-> plan,
       left |-> [r \in 1..Len(plan.reqs) |-> ToSet(plan.reqs[r].at)],
       open |-> 1..first, next |-> first,
       tries |-> [r \in 1..Len(plan.reqs) |-> 0], failed |-> FALSE, got |-> {}]

\* Nothing in flight: wg.Wait has returned, or the loop has ended.
Finished(c) == c.open = {}

\* The positions the store may execute at one go.  Commands of one key keep
\* their order on a pipeline.
Servable(c, r) ==
  CASE c.plan.reqs[r].kind = "whole" -> {c.left[r]}
    [] c.plan.reqs[r].kind = "each"  ->
         {{p} : p \in {p \in c.left[r] : \A q \in c.left[r] : c.keys[q] = c.keys[p] => p <= q}}
    [] c.plan.reqs[r].kind = "part"  -> SUBSET c.left[r]

\* What the store holds once the positions in ps were executed in order.
Executed(c, ps) ==
  [k \in Key |->
     LET mine == {p \in ps : c.keys[p] = k}
     IN  IF c.op = "get" \/ mine = {} THEN store[k]
         ELSE IF c.op = "delete" THEN NoValue
         ELSE c.vals[CHOOSE p \in mine : \A q \in mine : q <= p]]

\* Variant: the answers are paired with the keys of the batch from its far end.
ReadBackwards(c, ps) ==
  {<<c.keys[Len(c.keys) + 1 - p], store[c.keys[p]]>> : p \in {p \in ps : store[c.keys[p]] # NoValue}}

\* The pairs a read returns for the positions in ps: misses are left out.
Read(c, ps) == {<<c.keys[p], store[c.keys[p]]>> : p \in {p \in ps : store[c.keys[p]] # NoValue}}

\* Variant: the attempt counter starts over.
AfterTryForgotten(n) == (n + 1) % 2

\* The attempt counter of a chunk.
AfterTry(n) == n + 1

\* A worker of the call is done with request r and claims the next one, unless
\* the call is halted.  Of a call that is over only the outcome matters.
Closed(c, r, failed) ==
  LET goesOn == c.next < Len(c.plan.reqs) /\ ~(c.plan.halts /\ (failed \/ c.failed))
      closed == [c EXCEPT !.open = (@ \ {r}) \union (IF goesOn THEN {c.next + 1} ELSE {}),
                          !.next = IF goesOn THEN @ + 1 ELSE @,
                          !.failed = @ \/ failed]
  IN  IF Finished(closed)
      THEN [closed EXCEPT !.plan = <<>>, !.left = <<>>, !.tries = <<>>, !.next = 0, !.vals = <<>>]
      ELSE closed
-----------------------------------------------------------------------------
L2Init(values) ==
  /\ store \in values
  /\ adrift = {}
  /\ faults = 0

\* The store executes the positions in ps of request r.  The rest of a partly
\* processed request is tried again a bounded number of times.
Serve(a, r, ps) ==
  LET c == call[a]
      tries == IF c.plan.reqs[r].kind = "part" THEN AfterTry(c.tries[r]) ELSE c.tries[r]
      rest == c.left[r] \ ps
      served == [c EXCEPT !.left[r] = rest, !.tries[r] = tries,
                          !.got = IF c.op = "get" THEN @ \union Read(c, ps) ELSE @]
  IN  /\ store' = Executed(c, ps)
      /\ call' = [call EXCEPT ![a] =
                    CASE rest = {}               -> Closed(served, r, FALSE)
                      [] tries > MaxBatchRetries -> Closed(served, r, TRUE)
                      [] OTHER                   -> served]
      /\ UNCHANGED <<adrift, faults>>

\* Request r fails: an error, a panic that is recovered as one, a value that
\* cannot be encoded or decoded, a reply that never came.  Some of what was
\* read is returned, and some of what was not executed may be later.
Fail(a, r) ==
  LET c == call[a]
  IN  /\ faults < MaxFaults
      /\ faults' = faults + 1
      /\ \E kept \in SUBSET c.got, late \in SUBSET c.left[r] :
           /\ c.op = "get" => late = {}
           /\ adrift' = adrift \union
                {<<c.keys[p], IF c.op = "set" THEN c.vals[p] ELSE NoValue>> : p \in late}
           /\ call' = [call EXCEPT ![a] = Closed([c EXCEPT !.got = kept], r, TRUE)]
      /\ UNCHANGED store

\* A worker of runConcurrent that has not begun with its request finds that
\* another one has failed.
Skip(a, r) ==
  LET c == call[a]
  IN  /\ c.failed /\ c.plan.halts /\ c.left[r] = ToSet(c.plan.reqs[r].at)
      /\ call' = [call EXCEPT ![a] = Closed(c, r, TRUE)]
      /\ UNCHANGED <<store, adrift, faults>>

\* A write of a failed request is carried out after all.
Drift(w) ==
  /\ adrift' = adrift \ {w}
  /\ store' = [store EXCEPT ![w[1]] = w[2]]
  /\ UNCHANGED <<call, faults>>
=============================================================================
