--------------------------- MODULE MCSingleflight ---------------------------
(***************************************************************************)
(* A small instance of Singleflight: two goroutines that call any of the   *)
(* four operations, two keys, a bucket with one slot.                      *)
(***************************************************************************)
EXTENDS Singleflight

CONSTANTS ka, kb, p1, p2

Single(op, k) == [op |-> op, keys |-> <<k>>]

\* Every operation, on one key.
OneKeyCalls == {Single(op, ka) : op \in Ops}

\* Batches that own and join each other's keys, and a batch with a duplicate.
CrossedCalls == {[op |-> "batch", keys |-> <<ka, kb>>], [op |-> "batch", keys |-> <<kb, ka>>],
                 [op |-> "batch", keys |-> <<ka, ka>>], [op |-> "brefresh", keys |-> <<kb, ka>>]}

AllCalls == OneKeyCalls \union CrossedCalls
=============================================================================
