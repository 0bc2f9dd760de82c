------------------------------- MODULE MCItem -------------------------------
(***************************************************************************)
(* Small instance of Item: values of two words without a TTL, and values   *)
(* of one word whose TTL reads extend.                                     *)
(***************************************************************************)
EXTENDS Item, TLC

CONSTANTS r1, k1, k2, v1, v2

MCBuilds == {[word |-> {"lo", "hi"}, offset |-> {0}, refreshOnGet |-> FALSE],
             [word |-> {"lo"}, offset |-> {1, 2}, refreshOnGet |-> TRUE]}

\* Keys and values are interchangeable (no liveness is checked).
Symmetric == Permutations({k1, k2}) \cup Permutations({v1, v2})
=============================================================================
