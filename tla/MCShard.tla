------------------------------ MODULE MCShard ------------------------------
(***************************************************************************)
(* Small instances of Shard.                                               *)
(***************************************************************************)
EXTENDS Shard

CONSTANTS k1, k2, k3, k4, light, heavy, huge

\* k1, k2 and k4 collide in a table of 4, where their probes wrap around the
\* end; k2 parts from them in one of 8.  k3 sits next to their home.
MCHash == [k \in Key |-> CASE k = k1 -> 3 [] k = k2 -> 7 [] k = k3 -> 2 [] k = k4 -> 11]

MCCost == [v \in Value |-> CASE v = light -> 1 [] v = heavy -> 2 [] v = huge -> 3]
=============================================================================
