----------------------------- MODULE MCReaders -----------------------------
(***************************************************************************)
(* A small instance of Readers.                                            *)
(***************************************************************************)
EXTENDS Readers

CONSTANTS k1, k2, k3, light, heavy

\* k1 and k2 share the home slot of a table of 4 and their tag; k3 sits next to
\* their home, where a displaced one of them goes.
MCHash == [k \in Key |-> CASE k = k1 -> 3 [] k = k2 -> 7 [] k = k3 -> 0]

MCTag == [k \in Key |-> IF k = k3 THEN 1 ELSE 0]

\* k1, the key that is looked up, changes its value.
MCStores == {<<k1, light>>, <<k1, heavy>>, <<k2, light>>, <<k3, light>>}

MCCost == [v \in Value |-> IF v = light THEN 1 ELSE 2]
=============================================================================
