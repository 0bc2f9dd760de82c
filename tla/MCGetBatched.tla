---------------------------- MODULE MCGetBatched ----------------------------
(***************************************************************************)
(* A small instance of GetBatched: two callers with three calls between    *)
(* them, one worker, a queue of one and two slots.                         *)
(***************************************************************************)
EXTENDS GetBatched

CONSTANTS ka, kb, c1, c2, w1, s1, s2

\* Keys are alike: c1 asks for one of them, c2 for the same one or another.
MCWanted == [c \in Caller |-> IF c = c1 THEN {ka} ELSE {ka, kb}]
=============================================================================
