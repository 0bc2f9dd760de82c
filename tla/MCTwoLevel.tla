----------------------------- MODULE MCTwoLevel -----------------------------
(***************************************************************************)
(* TLC instance of TwoLevel: one client calls the batch operations, the    *)
(* other the single ones on the key both share.                            *)
(***************************************************************************)
EXTENDS TwoLevel

CONSTANTS k1, k2, ca, cb

MCCalls == [c \in Client |->
  IF c = ca THEN {<<op, <<k1, k2>>>> : op \in {"get", "set", "delete", "load"}} \union {<<"set", <<k1, k1>>>>}
  ELSE {<<op, <<k1>>>> : op \in {"get", "set", "delete", "load", "refresh"}}]

MCFilled == {[k \in Key |-> IF k = k1 THEN <<k, 0>> ELSE NoValue]}
=============================================================================
