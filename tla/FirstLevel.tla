----------------------------- MODULE FirstLevel -----------------------------
(***************************************************************************)
(* What a shard of the first level promises its callers: a map from keys   *)
(* to values that may lose an entry at any time (eviction, expiration), in *)
(* which an operation changes one key, and which reports every value that  *)
(* leaves it through OnDeletion, with the step that removes it.            *)
(***************************************************************************)
EXTENDS Integers

CONSTANTS Key, Value, NoValue

VARIABLES content, \* content[k]: the value a Get of k sees, or NoValue
          owed     \* owed[<<k, v>>]: stores of v under k less its OnDeletion calls

Init == /\ content = [k \in Key |-> NoValue]
        /\ owed = [e \in Key \X Value |-> 0]

\* The account after the value of k, if there is one, was reported.
Report(k) == IF content[k] = NoValue THEN owed
                                     ELSE [owed EXCEPT ![<<k, content[k]>>] = @ - 1]

Put(k, v) == /\ content' = [content EXCEPT ![k] = v]
             /\ owed' = [Report(k) EXCEPT ![<<k, v>>] = @ + 1]

Drop(k) == /\ content[k] # NoValue
           /\ content' = [content EXCEPT ![k] = NoValue]
           /\ owed' = Report(k)

Next == \E k \in Key : Drop(k) \/ \E v \in Value : Put(k, v)

Spec == Init /\ [][Next]_<<content, owed>>
=============================================================================
