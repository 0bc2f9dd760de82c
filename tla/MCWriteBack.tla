---------------------------- MODULE MCWriteBack ----------------------------
(***************************************************************************)
(* Small instances of WriteBack: two keys, one or two workers, a queue of  *)
(* one to three tasks and batches of at most two.                          *)
(***************************************************************************)
EXTENDS WriteBack

CONSTANTS ka, kb, caller, c2, waiter

OneWorker == [k \in Key |-> 1]
=============================================================================
