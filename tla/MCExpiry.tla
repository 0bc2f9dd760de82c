------------------------------ MODULE MCExpiry ------------------------------
(***************************************************************************)
(* Small instances of Expiry: a scale of 8 to 16 units in place of 2^18.   *)
(***************************************************************************)
EXTENDS Expiry
=============================================================================
