----------------------------- MODULE MCPolicies -----------------------------
(***************************************************************************)
(* Three slots under each of the four policies.  A policy never looks at a *)
(* slot's number, so slots are symmetric.                                  *)
(***************************************************************************)
EXTENDS EvictionPolicies, TLC

CONSTANTS s1, s2, s3

MCSlot == {s1, s2, s3}
MCSymmetry == Permutations(MCSlot)
=============================================================================
