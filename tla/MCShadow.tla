----------------------------- MODULE MCShadow -----------------------------
(***************************************************************************)
(* Instances of the shadow binary for TLC: a chain of up to three blocks,  *)
(* batches of up to two, one failed submission and up to two keys.         *)
(***************************************************************************)
EXTENDS Shadow
=============================================================================
