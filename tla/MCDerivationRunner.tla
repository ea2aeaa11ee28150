------------------------ MODULE MCDerivationRunner ------------------------
(***************************************************************************)
(* Instances of the derivation runner for TLC: up to three batches of one  *)
(* or two blocks, and up to two restarts.                                  *)
(***************************************************************************)
EXTENDS DerivationRunner
=============================================================================
