--------------------------- MODULE MCBatchRunner ---------------------------
(***************************************************************************)
(* Instances of the batch runner for TLC: a chain of six blocks and        *)
(* batches of up to three, so that rounds meet left-over blocks, the head  *)
(* exactly and the head moving.                                            *)
(***************************************************************************)
EXTENDS BatchRunner
=============================================================================
