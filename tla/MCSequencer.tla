---------------------------- MODULE MCSequencer ----------------------------
(***************************************************************************)
(* Instances of the sequencer role for TLC.  The thresholds and maxima     *)
(* keep the order of the code's (10/50/200 blocks, batches of up to        *)
(* 25/50/100) scaled down to a chain of a few blocks.                      *)
(***************************************************************************)
EXTENDS Sequencer
=============================================================================
