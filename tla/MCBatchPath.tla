---------------------------- MODULE MCBatchPath ----------------------------
EXTENDS BatchPath

(* Two blocks fill a batch; the second is large enough on its own.        *)
MCConfig == Build([max_blocks_per_batch |-> 2, min_batch_size |-> 2])
MCSize == <<1, 2, 1, 1>>
=============================================================================
