------------------------------- MODULE MCNode -------------------------------
(***************************************************************************)
(* Instances of the node for TLC: both roles, with and without the sync    *)
(* stage, with both kinds of L1, over a short chain and three starts.      *)
(***************************************************************************)
EXTENDS Node
=============================================================================
