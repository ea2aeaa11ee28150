-------------------------- MODULE OrderedBatchLog --------------------------
(***************************************************************************)
(* What montana promises about the data-availability log on L1: batches    *)
(* are posted one at a time and never changed, each one is a non-empty     *)
(* range of L2 blocks, and each one continues the previous one, in its     *)
(* number and in its blocks, without a gap, a repetition or a reordering.  *)
(* Derivation (crates/node/roles/src/validator.rs) reads this log from the *)
(* front and has no other source of blocks.                                *)
(***************************************************************************)
EXTENDS Naturals, Sequences

VARIABLE log    \* sequence of [num, first, last]

Entry == [num : Nat, first : Nat, last : Nat]

Init == log = << >>

(* e may be posted after the entries of s.  The first entry of a log may   *)
(* start anywhere: a sequencer that resumes starts behind its checkpoint.  *)
Continues(s, e) ==
    /\ e.first <= e.last
    /\ s # << >> => /\ e.num   = s[Len(s)].num + 1
                    /\ e.first = s[Len(s)].last + 1

Post ==
    /\ Len(log') = Len(log) + 1
    /\ SubSeq(log', 1, Len(log)) = log
    /\ Continues(log, log'[Len(log')])

Spec == Init /\ [][Post]_log
=============================================================================
