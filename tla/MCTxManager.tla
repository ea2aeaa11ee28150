---------------------------- MODULE MCTxManager ----------------------------
(***************************************************************************)
(* Instances of the transaction manager for TLC.                           *)
(***************************************************************************)
EXTENDS TxManager, TLC

CONSTANTS s1, s2

TwoSenders == {s1, s2}

(* One confirmation and two tolerated errors instead of ten and three;     *)
(* tips large enough that a percentage is felt.                            *)
SmallConfig ==
    Build([num_confirmations |-> 1, safe_abort_nonce_too_low_count |-> 2, min_tip_cap |-> 10])

(* The sender of calldata brings its own caps, with a fee cap that does    *)
(* not fit the word and is cut to the tip or below it, or with fees that   *)
(* ten percent do not raise.  The other sender asks the oracle.            *)
SomeOwnCaps ==
    s1 :> {[tip |-> 10, fee |-> 74, blob |-> None],
           [tip |-> 10, fee |-> 70, blob |-> None],
           [tip |-> 9, fee |-> 9, blob |-> None]}
    @@ s2 :> {}

HeaderExcesses == {6}
=============================================================================
