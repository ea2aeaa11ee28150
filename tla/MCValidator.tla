---------------------------- MODULE MCValidator ----------------------------
(* A chain of five blocks in three batches: a deposit and a contract       *)
(* creation; a call of it, a call of an account that is not there and a    *)
(* creation that collides; a contract that lives for one transaction; a    *)
(* creation at its address; and a call of it that stores a block hash.     *)
EXTENDS Validator

CONSTANTS alice, shop, ghost

MCAccount == {alice, shop, ghost}
MCGenesis ==
    [accounts |-> (alice :> [nonce |-> 0, balance |-> 2, code |-> NoCode]), storage |-> <<>>]
T(kind, to, n) == [kind |-> kind, from |-> alice, to |-> to, nonce |-> n]
MCChain ==
    <<<<T("deposit", alice, 0), T("create", shop, 1)>>,
      <<T("call", shop, 2), T("call", ghost, 3), T("create", shop, 4)>>,
      <<T("deposit", alice, 0), T("flash", ghost, 6)>>,
      <<T("create", ghost, 7)>>, <<T("stamp", ghost, 8)>>>>
MCTimestamp == <<3, 7, 12, 12, 13>>
MCActivation == <<0, 2, 3, 7, 9, 9, 12, 13, 99>>
MCBatches == <<[first |-> 1, last |-> 2], [first |-> 3, last |-> 3], [first |-> 4, last |-> 5]>>

(* The batches of this instance are the ones the proofs are about.         *)
ASSUME BatchesAssumption == BatchesTile /\ BatchesInOrder
=============================================================================
