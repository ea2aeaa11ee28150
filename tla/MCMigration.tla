----------------------------- MODULE MCMigration -----------------------------
(* Four states of a Reth database: an old one, the one after a block that    *)
(* pays account 2, deletes a slot of it and creates account 3 with a slot,   *)
(* and two damaged ones.                                                     *)
EXTENDS Migration

Acc(nonce, balance, code) == [nonce |-> nonce, balance |-> balance, code |-> code]
Old == [accounts |-> 1 :> Acc(0, 300, NoHash) @@ 2 :> Acc(258, 70000, Hash(7)),
        slots    |-> <<2, Hash(1)>> :> 5 @@ <<2, Hash(2)>> :> 513]
New == [accounts |-> 1 :> Acc(1, 0, NoHash) @@ 2 :> Acc(258, 70300, Hash(7))
                       @@ 3 :> Acc(1, 0, Hash(9)),
        slots    |-> <<2, Hash(1)>> :> 6 @@ <<3, Hash(1)>> :> 66051]
MCNames == {"old", "new", "cut", "wide"}
MCWorld == [n \in MCNames |-> IF n = "new" THEN New ELSE Old]

Entry(key, value) == [key |-> key, value |-> value]
Accounts(w) ==
    LET as == SetToSortSeq(DOMAIN w.accounts, <)
    IN  [i \in DOMAIN as |-> Entry(as[i], EncodeAccount(w.accounts[as[i]]))]
Before(j, k) == j[1] < k[1] \/ (j[1] = k[1] /\ j[2][32] < k[2][32])
Slots(w) ==
    LET ks == SetToSortSeq(DOMAIN w.slots, Before)
    IN  [i \in DOMAIN ks |-> Entry(ks[i][1], EncodeEntry(ks[i][2], w.slots[ks[i]]))]

(* In "cut" an account lost its second flag byte, another its last byte, one *)
(* slot is short and one value too long; in "wide" a nonce claims 9 bytes.   *)
MCAccountTable == [n \in MCNames |->
    CASE n = "cut" -> <<Entry(1, <<0>>)>> \o <<Accounts(Old)[2]>>
                        \o <<Entry(3, Front(EncodeAccount(New.accounts[2])))>>
      [] n = "wide" -> <<Accounts(Old)[1], Entry(2, <<9, 0>> \o [i \in 1..9 |-> 0])>>
      [] OTHER -> Accounts(MCWorld[n])]
MCStorageTable == [n \in MCNames |->
    CASE n = "cut" -> <<Slots(Old)[1], Entry(2, Front(Hash(2))),
                        Entry(2, Hash(3) \o [i \in 1..33 |-> IF i = 3 THEN 1 ELSE 0])>>
      [] OTHER -> Slots(MCWorld[n])]
MCCommits == {<<"old", "new">>}
MCConfigs == {[batch_size |-> b, log_interval |-> 1] : b \in {0, 1, 2, 10}}
               \cup {[batch_size |-> 2, log_interval |-> 0]}
=============================================================================
