-------------------------- MODULE TxManagerProofs --------------------------
(***************************************************************************)
(* Proofs about the transaction manager, for every set of senders, every   *)
(* configuration and every bound: the fee arithmetic stays in its types,   *)
(* the nonce tracker hands a nonce out once between two resets, what a     *)
(* send reports is what became of its transaction, and through every bump  *)
(* the caps stay ordered and are raised enough.                            *)
(***************************************************************************)
EXTENDS TxManager, TLAPS, FiniteSetTheorems, SequenceTheorems, WellFoundedInduction

-----------------------------------------------------------------------------
(* Recursion on natural numbers, stated with sets and functions.           *)

(* Induction: a set with 0 that is closed under successor has every        *)
(* natural number.                                                         *)
LEMMA SetInduction ==
    ASSUME NEW S, 0 \in S, \A n \in Nat : n \in S => n + 1 \in S
    PROVE  Nat \subseteq S
<1> DEFINE T == Nat \ S
           R == OpToRel(<, Nat)
<1> SUFFICES ASSUME T # {} PROVE FALSE
  OBVIOUS
<1>1. IsWellFoundedOn(R, Nat)
  BY NatLessThanWellFounded
<1>2. \A y, x \in Nat : y < x => <<y, x>> \in R
  BY DEF OpToRel
<1> HIDE DEF R
<1>3. PICK x \in T : \A y \in T : ~(<<y, x>> \in R)
  BY <1>1, WFMin
<1>4. x # 0 /\ x \in Nat
  OBVIOUS
<1>5. x - 1 \in Nat /\ x - 1 < x /\ (x - 1) + 1 = x
  BY <1>4
<1>6. x - 1 \notin T
  BY <1>2, <1>3, <1>4, <1>5
<1> QED BY <1>4, <1>5, <1>6

(* A function that starts in V and stays in V takes its values in V.       *)
LEMMA RecursionTyped ==
    ASSUME NEW N \in Nat, NEW V, NEW f, f[0] \in V,
           \A i \in 1..N : f[i - 1] \in V => f[i] \in V
    PROVE  \A i \in 0..N : f[i] \in V
<1> DEFINE S == {n \in Nat : n <= N => f[n] \in V}
<1>1. 0 \in S
  OBVIOUS
<1>2. ASSUME NEW n \in Nat, n \in S PROVE n + 1 \in S
  <2> SUFFICES ASSUME n + 1 <= N PROVE f[n + 1] \in V
    OBVIOUS
  <2>1. n <= N /\ n + 1 \in 1..N /\ (n + 1) - 1 = n
    OBVIOUS
  <2>2. f[n] \in V
    BY <1>2, <2>1
  <2>3. f[(n + 1) - 1] \in V
    BY <2>1, <2>2
  <2> QED BY <2>1, <2>3
<1> HIDE DEF S
<1>3. Nat \subseteq S
  BY <1>1, <1>2, SetInduction
<1> QED BY <1>3 DEF S

(* Step functions of a recursion on 0..N with values in V, and whether a   *)
(* function starts with a and follows the steps of G.                      *)
Steps(N, V) == [1..N -> [V -> V]]

HasSolution(N, V, a, G) ==
    \E f \in [0..N -> V] : f[0] = a /\ \A i \in 1..N : f[i] = G[i][f[i - 1]]

(* Primitive recursion: each step function has its recursive function.     *)
LEMMA RecursionExists ==
    ASSUME NEW N \in Nat, NEW V, NEW a \in V, NEW G \in Steps(N, V)
    PROVE  HasSolution(N, V, a, G)
<1> DEFINE Upto(n) == \E f \in [0..n -> V] :
                         f[0] = a /\ \A i \in 1..n : f[i] = G[i][f[i - 1]]
           S == {n \in Nat : n <= N => Upto(n)}
<1>1. 0 \in S
  <2>1. /\ [i \in 0..0 |-> a] \in [0..0 -> V] /\ [i \in 0..0 |-> a][0] = a
        /\ 1..0 = {}
    OBVIOUS
  <2> QED BY <2>1
<1>2. ASSUME NEW n \in Nat, n \in S PROVE n + 1 \in S
  <2> SUFFICES ASSUME n + 1 <= N PROVE Upto(n + 1)
    OBVIOUS
  <2>1. n <= N /\ n + 1 \in 1..N
    OBVIOUS
  <2>2. PICK f \in [0..n -> V] :
            f[0] = a /\ \A i \in 1..n : f[i] = G[i][f[i - 1]]
    BY <1>2, <2>1
  <2> DEFINE g == [i \in 0..(n + 1) |-> IF i = n + 1 THEN G[n + 1][f[n]] ELSE f[i]]
  <2>3. f[n] \in V /\ G[n + 1] \in [V -> V] /\ G[n + 1][f[n]] \in V
    BY <2>1 DEF Steps
  <2>4. \A i \in 0..(n + 1) : i = n + 1 \/ i \in 0..n
    OBVIOUS
  <2>5. g \in [0..(n + 1) -> V]
    BY <2>3, <2>4
  <2>6. /\ \A i \in 0..n : g[i] = f[i]
        /\ g[n + 1] = G[n + 1][f[n]]
    OBVIOUS
  <2> HIDE DEF g
  <2>7. g[0] = a
    BY <2>2, <2>6
  <2>8. ASSUME NEW i \in 1..(n + 1) PROVE g[i] = G[i][g[i - 1]]
    <3>1. CASE i = n + 1
      <4>1. i - 1 = n /\ n \in 0..n
        BY <3>1
      <4> QED BY <2>6, <3>1, <4>1
    <3>2. CASE i \in 1..n
      <4>1. i \in 0..n /\ i - 1 \in 0..n
        BY <3>2
      <4> QED BY <2>2, <2>6, <3>2, <4>1
    <3> QED BY <3>1, <3>2
  <2> QED BY <2>5, <2>7, <2>8
<1> HIDE DEF S
<1>3. Nat \subseteq S
  BY <1>1, <1>2, SetInduction
<1> QED BY <1>3 DEF S, HasSolution

-----------------------------------------------------------------------------
(* Fees.                                                                   *)

(* Saturating arithmetic stays within the naturals.                        *)
LEMMA SaturatingType ==
    ASSUME NEW a \in Nat, NEW b \in Nat
    PROVE  SaturatingMul(a, b) \in Nat /\ SaturatingAdd(a, b) \in Nat
<1>1. \A x, y \in Nat : Min({x, y}) \in Nat
  <2> SUFFICES ASSUME NEW x \in Nat, NEW y \in Nat PROVE Min({x, y}) \in Nat
    OBVIOUS
  <2>1. \E z \in {x, y} : \A w \in {x, y} : z <= w
    OBVIOUS
  <2> QED BY <2>1 DEF Min
<1>2. a * b \in Nat /\ a + b \in Nat
  OBVIOUS
<1> QED BY <1>1, <1>2, GasAssumption DEF SaturatingMul, SaturatingAdd

(* fake_exponential: the terms and the partial sums are defined and are    *)
(* natural numbers, and so is what the loop returns.                       *)
LEMMA FakeExponentialType ==
    ASSUME NEW factor \in Nat, NEW numerator \in Nat, NEW denominator \in Nat \ {0}
    PROVE  FakeExponential(factor, numerator, denominator) \in Nat
<1> DEFINE
        Term[i \in 0..MaxTerms] ==
            IF i = 0
            THEN SaturatingMul(factor, denominator)
            ELSE SaturatingMul(Term[i - 1], numerator) \div (denominator * i)
        Output[i \in 0..MaxTerms] ==
            IF i = 0 THEN 0 ELSE SaturatingAdd(Output[i - 1], Term[i - 1])
<1>1. FakeExponential(factor, numerator, denominator) = Output[MaxTerms] \div denominator
  BY DEF FakeExponential
<1>2. MaxTerms \in Nat /\ MaxTerms \in 0..MaxTerms
  BY GasAssumption
<1>3. \A v \in Nat, i \in Nat \ {0} :
         SaturatingMul(v, numerator) \div (denominator * i) \in Nat
  <2> SUFFICES ASSUME NEW v \in Nat, NEW i \in Nat \ {0}
               PROVE  SaturatingMul(v, numerator) \div (denominator * i) \in Nat
    OBVIOUS
  <2>1. SaturatingMul(v, numerator) \in Nat
    BY SaturatingType
  <2>2. denominator * i \in Nat \ {0}
    OBVIOUS
  <2>3. \A x \in Nat, y \in Nat \ {0} : x \div y \in Nat
    OBVIOUS
  <2> QED BY <2>1, <2>2, <2>3
<1>4. SaturatingMul(factor, denominator) \in Nat
  BY SaturatingType
<1>5. Term = [i \in 0..MaxTerms |->
                IF i = 0
                THEN SaturatingMul(factor, denominator)
                ELSE SaturatingMul(Term[i - 1], numerator) \div (denominator * i)]
  <2> DEFINE G == [i \in 1..MaxTerms |-> [v \in Nat |->
                      SaturatingMul(v, numerator) \div (denominator * i)]]
  <2>1. G \in [1..MaxTerms -> [Nat -> Nat]]
    BY <1>3
  <2>2. PICK f \in [0..MaxTerms -> Nat] :
           /\ f[0] = SaturatingMul(factor, denominator)
           /\ \A i \in 1..MaxTerms : f[i] = G[i][f[i - 1]]
    <3>1. G \in Steps(MaxTerms, Nat)
      BY <2>1 DEF Steps
    <3> HIDE DEF G
    <3>2. HasSolution(MaxTerms, Nat, SaturatingMul(factor, denominator), G)
      BY <1>2, <1>4, <3>1, RecursionExists
    <3> QED BY <3>2 DEF HasSolution
  <2>3. ASSUME NEW i \in 1..MaxTerms
        PROVE  f[i] = SaturatingMul(f[i - 1], numerator) \div (denominator * i)
    <3>1. i - 1 \in 0..MaxTerms
      BY <1>2
    <3> QED BY <2>2, <3>1
  <2>4. \A i \in 0..MaxTerms : i = 0 \/ i \in 1..MaxTerms
    OBVIOUS
  <2> DEFINE r == [i \in 0..MaxTerms |->
                     IF i = 0
                     THEN SaturatingMul(factor, denominator)
                     ELSE SaturatingMul(f[i - 1], numerator) \div (denominator * i)]
  <2>5. \A i \in 0..MaxTerms : f[i] = r[i]
    BY <2>2, <2>3, <2>4
  <2>6. f = r
    BY <2>5
  <2>7. \E h : h = [i \in 0..MaxTerms |->
                     IF i = 0
                     THEN SaturatingMul(factor, denominator)
                     ELSE SaturatingMul(h[i - 1], numerator) \div (denominator * i)]
    BY <2>6, Zenon
  <2> QED BY <2>7, Zenon
<1> HIDE DEF Term
<1>6. \A i \in 0..MaxTerms : Term[i] \in Nat
  <2>1. Term[0] \in Nat
    BY <1>2, <1>4, <1>5
  <2>2. ASSUME NEW i \in 1..MaxTerms, Term[i - 1] \in Nat PROVE Term[i] \in Nat
    <3>1. Term[i] = SaturatingMul(Term[i - 1], numerator) \div (denominator * i)
      BY <1>2, <1>5
    <3> QED BY <1>3, <2>2, <3>1
  <2> QED BY <1>2, <2>1, <2>2, RecursionTyped
<1>7. Output = [i \in 0..MaxTerms |->
                  IF i = 0 THEN 0 ELSE SaturatingAdd(Output[i - 1], Term[i - 1])]
  <2> DEFINE G == [i \in 1..MaxTerms |-> [v \in Nat |->
                      SaturatingAdd(v, Term[i - 1])]]
  <2>1. G \in [1..MaxTerms -> [Nat -> Nat]]
    <3>1. \A i \in 1..MaxTerms : i - 1 \in 0..MaxTerms
      BY <1>2
    <3>2. \A i \in 1..MaxTerms, v \in Nat : SaturatingAdd(v, Term[i - 1]) \in Nat
      BY <1>6, <3>1, SaturatingType
    <3> QED BY <3>2
  <2>2. PICK f \in [0..MaxTerms -> Nat] :
           f[0] = 0 /\ \A i \in 1..MaxTerms : f[i] = G[i][f[i - 1]]
    <3>1. G \in Steps(MaxTerms, Nat)
      BY <2>1 DEF Steps
    <3> HIDE DEF G
    <3>2. 0 \in Nat
      OBVIOUS
    <3>3. HasSolution(MaxTerms, Nat, 0, G)
      BY <1>2, <3>1, <3>2, RecursionExists
    <3> QED BY <3>3 DEF HasSolution
  <2>3. ASSUME NEW i \in 1..MaxTerms
        PROVE  f[i] = SaturatingAdd(f[i - 1], Term[i - 1])
    <3>1. i - 1 \in 0..MaxTerms
      BY <1>2
    <3> QED BY <2>2, <3>1
  <2>4. \A i \in 0..MaxTerms : i = 0 \/ i \in 1..MaxTerms
    OBVIOUS
  <2> DEFINE r == [i \in 0..MaxTerms |->
                     IF i = 0 THEN 0 ELSE SaturatingAdd(f[i - 1], Term[i - 1])]
  <2>5. \A i \in 0..MaxTerms : f[i] = r[i]
    BY <2>2, <2>3, <2>4
  <2>6. f = r
    BY <2>5
  <2>7. \E h : h = [i \in 0..MaxTerms |->
                     IF i = 0 THEN 0 ELSE SaturatingAdd(h[i - 1], Term[i - 1])]
    BY <2>6, Zenon
  <2> QED BY <2>7, Zenon
<1> HIDE DEF Output
<1>8. \A i \in 0..MaxTerms : Output[i] \in Nat
  <2>1. Output[0] \in Nat
    BY <1>2, <1>7
  <2>2. ASSUME NEW i \in 1..MaxTerms, Output[i - 1] \in Nat
        PROVE  Output[i] \in Nat
    <3>1. Output[i] = SaturatingAdd(Output[i - 1], Term[i - 1])
      BY <1>2, <1>7
    <3>2. Term[i - 1] \in Nat
      BY <1>2, <1>6
    <3> QED BY <2>2, <3>1, <3>2, SaturatingType
  <2> QED BY <1>2, <2>1, <2>2, RecursionTyped
<1>9. \A x \in Nat, y \in Nat \ {0} : x \div y \in Nat
  OBVIOUS
<1> QED BY <1>1, <1>2, <1>8, <1>9

(* An absent value is no number and no sender.                             *)
LEMMA NoneApart == None \notin Nat /\ None \notin Sender
  BY TxAssumption DEF None

(* The fields the library reads are numbers.                               *)
LEMMA ConfigTypes ==
    /\ Config.num_confirmations \in Nat
    /\ Config.min_tip_cap \in Nat
    /\ Config.price_bump_percent \in Nat
    /\ Config.blob_price_bump_percent \in Nat
<1>1. {"num_confirmations", "min_tip_cap", "price_bump_percent",
       "blob_price_bump_percent"} \subseteq DOMAIN Defaults
  BY DEF Defaults
<1> QED BY <1>1, TxAssumption

(* suggest_gas_caps: the blob fee of a header is a number, or absent.      *)
LEMMA BlobFeeType == \A e \in Excesses : BlobFee[e] \in Nat \cup {None}
<1> SUFFICES ASSUME NEW e \in Excesses PROVE BlobFee[e] \in Nat \cup {None}
  OBVIOUS
<1>1. BlobFee[e] = IF e = None THEN None ELSE CalcBlobFee(e)
  BY DEF BlobFee, Optional
<1>2. ASSUME e # None PROVE CalcBlobFee(e) \in Nat
  <2>1. e \in Nat
    BY <1>2, TxAssumption
  <2>2. 1 \in Nat /\ BlobFraction \in Nat \ {0}
    BY GasAssumption
  <2> QED BY <2>1, <2>2, FakeExponentialType DEF CalcBlobFee
<1> QED BY <1>1, <1>2

(* Raising a number by a percentage gives a number.                        *)
LEMMA BumpedType ==
    ASSUME NEW v \in Nat, NEW p \in Nat
    PROVE  Bumped(v, p) \in Nat
<1>1. v * (100 + p) \in Nat
  OBVIOUS
<1>2. \A x \in Nat : x \div 100 \in Nat
  OBVIOUS
<1> QED BY <1>1, <1>2 DEF Bumped

(* The caps a sender prices its transaction with are caps.                 *)
LEMMA FirstCapsType ==
    ASSUME NEW s \in Sender, NEW c \in FirstCaps(s)
    PROVE  c \in GasCaps
<1>1. ASSUME NEW base \in BaseFees, NEW excess \in Excesses
      PROVE  SuggestGasCaps(base, BlobFee[excess], Config.min_tip_cap) \in GasCaps
  <2>1. base \in Nat /\ base + Config.min_tip_cap \in Nat
    BY ConfigTypes, TxAssumption
  <2> QED BY <2>1, ConfigTypes, BlobFeeType DEF SuggestGasCaps, GasCaps
<1>2. ASSUME NEW own \in OwnCaps[s]
      PROVE  NewGasCaps(own.fee, own.tip, own.blob) \in GasCaps
  <2>1. \A x \in Nat : x % Word \in Nat
    BY GasAssumption
  <2>2. own \in GasCaps
    BY TxAssumption
  <2>3. own.fee \in Nat /\ own.tip \in Nat /\ own.blob \in Nat \cup {None}
    BY <2>2 DEF GasCaps
  <2> QED BY <2>1, <2>3 DEF NewGasCaps, Optional, GasCaps
<1> QED BY <1>1, <1>2 DEF FirstCaps

(* Bumped caps are caps.                                                   *)
LEMMA BumpGasCapsType ==
    ASSUME NEW c \in GasCaps, NEW p \in Nat
    PROVE  BumpGasCaps(c, p) \in GasCaps
<1>1. Bumped(c.tip, p) \in Nat /\ Bumped(c.fee, p) \in Nat
  BY BumpedType DEF GasCaps
<1>2. c.blob # None => Bumped(c.blob, p) \in Nat
  BY BumpedType DEF GasCaps
<1> QED BY <1>1, <1>2 DEF BumpGasCaps, Optional, GasCaps

(* A percentage raises the larger number to the larger number, and raises  *)
(* a number of which it is at least one.                                   *)
LEMMA BumpedOrder ==
    ASSUME NEW v \in Nat, NEW w \in Nat, NEW p \in Nat, NEW q \in Nat, v <= w, p <= q
    PROVE  Bumped(v, p) <= Bumped(w, q) /\ v <= Bumped(v, p)
<1>1. v * (100 + p) \in Nat /\ w * (100 + q) \in Nat /\ v * p \in Nat
  OBVIOUS
<1>2. v * (100 + p) <= w * (100 + p)
  OBVIOUS
<1>3. w * (100 + p) <= w * (100 + q)
  OBVIOUS
<1>4. v * (100 + p) <= w * (100 + q)
  BY <1>1, <1>2, <1>3
<1>5. v * 100 <= v * (100 + p)
  BY <1>1
<1>6. \A x, y \in Nat : x <= y => x \div 100 <= y \div 100
  OBVIOUS
<1>7. \A x \in Nat : (x * 100) \div 100 = x
  OBVIOUS
<1>8. v * 100 \in Nat
  OBVIOUS
<1>9. (v * (100 + p)) \div 100 <= (w * (100 + q)) \div 100
  BY <1>1, <1>4, <1>6
<1>10. (v * 100) \div 100 <= (v * (100 + p)) \div 100
  BY <1>1, <1>5, <1>6, <1>8
<1> QED BY <1>7, <1>9, <1>10 DEF Bumped

(* A percentage that comes to one or more raises a number.                 *)
LEMMA BumpedRaises ==
    ASSUME NEW v \in Nat, NEW q \in Nat, NEW p \in Nat, v * q >= 100, q <= p
    PROVE  Bumped(v, p) > v
<1>1. v * p \in Nat /\ v * q \in Nat /\ v * (100 + p) \in Nat
  OBVIOUS
<1>2. v * q <= v * p
  OBVIOUS
<1>3. v * (100 + p) = v * 100 + v * p
  OBVIOUS
<1>4. v * (100 + p) >= (v + 1) * 100
  BY <1>1, <1>2, <1>3
<1>5. \A x, y \in Nat : x >= (y + 1) * 100 => x \div 100 > y
  OBVIOUS
<1> QED BY <1>1, <1>4, <1>5 DEF Bumped

-----------------------------------------------------------------------------
(* The inductive invariant.                                                *)

(* The variables TypeOK says nothing of, and what a sender that has a      *)
(* nonce, or none, looks like.                                             *)
AuxOK ==
    /\ fetched \in [Sender -> Nat \cup {None}]
    /\ receipt \in [Sender -> Receipt]
    /\ heldEpoch \in [Sender -> Nat]
    /\ epoch \in Nat
    /\ faults \in Nat
    /\ \A i \in DOMAIN chain : IsFiniteSet(chain[i])
    /\ \A s \in Sender :
          /\ pc[s] \in {"idle", "asking"} => held[s] = None
          /\ pc[s] \notin {"idle", "asking", "resetting"} => held[s] # None

(* The tracker: only the sender that asks the chain holds the lock, and    *)
(* then nobody has a nonce; a nonce handed out since the last reset() is   *)
(* below the one that is next.                                             *)
NonceInv ==
    /\ \A s \in Sender : pc[s] = "asking" => lock = s /\ nonce = None
    /\ nonce = None => \A s \in Sender : held[s] = None
    /\ \A s \in Sender : heldEpoch[s] <= epoch
    /\ \A s \in Sender :
          held[s] # None /\ heldEpoch[s] = epoch => held[s] < nonce
    /\ NoncesUnique

(* A sender's transactions carry its name and its nonce; a receipt is for  *)
(* one of them.                                                            *)
SentInv ==
    \A s \in Sender :
        /\ pc[s] \in {"idle", "asking", "unpriced"} => sent[s] = {}
        /\ \A tx \in sent[s] : tx.from = s /\ tx.nonce = held[s]
        /\ pc[s] \in {"mined", "confirmed"} =>
              receipt[s].txs # {} /\ receipt[s].txs \subseteq sent[s]

(* The histories; all that L1 has of a sender it has sent, and could pay   *)
(* for; before the first reset() there is no earlier send.                 *)
PastInv ==
    /\ before \in [Sender -> SUBSET Tx]
    /\ unheard \in [Sender -> SUBSET Tx]
    /\ undone \in [Sender -> Undone]
    /\ \A tx \in pool \cup OnChain :
          tx \in sent[tx.from] \cup before[tx.from] /\ tx.caps.fee <= MaxFee
    /\ epoch = 0 => \A s \in Sender : before[s] = {}

(* The chain, over every reorganization: at most one transaction in a      *)
(* block, nonces that grow from block to block, and all of those below the *)
(* account's.                                                              *)
ChainInv ==
    /\ \A i \in DOMAIN chain : \A tx, ty \in chain[i] : tx = ty
    /\ \A i, j \in DOMAIN chain : i < j =>
          \A tx \in chain[i], ty \in chain[j] : tx.nonce < ty.nonce
    /\ \A tx \in OnChain : tx.nonce < AccountNonce
    /\ \A n \in Nat : n < AccountNonce => \E tx \in OnChain : tx.nonce = n

(* What a receipt says stays true as long as its block was not taken back  *)
(* while the sender waited, and, once confirmed, as long as no more blocks *)
(* were taken back than it was confirmed by.                               *)
InPlace(s) ==
    receipt[s].block \in DOMAIN chain /\ receipt[s].txs \subseteq chain[receipt[s].block]

ReceiptInv ==
    \A s \in Sender : ~ undone[s].receipt =>
        /\ pc[s] = "mined" => InPlace(s)
        /\ pc[s] = "confirmed" =>
              /\ Len(chain) + undone[s].since - receipt[s].block >= Config.num_confirmations
              /\ undone[s].since <= Config.num_confirmations => InPlace(s)

Inv == TypeOK /\ AuxOK /\ NonceInv /\ SentInv /\ PastInv /\ ChainInv /\ ReceiptInv

(* The steps in which nothing happens but that a call may fail.            *)
Quiet == UNCHANGED <<chain, pool, tracker, senders, epoch>>

LEMMA QuietSteps ==
    /\ UNCHANGED vars => Quiet
    /\ \A s \in Sender : ResetFails(s) \/ GetReceiptFails(s) \/ WaitForConfirmationsFails(s) => Quiet
<1>1. UNCHANGED vars => Quiet
  BY DEF Quiet, vars
<1>2. ASSUME NEW s \in Sender, ResetFails(s) \/ GetReceiptFails(s) \/ WaitForConfirmationsFails(s)
      PROVE  Quiet
  BY <1>2 DEF ResetFails, GetReceiptFails, WaitForConfirmationsFails, Quiet
<1> QED BY <1>1, <1>2

(* What is on the chain is finite, so the account's nonce is a number.     *)
LEMMA AccountNonceType ==
    ASSUME TypeOK, AuxOK
    PROVE  /\ IsFiniteSet(OnChain) /\ AccountNonce \in Nat
           /\ chain \in Seq(SUBSET Tx) /\ Len(chain) \in Nat
           /\ DOMAIN chain = 1..Len(chain)
<1>1. chain \in Seq(SUBSET Tx) /\ Len(chain) \in Nat /\ DOMAIN chain = 1..Len(chain)
  BY LenProperties DEF TypeOK
<1> DEFINE C == {chain[i] : i \in DOMAIN chain}
<1>2. IsFiniteSet(C)
  <2>1. IsFiniteSet(1..Len(chain))
    BY <1>1, FS_Interval
  <2> DEFINE f == [i \in 1..Len(chain) |-> chain[i]]
  <2>2. f \in Surjection(1..Len(chain), C)
    BY <1>1 DEF Surjection
  <2> HIDE DEF f, C
  <2> QED BY <2>1, <2>2, FS_Surjection
<1>3. \A T \in C : IsFiniteSet(T)
  BY DEF AuxOK
<1> HIDE DEF C
<1>4. IsFiniteSet(UNION C)
  BY <1>2, <1>3, FS_UNION
<1>5. IsFiniteSet(OnChain)
  BY <1>4 DEF C, OnChain
<1>6. AccountNonce \in Nat
  BY <1>5, FS_CardinalityType DEF AccountNonce
<1> QED BY <1>1, <1>5, <1>6

(* A send state keeps its type whatever is recorded in it.                 *)
LEMMA SendStateTypes ==
    ASSUME NEW st \in SendState, NEW tx \in Tx, NEW txs
    PROVE  /\ TxPublished(st) \in SendState /\ TxPublished(st).published > 0
           /\ TxMined(st, tx) \in SendState /\ TxMined(st, tx).published = st.published
           /\ TxNotMined(st, txs) \in SendState
           /\ TxNotMined(st, txs).published = st.published
<1>1. TxPublished(st) \in SendState /\ TxPublished(st).published > 0
  BY DEF SendState, TxPublished
<1>2. TxMined(st, tx) \in SendState /\ TxMined(st, tx).published = st.published
  BY DEF SendState, TxMined
<1>3. TxNotMined(st, txs) \in SendState /\ TxNotMined(st, txs).published = st.published
  <2>1. st.mined \ txs \in SUBSET Tx
    BY DEF SendState
  <2>2. (IF st.mined \ txs = {} THEN 0 ELSE st.tooLow) \in Nat
    BY DEF SendState
  <2> QED BY <2>1, <2>2 DEF SendState, TxNotMined
<1> QED BY <1>1, <1>2, <1>3

(* The same for what needs no transaction.                                 *)
LEMMA SendStateFlags ==
    ASSUME NEW st \in SendState
    PROVE  /\ NonceTooLow(st) \in SendState /\ NonceTooLow(st).published = st.published
           /\ SetBumpFees(st) \in SendState /\ SetBumpFees(st).published = st.published
           /\ TakeBumpFees(st) \in SendState /\ TakeBumpFees(st).published = st.published
           /\ NewSendState \in SendState
<1>1. NonceTooLow(st) \in SendState /\ NonceTooLow(st).published = st.published
  BY DEF SendState, NonceTooLow
<1>2. SetBumpFees(st) \in SendState /\ SetBumpFees(st).published = st.published
  <2> DEFINE more == st.bumps + 1
  <2>1. more \in Nat
    BY DEF SendState
  <2>2. SetBumpFees(st) = [st EXCEPT !.bump = TRUE, !.bumps = more]
    BY DEF SetBumpFees
  <2> HIDE DEF more
  <2>3. [st EXCEPT !.bump = TRUE] \in SendState
    BY DEF SendState
  <2>4. [[st EXCEPT !.bump = TRUE] EXCEPT !.bumps = more] \in SendState
    BY <2>1, <2>3 DEF SendState
  <2>5. /\ [[st EXCEPT !.bump = TRUE] EXCEPT !.bumps = more]
              = [st EXCEPT !.bump = TRUE, !.bumps = more]
        /\ [st EXCEPT !.bump = TRUE, !.bumps = more].published = st.published
    BY DEF SendState
  <2> QED BY <2>2, <2>4, <2>5
<1>3. TakeBumpFees(st) \in SendState /\ TakeBumpFees(st).published = st.published
  BY DEF SendState, TakeBumpFees
<1>4. NewSendState \in SendState
  BY DEF SendState, NewSendState
<1> QED BY <1>1, <1>2, <1>3, <1>4

(* The transaction a sender with a nonce builds.                           *)
LEMMA BuildRequestType ==
    ASSUME TypeOK, AuxOK, NEW s \in Sender, pc[s] = "priced"
    PROVE  /\ BuildRequest(s) \in Tx
           /\ BuildRequest(s).from = s /\ BuildRequest(s).nonce = held[s]
<1>1. held[s] \in Nat
  BY DEF TypeOK, AuxOK
<1>2. caps[s] \in GasCaps
  BY DEF TypeOK
<1>3. [caps[s] EXCEPT !.blob = None] \in GasCaps
  BY <1>2 DEF GasCaps
<1> QED BY <1>1, <1>2, <1>3 DEF BuildRequest, RequestCaps, Tx

(* A new block adds what is in it to the chain and keeps the rest.         *)
LEMMA ChainGrows ==
    ASSUME TypeOK, AuxOK, NEW B \in SUBSET Tx, IsFiniteSet(B),
           chain' = Append(chain, B)
    PROVE  /\ chain' \in Seq(SUBSET Tx)
           /\ Len(chain') = Len(chain) + 1
           /\ DOMAIN chain' = 1..(Len(chain) + 1)
           /\ \A i \in DOMAIN chain : i \in DOMAIN chain' /\ chain'[i] = chain[i]
           /\ \A i \in DOMAIN chain' : IsFiniteSet(chain'[i])
           /\ OnChain' = OnChain \cup B
<1>1. chain \in Seq(SUBSET Tx) /\ Len(chain) \in Nat /\ DOMAIN chain = 1..Len(chain)
  BY AccountNonceType
<1>2. /\ chain' \in Seq(SUBSET Tx) /\ Len(chain') = Len(chain) + 1
      /\ \A i \in 1..Len(chain) : chain'[i] = chain[i]
      /\ chain'[Len(chain) + 1] = B
  BY <1>1, AppendProperties
<1>3. DOMAIN chain' = 1..(Len(chain) + 1)
  BY <1>2, LenProperties
<1>4. \A i \in DOMAIN chain' : i \in DOMAIN chain \/ i = Len(chain) + 1
  BY <1>1, <1>3
<1>5. \A i \in DOMAIN chain : i \in DOMAIN chain' /\ chain'[i] = chain[i]
  BY <1>1, <1>2, <1>3
<1>6. Len(chain) + 1 \in DOMAIN chain'
  BY <1>1, <1>3
<1>7. \A i \in DOMAIN chain' : IsFiniteSet(chain'[i])
  BY <1>2, <1>4, <1>5 DEF AuxOK
<1>8. OnChain' = OnChain \cup B
  <2>1. OnChain' = UNION {chain'[i] : i \in DOMAIN chain'}
    BY DEF OnChain
  <2>2. ASSUME NEW x PROVE x \in OnChain' <=> x \in OnChain \cup B
    BY <1>2, <1>4, <1>5, <1>6, <2>1, Zenon DEF OnChain
  <2> QED BY <2>2
<1> QED BY <1>2, <1>3, <1>5, <1>7, <1>8

(* A reorganization leaves the blocks below the last one.                  *)
LEMMA ChainShrinks ==
    ASSUME TypeOK, AuxOK, chain # << >>,
           chain' = SubSeq(chain, 1, Len(chain) - 1)
    PROVE  /\ chain' \in Seq(SUBSET Tx)
           /\ \A i \in DOMAIN chain' : IsFiniteSet(chain'[i])
           /\ OnChain' \subseteq OnChain
           /\ chain[Len(chain)] \subseteq OnChain
           /\ chain[Len(chain)] \subseteq Tx
           /\ Len(chain) \in DOMAIN chain /\ Len(chain') = Len(chain) - 1
           /\ DOMAIN chain' = 1..(Len(chain) - 1)
           /\ \A i \in DOMAIN chain' : i \in DOMAIN chain /\ chain'[i] = chain[i]
           /\ OnChain = OnChain' \cup chain[Len(chain)]
<1>1. chain \in Seq(SUBSET Tx) /\ Len(chain) \in Nat /\ DOMAIN chain = 1..Len(chain)
  BY AccountNonceType
<1>2. Len(chain) # 0
  BY <1>1, EmptySeq
<1>3. Len(chain) \in DOMAIN chain /\ Len(chain) - 1 \in Nat
  BY <1>1, <1>2
<1>4. /\ chain' \in Seq(SUBSET Tx)
      /\ Len(chain') = Len(chain) - 1
      /\ \A i \in 1..(Len(chain) - 1) : chain'[i] = chain[i]
  <2>1. SubSeq(chain, 1, Len(chain) - 1) = [i \in 1..(Len(chain) - 1) |-> chain[i]]
    BY <1>1, <1>3
  <2> QED BY <1>1, <1>3, <2>1
<1>5. DOMAIN chain' = 1..(Len(chain) - 1)
  BY <1>4, LenProperties
<1>6. \A i \in DOMAIN chain' : i \in DOMAIN chain /\ chain'[i] = chain[i]
  BY <1>1, <1>3, <1>4, <1>5
<1>7. \A i \in DOMAIN chain' : IsFiniteSet(chain'[i])
  BY <1>6 DEF AuxOK
<1>8. OnChain' \subseteq OnChain
  <2>1. OnChain' = UNION {chain'[i] : i \in DOMAIN chain'}
    BY DEF OnChain
  <2> QED BY <1>6, <2>1, Zenon DEF OnChain
<1>9. chain[Len(chain)] \subseteq OnChain
  BY <1>3 DEF OnChain
<1>10. chain[Len(chain)] \in SUBSET Tx
  BY <1>1, <1>3, ElementOfSeq
<1>11. OnChain = OnChain' \cup chain[Len(chain)]
  <2>1. OnChain' = UNION {chain'[i] : i \in DOMAIN chain'}
    BY DEF OnChain
  <2>2. \A i \in DOMAIN chain : i = Len(chain) \/ i \in DOMAIN chain'
    BY <1>1, <1>3, <1>5
  <2>3. ASSUME NEW x \in OnChain PROVE x \in OnChain' \cup chain[Len(chain)]
    <3>1. PICK i \in DOMAIN chain : x \in chain[i]
      BY DEF OnChain
    <3> QED BY <1>6, <2>1, <2>2, <3>1
  <2> QED BY <1>8, <1>9, <2>3
<1> QED BY <1>3, <1>4, <1>5, <1>6, <1>7, <1>8, <1>9, <1>10, <1>11

(* A counted fault is a number.                                            *)
LEMMA FaultCounts == AuxOK /\ Fault => faults' \in Nat
  BY DEF AuxOK, Fault

(* An error of publish() changes the send state in type only and leads     *)
(* back to the next attempt, or to giving up.                              *)
LEMMA AfterErrorKeeps ==
    ASSUME TypeOK, NEW s \in Sender, NEW error, AfterError(s, error)
    PROVE  /\ sendState' \in [Sender -> SendState]
           /\ \A t \in Sender : sendState'[t].published = sendState[t].published
           /\ \E label \in {"aborted", "priced"} : pc' = [pc EXCEPT ![s] = label]
<1> DEFINE st == CASE error = "NonceTooLow" -> NonceTooLow(sendState[s])
                   [] error = "Underpriced" -> SetBumpFees(sendState[s])
                   [] OTHER -> sendState[s]
<1>1. sendState' = [sendState EXCEPT ![s] = st]
  BY DEF AfterError
<1>2. pc' = [pc EXCEPT ![s] = IF ShouldAbort(error, st) THEN "aborted" ELSE "priced"]
  BY DEF AfterError, Goto
<1>3. st \in SendState /\ st.published = sendState[s].published
  <2>1. sendState[s] \in SendState
    BY DEF TypeOK
  <2> QED BY <2>1, SendStateFlags
<1> HIDE DEF st
<1>4. \E label \in {"aborted", "priced"} : pc' = [pc EXCEPT ![s] = label]
  BY <1>2
<1>5. sendState' \in [Sender -> SendState]
  BY <1>1, <1>3 DEF TypeOK
<1>6. \A t \in Sender : sendState'[t].published = sendState[t].published
  BY <1>1, <1>3 DEF TypeOK
<1> QED BY <1>4, <1>5, <1>6

(* The invariant holds when nothing has been sent yet.                     *)
LEMMA InitInv == Init => Inv
<1> SUFFICES ASSUME Init PROVE Inv
  OBVIOUS
<1> USE DEF Init
<1>1. OnChain = {} /\ DOMAIN chain = {}
  BY DEF OnChain
<1>2. TypeOK
  <2>1. chain \in Seq(SUBSET Tx)
    OBVIOUS
  <2>2. [tip |-> 0, fee |-> 0, blob |-> None] \in GasCaps
    BY DEF GasCaps
  <2>3. NewSendState \in SendState
    BY DEF SendState, NewSendState
  <2> QED BY <2>1, <2>2, <2>3 DEF TypeOK
<1>3. AuxOK
  <2>1. NoReceipt \in Receipt
    BY DEF NoReceipt, Receipt
  <2> QED BY <1>1, <2>1 DEF AuxOK
<1>4. NonceInv
  BY DEF NonceInv, NoncesUnique
<1>5. SentInv
  BY DEF SentInv
<1>6. PastInv
  <2>1. NothingUndone \in Undone
    BY DEF NothingUndone, Undone
  <2> QED BY <1>1, <2>1 DEF PastInv
<1>7. ChainInv
  <2>1. AccountNonce = 0
    BY <1>1, FS_EmptySet DEF AccountNonce
  <2> QED BY <1>1, <2>1 DEF ChainInv
<1>8. ReceiptInv
  BY DEF ReceiptInv
<1> QED BY <1>2, <1>3, <1>4, <1>5, <1>6, <1>7, <1>8 DEF Inv

-----------------------------------------------------------------------------
(* Types.                                                                  *)

(* Every step keeps the types.                                             *)
LEMMA TypeStep ==
    ASSUME TypeOK, AuxOK, NonceInv, [Next]_vars
    PROVE  TypeOK' /\ AuxOK'
<1>1. AccountNonce \in Nat
  BY AccountNonceType
<1>2. CASE Mine
  <2>1. CASE \E tx \in Includable :
            /\ chain' = Append(chain, {tx})
            /\ pool' = pool \ {p \in pool : p.nonce = tx.nonce}
    <3>1. PICK tx \in Includable : /\ chain' = Append(chain, {tx})
                                   /\ pool' = pool \ {p \in pool : p.nonce = tx.nonce}
      BY <2>1
    <3>2. tx \in Tx
      BY DEF TypeOK, Includable
    <3>3. {tx} \in SUBSET Tx /\ IsFiniteSet({tx})
      BY <3>2, FS_Singleton
    <3>4. chain' \in Seq(SUBSET Tx) /\ \A i \in DOMAIN chain' : IsFiniteSet(chain'[i])
      BY <3>1, <3>3, ChainGrows
    <3>5. pool' \subseteq Tx
      BY <3>1 DEF TypeOK
    <3> QED BY <1>2, <3>4, <3>5 DEF Mine, TypeOK, AuxOK, tracker, senders
  <2>2. CASE chain' = Append(chain, {}) /\ pool' = pool
    <3>1. chain' \in Seq(SUBSET Tx) /\ \A i \in DOMAIN chain' : IsFiniteSet(chain'[i])
      BY <2>2, FS_EmptySet, ChainGrows
    <3> QED BY <1>2, <2>2, <3>1 DEF Mine, TypeOK, AuxOK, tracker, senders
  <2> QED BY <1>2, <2>1, <2>2 DEF Mine
<1>3. CASE Reorg
  <2>1. /\ chain' \in Seq(SUBSET Tx) /\ \A i \in DOMAIN chain' : IsFiniteSet(chain'[i])
        /\ chain[Len(chain)] \subseteq Tx
    BY <1>3, ChainShrinks DEF Reorg
  <2>2. pool' \subseteq Tx
    BY <1>3, <2>1 DEF Reorg, TypeOK
  <2>3. faults' \in Nat
    BY <1>3, FaultCounts DEF Reorg
  <2> QED BY <1>3, <2>1, <2>2, <2>3 DEF Reorg, TypeOK, AuxOK, tracker, senders
<1>4. ASSUME NEW s \in Sender, NEW n \in Nat, HandOut(s, n), lock' \in Sender \cup {None},
             pc[s] \in {"idle", "asking"},
             UNCHANGED <<chain, pool, caps, sendState, sent, fetched, receipt, epoch, faults>>
      PROVE  TypeOK' /\ AuxOK'
  <2>1. /\ nonce' = n + 1 /\ held' = [held EXCEPT ![s] = n]
        /\ heldEpoch' = [heldEpoch EXCEPT ![s] = epoch]
        /\ pc' = [pc EXCEPT ![s] = "unpriced"]
    BY <1>4 DEF HandOut, Goto
  <2>2. nonce' \in Nat
    BY <2>1
  <2>3. n # None
    BY NoneApart
  <2>4. TypeOK'
    BY <1>4, <2>1, <2>2 DEF TypeOK
  <2>5. AuxOK'
    BY <1>4, <2>1, <2>3 DEF TypeOK, AuxOK
  <2> QED BY <2>4, <2>5
<1>5. ASSUME NEW s \in Sender, NextNonceCached(s) PROVE TypeOK' /\ AuxOK'
  <2>1. nonce \in Nat /\ lock' \in Sender \cup {None}
    BY <1>5 DEF NextNonceCached, TypeOK
  <2> QED BY <1>4, <1>5, <2>1 DEF NextNonceCached
<1>6. ASSUME NEW s \in Sender, NextNonceAsk(s) PROVE TypeOK' /\ AuxOK'
  BY <1>6 DEF NextNonceAsk, Goto, TypeOK, AuxOK
<1>7. ASSUME NEW s \in Sender, NextNonceAnswer(s) PROVE TypeOK' /\ AuxOK'
  BY <1>1, <1>4, <1>7 DEF NextNonceAnswer
<1>8. ASSUME NEW s \in Sender, NextNonceFails(s) PROVE TypeOK' /\ AuxOK'
  <2>1. faults' \in Nat
    BY <1>8, FaultCounts DEF NextNonceFails
  <2> QED BY <1>8, <2>1 DEF NextNonceFails, Goto, TypeOK, AuxOK
<1>9. ASSUME NEW s \in Sender, ResetAsk(s) PROVE TypeOK' /\ AuxOK'
  <2>1. faults' \in Nat
    BY <1>9, FaultCounts DEF ResetAsk
  <2>2. TypeOK'
    BY <1>1, <1>9 DEF ResetAsk, Goto, TypeOK, AuxOK, tracker
  <2>3. AuxOK'
    BY <1>1, <1>9, <2>1 DEF ResetAsk, Goto, TypeOK, AuxOK, tracker
  <2> QED BY <2>2, <2>3
<1>10. ASSUME NEW s \in Sender, ResetApply(s) PROVE TypeOK' /\ AuxOK'
  <2>1. NewSendState \in SendState
    BY DEF SendState, NewSendState
  <2>2. fetched[s] \in Nat
    BY <1>10 DEF ResetApply, TypeOK
  <2>3. TypeOK'
    BY <1>10, <2>1, <2>2 DEF ResetApply, Goto, TypeOK, AuxOK
  <2>4. AuxOK'
    BY <1>10 DEF ResetApply, Goto, TypeOK, AuxOK
  <2> QED BY <2>3, <2>4
<1>11. ASSUME NEW s \in Sender, Price(s) PROVE TypeOK' /\ AuxOK'
  <2>1. caps' \in [Sender -> GasCaps]
    <3>1. PICK first \in FirstCaps(s) : caps' = [caps EXCEPT ![s] = first]
      BY <1>11 DEF Price
    <3> QED BY <3>1, FirstCapsType DEF TypeOK
  <2> QED BY <1>11, <2>1 DEF Price, Goto, TypeOK, AuxOK, tracker
<1>12. ASSUME NEW s \in Sender, Bump(s) PROVE TypeOK' /\ AuxOK'
  <2>1. BumpPercent(s) \in Nat
    BY ConfigTypes DEF BumpPercent
  <2>2. caps' \in [Sender -> GasCaps]
    BY <1>12, <2>1, BumpGasCapsType DEF Bump, TypeOK
  <2>3. sendState' \in [Sender -> SendState]
    BY <1>12, SendStateFlags DEF Bump, TypeOK
  <2> QED BY <1>12, <2>2, <2>3 DEF Bump, TypeOK, AuxOK, tracker
<1>13. ASSUME NEW s \in Sender, PublishAttempt(s), pool' \in {pool, Accept(BuildRequest(s))},
              sendState' \in [Sender -> SendState],
              faults' \in Nat,
              \E label \in {"aborted", "priced", "published"} : pc' = [pc EXCEPT ![s] = label]
       PROVE  TypeOK' /\ AuxOK'
  <2>1. BuildRequest(s) \in Tx
    BY <1>13, BuildRequestType DEF PublishAttempt
  <2>2. pool' \subseteq Tx
    BY <1>13, <2>1 DEF Accept, TypeOK
  <2>3. sent' \in [Sender -> SUBSET Tx]
    BY <1>13, <2>1 DEF PublishAttempt, TypeOK
  <2> QED BY <1>13, <2>2, <2>3 DEF PublishAttempt, TypeOK, AuxOK, tracker
<1>14. ASSUME NEW s \in Sender, PublishAccepted(s) PROVE TypeOK' /\ AuxOK'
  <2>1. sendState' \in [Sender -> SendState]
    <3>1. sendState[s] \in SendState
      BY DEF TypeOK
    <3>2. TxPublished(sendState[s]) \in SendState
      BY <3>1 DEF SendState, TxPublished
    <3> QED BY <1>14, <3>2 DEF PublishAccepted, TypeOK
  <2>2. faults' \in Nat
    BY <1>14 DEF PublishAccepted, AuxOK
  <2> QED BY <1>13, <1>14, <2>1, <2>2 DEF PublishAccepted, Goto
<1>15. ASSUME NEW s \in Sender, PublishRejected(s) PROVE TypeOK' /\ AuxOK'
  <2>1. PICK error : AfterError(s, error)
    BY <1>15 DEF PublishRejected
  <2>2. faults' \in Nat /\ pool' = pool
    BY <1>15 DEF PublishRejected, AuxOK
  <2>3. PublishAttempt(s)
    BY <1>15 DEF PublishRejected
  <2>4. /\ sendState' \in [Sender -> SendState]
        /\ \E label \in {"aborted", "priced"} : pc' = [pc EXCEPT ![s] = label]
    BY <2>1, AfterErrorKeeps
  <2> QED BY <1>13, <2>2, <2>3, <2>4
<1>16. ASSUME NEW s \in Sender, PublishFails(s) PROVE TypeOK' /\ AuxOK'
  <2>1. PICK error : AfterError(s, error)
    BY <1>16 DEF PublishFails
  <2>2. faults' \in Nat
    BY <1>16, FaultCounts DEF PublishFails
  <2>3. PublishAttempt(s) /\ pool' \in {pool, Accept(BuildRequest(s))}
    BY <1>16 DEF PublishFails
  <2>4. /\ sendState' \in [Sender -> SendState]
        /\ \E label \in {"aborted", "priced"} : pc' = [pc EXCEPT ![s] = label]
    BY <2>1, AfterErrorKeeps
  <2> QED BY <1>13, <2>2, <2>3, <2>4
<1>17. ASSUME NEW s \in Sender, ResubmissionTimeout(s) PROVE TypeOK' /\ AuxOK'
  <2>1. sendState' \in [Sender -> SendState]
    BY <1>17, SendStateFlags DEF ResubmissionTimeout, TypeOK
  <2> QED BY <1>17, <2>1 DEF ResubmissionTimeout, Goto, TypeOK, AuxOK, tracker
<1>18. ASSUME NEW s \in Sender, GetReceipt(s) PROVE TypeOK' /\ AuxOK'
  <2>1. PICK tx \in sent[s], i \in DOMAIN chain :
            /\ tx \in chain[i]
            /\ sendState' = [sendState EXCEPT ![s] = TxMined(@, tx)]
            /\ receipt' = [receipt EXCEPT ![s] = [txs |-> {tx}, block |-> i]]
    BY <1>18 DEF GetReceipt
  <2>2. tx \in Tx
    BY DEF TypeOK
  <2>3. sendState' \in [Sender -> SendState]
    BY <2>1, <2>2, SendStateTypes DEF TypeOK
  <2>4. i \in Nat
    BY AccountNonceType
  <2>5. [txs |-> {tx}, block |-> i] \in Receipt \ {NoReceipt}
    BY <2>2, <2>4 DEF Receipt, NoReceipt
  <2>6. receipt' \in [Sender -> Receipt] /\ receipt'[s] \in Receipt \ {NoReceipt}
    BY <2>1, <2>5 DEF AuxOK
  <2>7. \A t \in Sender \ {s} : receipt'[t] = receipt[t]
    BY <2>1 DEF AuxOK
  <2> QED BY <1>18, <2>3, <2>6, <2>7 DEF GetReceipt, Goto, TypeOK, AuxOK, tracker
<1>19. ASSUME NEW s \in Sender, ReceiptReverted(s) PROVE TypeOK' /\ AuxOK'
  BY <1>19 DEF ReceiptReverted, Goto, TypeOK, AuxOK, tracker
<1>20. ASSUME NEW s \in Sender, WaitForConfirmations(s) PROVE TypeOK' /\ AuxOK'
  BY <1>20 DEF WaitForConfirmations, Goto, TypeOK, AuxOK, tracker
<1>21. ASSUME NEW s \in Sender, ReceiptGone(s) PROVE TypeOK' /\ AuxOK'
  <2>1. sendState' \in [Sender -> SendState]
    <3>1. sendState[s] \in SendState
      BY DEF TypeOK
    <3>2. TxNotMined(sendState[s], receipt[s].txs) \in SendState
      <4>1. /\ sendState[s].mined \ receipt[s].txs \in SUBSET Tx
            /\ (IF sendState[s].mined \ receipt[s].txs = {} THEN 0 ELSE sendState[s].tooLow) \in Nat
        BY <3>1 DEF SendState
      <4> QED BY <3>1, <4>1 DEF SendState, TxNotMined
    <3> QED BY <1>21, <3>2 DEF ReceiptGone, TypeOK
  <2>2. NoReceipt \in Receipt
    BY DEF NoReceipt, Receipt
  <2> QED BY <1>21, <2>1, <2>2 DEF ReceiptGone, Goto, TypeOK, AuxOK, tracker
<1>22. ASSUME NEW s \in Sender, PriceFails(s) PROVE TypeOK' /\ AuxOK'
  <2>1. faults' \in Nat
    BY <1>22, FaultCounts DEF PriceFails
  <2>2. \E label \in {"unpriced", "aborted"} : pc' = [pc EXCEPT ![s] = label]
    BY <1>22 DEF PriceFails, Goto
  <2> QED BY <1>22, <2>1, <2>2 DEF PriceFails, TypeOK, AuxOK, tracker
<1>23. ASSUME Quiet, faults' \in Nat PROVE TypeOK' /\ AuxOK'
  BY <1>23 DEF Quiet, tracker, senders, TypeOK, AuxOK
<1>24. ASSUME NEW s \in Sender, ResetFails(s) \/ GetReceiptFails(s) \/ WaitForConfirmationsFails(s)
       PROVE  TypeOK' /\ AuxOK'
  <2>1. Fault
    BY <1>24 DEF ResetFails, GetReceiptFails, WaitForConfirmationsFails
  <2> QED BY <1>23, <1>24, <2>1, FaultCounts, QuietSteps
<1>25. CASE UNCHANGED vars
  <2>1. faults' \in Nat
    BY <1>25 DEF vars, AuxOK
  <2> QED BY <1>23, <1>25, <2>1, QuietSteps
<1> QED
  BY <1>2, <1>3, <1>5, <1>6, <1>7, <1>8, <1>9, <1>10, <1>11, <1>12, <1>14, <1>15, <1>16,
     <1>17, <1>18, <1>19, <1>20, <1>21, <1>22, <1>24, <1>25 DEF Next, Call, Trouble

-----------------------------------------------------------------------------
(* Nonces.                                                                 *)

(* The steps that leave the tracker and who holds which nonce alone.       *)
LEMMA NonceKept ==
    ASSUME NonceInv, UNCHANGED <<nonce, lock, held, epoch, heldEpoch>>,
           \A t \in Sender : pc'[t] = "asking" => pc[t] = "asking"
    PROVE  NonceInv'
  BY DEF NonceInv, NoncesUnique

(* Every step keeps the tracker's part of the invariant.                   *)
LEMMA NonceStep ==
    ASSUME TypeOK, AuxOK, NonceInv, [Next]_vars
    PROVE  NonceInv'
<1>1. ASSUME NEW s \in Sender, NEW n \in Nat, HandOut(s, n), nonce = None \/ n = nonce,
             epoch' = epoch, \A t \in Sender \ {s} : pc[t] # "asking"
      PROVE  NonceInv'
  <2>1. /\ nonce' = n + 1 /\ held' = [held EXCEPT ![s] = n]
        /\ heldEpoch' = [heldEpoch EXCEPT ![s] = epoch]
        /\ pc' = [pc EXCEPT ![s] = "unpriced"]
    BY <1>1 DEF HandOut, Goto
  <2>2. nonce' \in Nat /\ nonce' # None /\ n # None /\ n < nonce'
    BY <2>1, NoneApart
  <2>3. /\ \A t \in Sender \ {s} : held'[t] = held[t] /\ heldEpoch'[t] = heldEpoch[t]
        /\ held'[s] = n /\ heldEpoch'[s] = epoch
    BY <2>1 DEF TypeOK, AuxOK
  <2>4. \A t \in Sender : pc'[t] # "asking"
    BY <1>1, <2>1 DEF TypeOK
  <2>5. \A t \in Sender : heldEpoch'[t] <= epoch'
    BY <1>1, <2>3 DEF NonceInv, AuxOK
  <2>6. ASSUME NEW t \in Sender \ {s}, held[t] # None, heldEpoch[t] = epoch
        PROVE  held[t] \in Nat /\ held[t] < n
    <3>1. nonce # None /\ held[t] < nonce
      BY <2>6 DEF NonceInv
    <3> QED BY <1>1, <2>6, <3>1 DEF TypeOK
  <2>7. ASSUME NEW t \in Sender, held'[t] # None, heldEpoch'[t] = epoch'
        PROVE  held'[t] < nonce'
    <3>1. CASE t = s
      BY <2>2, <2>3, <3>1
    <3>2. CASE t # s
      <4>1. held[t] \in Nat /\ held[t] < n
        BY <1>1, <2>3, <2>6, <2>7, <3>2
      <4>2. held'[t] = held[t]
        BY <2>3, <3>2
      <4> QED BY <2>1, <4>1, <4>2
    <3> QED BY <3>1, <3>2
  <2>8. \A t \in Sender \ {s} : held'[t] = n => heldEpoch'[t] # epoch
    <3> SUFFICES ASSUME NEW t \in Sender \ {s}, held[t] = n, heldEpoch[t] = epoch
                 PROVE  FALSE
      BY <2>3
    <3>1. held[t] < n
      BY <2>2, <2>6
    <3> QED BY <3>1
  <2>9. NoncesUnique'
    BY <2>3, <2>8 DEF NonceInv, NoncesUnique
  <2> QED BY <2>2, <2>4, <2>5, <2>7, <2>9 DEF NonceInv
<1>2. CASE Mine \/ Reorg
  BY <1>2, NonceKept DEF Mine, Reorg, tracker, senders
<1>3. ASSUME NEW s \in Sender, NextNonceCached(s) PROVE NonceInv'
  <2>1. nonce \in Nat
    BY <1>3 DEF NextNonceCached, TypeOK
  <2>2. \A t \in Sender : pc[t] # "asking"
    BY <1>3, NoneApart DEF NextNonceCached, NonceInv
  <2> QED BY <1>1, <1>3, <2>1, <2>2 DEF NextNonceCached
<1>4. ASSUME NEW s \in Sender, NextNonceAsk(s) PROVE NonceInv'
  <2>1. \A t \in Sender : pc[t] # "asking"
    BY <1>4, NoneApart DEF NextNonceAsk, NonceInv
  <2>2. \A t \in Sender : pc'[t] = "asking" => t = s
    BY <1>4, <2>1 DEF NextNonceAsk, Goto, TypeOK
  <2> QED BY <1>4, <2>2 DEF NextNonceAsk, NonceInv, NoncesUnique
<1>5. ASSUME NEW s \in Sender, NextNonceAnswer(s) PROVE NonceInv'
  <2>1. nonce = None /\ \A t \in Sender \ {s} : pc[t] # "asking"
    BY <1>5 DEF NextNonceAnswer, NonceInv
  <2>2. AccountNonce \in Nat
    BY AccountNonceType
  <2> QED BY <1>1, <1>5, <2>1, <2>2 DEF NextNonceAnswer
<1>6. ASSUME NEW s \in Sender, NextNonceFails(s) PROVE NonceInv'
  <2>1. \A t \in Sender \ {s} : pc[t] # "asking"
    BY <1>6 DEF NextNonceFails, NonceInv
  <2>2. \A t \in Sender : pc'[t] # "asking"
    BY <1>6, <2>1 DEF NextNonceFails, Goto, TypeOK
  <2> QED BY <1>6, <2>2 DEF NextNonceFails, NonceInv, NoncesUnique
<1>7. ASSUME NEW s \in Sender, ResetApply(s) PROVE NonceInv'
  <2>1. \A t \in Sender : pc[t] # "asking"
    BY <1>7, NoneApart DEF ResetApply, NonceInv
  <2>2. \A t \in Sender : pc'[t] # "asking"
    BY <1>7, <2>1 DEF ResetApply, Goto, TypeOK
  <2>3. nonce' \in Nat /\ nonce' # None
    BY <1>7, NoneApart DEF ResetApply, TypeOK
  <2>4. /\ \A t \in Sender \ {s} : held'[t] = held[t]
        /\ held'[s] = None /\ heldEpoch' = heldEpoch /\ epoch' = epoch + 1
    BY <1>7 DEF ResetApply, TypeOK
  <2>5. \A t \in Sender : heldEpoch'[t] <= epoch' /\ heldEpoch'[t] # epoch'
    <3> SUFFICES ASSUME NEW t \in Sender
                 PROVE  heldEpoch[t] <= epoch + 1 /\ heldEpoch[t] # epoch + 1
      BY <2>4
    <3>1. heldEpoch[t] \in Nat /\ epoch \in Nat /\ heldEpoch[t] <= epoch
      BY DEF NonceInv, AuxOK
    <3> QED BY <3>1
  <2>6. NoncesUnique'
    BY <2>4 DEF NonceInv, NoncesUnique
  <2> QED BY <2>2, <2>3, <2>5, <2>6 DEF NonceInv
<1>8. ASSUME NEW s \in Sender, ResetAsk(s) \/ Price(s) \/ PriceFails(s)
                                \/ ResubmissionTimeout(s) \/ GetReceipt(s) \/ ReceiptReverted(s)
                                \/ WaitForConfirmations(s) \/ ReceiptGone(s)
      PROVE  NonceInv'
  <2>1. UNCHANGED <<nonce, lock, held, epoch, heldEpoch>>
    BY <1>8 DEF ResetAsk, Price, PriceFails, ResubmissionTimeout, GetReceipt, ReceiptReverted,
                WaitForConfirmations, ReceiptGone, tracker
  <2>2. \E label \in {"resetting", "priced", "mined", "reverted", "confirmed", "published",
                      "unpriced", "aborted"} :
            pc' = [pc EXCEPT ![s] = label]
    BY <1>8 DEF ResetAsk, Price, PriceFails, ResubmissionTimeout, GetReceipt, ReceiptReverted,
                WaitForConfirmations, ReceiptGone, Goto
  <2>3. \A t \in Sender : pc'[t] = "asking" => pc[t] = "asking"
    BY <2>2 DEF TypeOK
  <2> QED BY <2>1, <2>3, NonceKept
<1>9. ASSUME NEW s \in Sender, Bump(s) PROVE NonceInv'
  BY <1>9, NonceKept DEF Bump, tracker
<1>10. ASSUME NEW s \in Sender, PublishAccepted(s) \/ PublishRejected(s) \/ PublishFails(s)
       PROVE  NonceInv'
  <2>1. UNCHANGED <<nonce, lock, held, epoch, heldEpoch>>
    BY <1>10 DEF PublishAccepted, PublishRejected, PublishFails, PublishAttempt, tracker
  <2>2. PublishAccepted(s) \/ \E error : AfterError(s, error)
    BY <1>10 DEF PublishRejected, PublishFails
  <2>3. \E label \in {"aborted", "priced", "published"} : pc' = [pc EXCEPT ![s] = label]
    BY <2>2, AfterErrorKeeps DEF PublishAccepted, Goto
  <2>4. \A t \in Sender : pc'[t] = "asking" => pc[t] = "asking"
    BY <2>3 DEF TypeOK
  <2> QED BY <2>1, <2>4, NonceKept
<1>11. CASE Quiet
  BY <1>11, NonceKept DEF Quiet, tracker, senders
<1> QED
  BY <1>2, <1>3, <1>4, <1>5, <1>6, <1>7, <1>8, <1>9, <1>10, <1>11, QuietSteps
  DEF Next, Call, Trouble

-----------------------------------------------------------------------------
(* What was sent.                                                          *)

(* Every step keeps a sender's transactions its own.                       *)
LEMMA SentStep ==
    ASSUME TypeOK, AuxOK, NonceInv, SentInv, [Next]_vars
    PROVE  SentInv'
<1>1. CASE Mine \/ Reorg \/ Quiet
  <2>1. UNCHANGED <<pc, sent, held, receipt>>
    BY <1>1 DEF Mine, Reorg, senders, Quiet
  <2> QED BY <2>1 DEF SentInv
<1>2. ASSUME NEW s \in Sender, NEW label,
             UNCHANGED <<sent, receipt>>, pc' = [pc EXCEPT ![s] = label],
             label \in {"mined", "confirmed"} => pc[s] \in {"mined", "confirmed"},
             label \in {"idle", "asking", "unpriced"} => sent[s] = {},
             held' = held \/ (sent[s] = {} /\ \A t \in Sender \ {s} : held'[t] = held[t])
      PROVE  SentInv'
  <2> SUFFICES ASSUME NEW t \in Sender
               PROVE  /\ pc'[t] \in {"idle", "asking", "unpriced"} => sent[t] = {}
                      /\ \A tx \in sent[t] : tx.from = t /\ tx.nonce = held'[t]
                      /\ pc'[t] \in {"mined", "confirmed"} =>
                            receipt[t].txs # {} /\ receipt[t].txs \subseteq sent[t]
    BY <1>2 DEF SentInv
  <2>1. CASE t = s
    BY <1>2, <2>1 DEF SentInv, TypeOK
  <2>2. CASE t # s
    BY <1>2, <2>2 DEF SentInv, TypeOK
  <2> QED BY <2>1, <2>2
<1>3. ASSUME NEW s \in Sender, NextNonceCached(s) \/ NextNonceAnswer(s) PROVE SentInv'
  <2>1. /\ UNCHANGED <<sent, receipt>> /\ pc' = [pc EXCEPT ![s] = "unpriced"]
        /\ \E n : held' = [held EXCEPT ![s] = n]
        /\ pc[s] \in {"idle", "asking"}
    BY <1>3 DEF NextNonceCached, NextNonceAnswer, HandOut, Goto
  <2>2. sent[s] = {} /\ \A t \in Sender \ {s} : held'[t] = held[t]
    BY <2>1 DEF SentInv, TypeOK
  <2> QED BY <1>2, <2>1, <2>2
<1>4. ASSUME NEW s \in Sender, NextNonceAsk(s) \/ NextNonceFails(s) PROVE SentInv'
  <2>1. /\ UNCHANGED <<sent, receipt, held>>
        /\ \E label \in {"idle", "asking"} : pc' = [pc EXCEPT ![s] = label]
        /\ pc[s] \in {"idle", "asking"}
    BY <1>4 DEF NextNonceAsk, NextNonceFails, Goto
  <2>2. sent[s] = {}
    BY <2>1 DEF SentInv
  <2> QED BY <1>2, <2>1, <2>2
<1>5. ASSUME NEW s \in Sender, ResetApply(s) PROVE SentInv'
  <2>1. /\ sent' = [sent EXCEPT ![s] = {}] /\ held' = [held EXCEPT ![s] = None]
        /\ pc' = [pc EXCEPT ![s] = "idle"] /\ receipt' = receipt
    BY <1>5 DEF ResetApply, Goto
  <2> QED BY <2>1 DEF SentInv, TypeOK
<1>6. ASSUME NEW s \in Sender, ResetAsk(s) \/ Price(s) \/ ResubmissionTimeout(s)
                                \/ ReceiptReverted(s) \/ WaitForConfirmations(s)
      PROVE  SentInv'
  <2>1. UNCHANGED <<sent, receipt, held>>
    BY <1>6 DEF ResetAsk, Price, ResubmissionTimeout, ReceiptReverted, WaitForConfirmations
  <2>2. \/ pc[s] = "mined" /\ pc' = [pc EXCEPT ![s] = "confirmed"]
        \/ \E label \in {"resetting", "priced", "reverted"} : pc' = [pc EXCEPT ![s] = label]
    BY <1>6 DEF ResetAsk, Price, ResubmissionTimeout, ReceiptReverted,
                WaitForConfirmations, Goto
  <2> QED BY <1>2, <2>1, <2>2
<1>61. ASSUME NEW s \in Sender, PriceFails(s) PROVE SentInv'
  <2>1. UNCHANGED <<sent, receipt, held>> /\ pc[s] = "unpriced"
    BY <1>61 DEF PriceFails
  <2>2. \E label \in {"unpriced", "aborted"} : pc' = [pc EXCEPT ![s] = label]
    BY <1>61 DEF PriceFails, Goto
  <2>3. sent[s] = {}
    BY <2>1 DEF SentInv
  <2> QED BY <1>2, <2>1, <2>2, <2>3
<1>7. ASSUME NEW s \in Sender, Bump(s) PROVE SentInv'
  BY <1>7 DEF Bump, SentInv
<1>8. ASSUME NEW s \in Sender, PublishAccepted(s) \/ PublishRejected(s) \/ PublishFails(s)
      PROVE  SentInv'
  <2>1. PublishAttempt(s)
    BY <1>8 DEF PublishAccepted, PublishRejected, PublishFails
  <2>2. PublishAccepted(s) \/ \E error : AfterError(s, error)
    BY <1>8 DEF PublishRejected, PublishFails
  <2>3. PICK label \in {"aborted", "priced", "published"} : pc' = [pc EXCEPT ![s] = label]
    BY <2>2, AfterErrorKeeps DEF PublishAccepted, Goto
  <2>4. BuildRequest(s).from = s /\ BuildRequest(s).nonce = held[s]
    BY <2>1, BuildRequestType DEF PublishAttempt
  <2>5. sent' = [sent EXCEPT ![s] = @ \cup {BuildRequest(s)}] /\ UNCHANGED <<held, receipt>>
    BY <2>1 DEF PublishAttempt
  <2> QED BY <2>3, <2>4, <2>5 DEF SentInv, TypeOK
<1>9. ASSUME NEW s \in Sender, GetReceipt(s) PROVE SentInv'
  <2>1. PICK tx \in sent[s], i \in DOMAIN chain : receipt' = [receipt EXCEPT ![s] = [txs |-> {tx}, block |-> i]]
    BY <1>9 DEF GetReceipt
  <2>2. UNCHANGED <<sent, held>> /\ pc' = [pc EXCEPT ![s] = "mined"]
    BY <1>9 DEF GetReceipt, Goto
  <2>3. receipt'[s].txs = {tx} /\ \A t \in Sender \ {s} : receipt'[t] = receipt[t]
    BY <2>1 DEF AuxOK
  <2>4. pc'[s] = "mined" /\ \A t \in Sender \ {s} : pc'[t] = pc[t]
    BY <2>2 DEF TypeOK
  <2>5. ASSUME NEW t \in Sender
        PROVE  /\ pc'[t] \in {"idle", "asking", "unpriced"} => sent[t] = {}
               /\ \A ty \in sent[t] : ty.from = t /\ ty.nonce = held[t]
               /\ pc'[t] \in {"mined", "confirmed"} =>
                     receipt'[t].txs # {} /\ receipt'[t].txs \subseteq sent[t]
    <3>1. CASE t = s
      BY <2>1, <2>3, <2>4, <3>1 DEF SentInv
    <3>2. CASE t # s
      BY <2>3, <2>4, <3>2 DEF SentInv
    <3> QED BY <3>1, <3>2
  <2> QED BY <2>2, <2>5 DEF SentInv
<1>10. ASSUME NEW s \in Sender, ReceiptGone(s) PROVE SentInv'
  <2>1. /\ UNCHANGED <<sent, held>> /\ pc' = [pc EXCEPT ![s] = "published"]
        /\ receipt' = [receipt EXCEPT ![s] = NoReceipt]
    BY <1>10 DEF ReceiptGone, Goto
  <2> QED BY <2>1 DEF SentInv, TypeOK, AuxOK
<1> QED
  BY <1>1, <1>3, <1>4, <1>5, <1>6, <1>61, <1>7, <1>8, <1>9, <1>10, QuietSteps
  DEF Next, Call, Trouble

-----------------------------------------------------------------------------
(* What L1 has.                                                            *)

(* The steps that bring nothing new to L1 and leave the histories alone.   *)
LEMMA PastKept ==
    ASSUME TypeOK, AuxOK, PastInv, UNCHANGED <<before, unheard, epoch>>,
           undone' \in [Sender -> Undone],
           (pool \cup OnChain)' \subseteq pool \cup OnChain,
           \A t \in Sender : sent[t] \subseteq sent'[t]
    PROVE  PastInv'
<1>1. \A tx \in pool \cup OnChain : tx.from \in Sender
  <2>1. \A i \in DOMAIN chain : chain[i] \in SUBSET Tx
    BY AccountNonceType, ElementOfSeq
  <2> QED BY <2>1 DEF OnChain, Tx, TypeOK
<1> QED BY <1>1 DEF PastInv

(* What a mined block holds was pending.                                   *)
LEMMA MineBlock ==
    ASSUME TypeOK, AuxOK, Mine
    PROVE  \E B \in SUBSET Tx :
              /\ chain' = Append(chain, B) /\ IsFiniteSet(B) /\ B \subseteq pool
              /\ B = {} \/ \E tx \in Includable : B = {tx}
              /\ pool' \subseteq pool /\ OnChain' = OnChain \cup B
<1>1. PICK B \in SUBSET Tx : /\ chain' = Append(chain, B)
                             /\ B = {} \/ \E tx \in Includable : B = {tx}
  BY DEF Mine, Includable, TypeOK
<1>2. IsFiniteSet(B) /\ B \subseteq pool
  BY <1>1, FS_EmptySet, FS_Singleton DEF Includable
<1>3. OnChain' = OnChain \cup B
  BY <1>1, <1>2, ChainGrows
<1>4. pool' \subseteq pool
  BY DEF Mine
<1> QED BY <1>1, <1>2, <1>3, <1>4

(* Every step keeps what L1 has of a sender within what the sender has     *)
(* sent.                                                                   *)
LEMMA PastStep ==
    ASSUME TypeOK, AuxOK, SentInv, PastInv, [Next]_vars
    PROVE  PastInv'
<1>0. /\ undone \in [Sender -> Undone] /\ before \in [Sender -> SUBSET Tx]
      /\ unheard \in [Sender -> SUBSET Tx] /\ sent \in [Sender -> SUBSET Tx]
      /\ DOMAIN pc = Sender /\ epoch \in Nat
  BY DEF PastInv, TypeOK, AuxOK
<1>01. \A tx \in pool \cup OnChain : tx \in Tx /\ tx.from \in Sender
  <2>1. \A i \in DOMAIN chain : chain[i] \in SUBSET Tx
    BY AccountNonceType, ElementOfSeq
  <2> QED BY <2>1 DEF OnChain, Tx, TypeOK
<1>1. CASE Mine
  <2>1. /\ (pool \cup OnChain)' \subseteq pool \cup OnChain
    BY <1>1, MineBlock
  <2>2. UNCHANGED <<before, unheard, undone, sent, epoch>>
    BY <1>1 DEF Mine, senders, past
  <2> QED BY <1>0, <2>1, <2>2, PastKept
<1>2. CASE Reorg
  <2>1. OnChain' \subseteq OnChain /\ chain[Len(chain)] \subseteq OnChain
    BY <1>2, ChainShrinks DEF Reorg
  <2>2. pool' \subseteq pool \cup OnChain /\ UNCHANGED <<before, unheard, sent, epoch>>
    BY <1>2, <2>1 DEF Reorg
  <2>3. undone' \in [Sender -> Undone]
    <3> SUFFICES ASSUME NEW s \in Sender PROVE UndoneBlock(s) \in Undone
      BY <1>2 DEF Reorg
    <3>1. undone[s] \in Undone
      BY <1>0
    <3>2. [undone[s] EXCEPT !.receipt = TRUE] \in Undone
      BY <3>1 DEF Undone
    <3>3. [undone[s] EXCEPT !.since = @ + 1] \in Undone
      BY <3>1 DEF Undone
    <3> QED BY <3>1, <3>2, <3>3 DEF UndoneBlock
  <2> QED BY <2>1, <2>2, <2>3, PastKept
<1>3. CASE Quiet
  <2>1. UNCHANGED <<before, unheard, undone, sent, epoch, chain, pool>>
    BY <1>3 DEF Quiet, senders, past
  <2>2. OnChain' = OnChain
    BY <2>1 DEF OnChain
  <2> QED BY <1>0, <2>1, <2>2, PastKept
<1>4. ASSUME NEW s \in Sender,
             \/ NextNonceCached(s) \/ NextNonceAsk(s) \/ NextNonceAnswer(s) \/ NextNonceFails(s)
             \/ ResetAsk(s) \/ Price(s) \/ PriceFails(s) \/ Bump(s) \/ ResubmissionTimeout(s)
             \/ GetReceipt(s) \/ ReceiptReverted(s) \/ WaitForConfirmations(s)
      PROVE  PastInv'
  <2>1. UNCHANGED <<past, sent, epoch, chain, pool>>
    BY <1>4 DEF NextNonceCached, NextNonceAsk, NextNonceAnswer, NextNonceFails, ResetAsk, Price,
                PriceFails, Bump, ResubmissionTimeout, GetReceipt, ReceiptReverted,
                WaitForConfirmations
  <2>2. OnChain' = OnChain
    BY <2>1 DEF OnChain
  <2>3. UNCHANGED <<before, unheard, undone>>
    BY <2>1 DEF past
  <2> QED BY <1>0, <2>1, <2>2, <2>3, PastKept
<1>5. ASSUME NEW s \in Sender, ReceiptGone(s) PROVE PastInv'
  <2>1. /\ UNCHANGED <<before, unheard, sent, epoch, chain, pool>>
        /\ undone' = [undone EXCEPT ![s] = NothingUndone]
    BY <1>5 DEF ReceiptGone
  <2>2. OnChain' = OnChain
    BY <2>1 DEF OnChain
  <2>3. undone' \in [Sender -> Undone]
    BY <1>0, <2>1 DEF NothingUndone, Undone
  <2> QED BY <2>1, <2>2, <2>3, PastKept
<1>6. ASSUME NEW s \in Sender, ResetApply(s) PROVE PastInv'
  <2>1. /\ UNCHANGED <<undone, chain, pool>> /\ epoch' = epoch + 1
        /\ before' = [before EXCEPT ![s] = @ \cup sent[s]]
        /\ sent' = [sent EXCEPT ![s] = {}] /\ unheard' = [unheard EXCEPT ![s] = {}]
    BY <1>6 DEF ResetApply
  <2>2. OnChain' = OnChain
    BY <2>1 DEF OnChain
  <2>3. before' \in [Sender -> SUBSET Tx] /\ unheard' \in [Sender -> SUBSET Tx] /\ epoch' # 0
    BY <1>0, <2>1
  <2>4. \A t \in Sender : sent'[t] \cup before'[t] = sent[t] \cup before[t]
    BY <1>0, <2>1
  <2>5. \A tx \in pool \cup OnChain :
            tx \in sent'[tx.from] \cup before'[tx.from] /\ tx.caps.fee <= MaxFee
    BY <1>01, <2>4 DEF PastInv
  <2> QED BY <1>0, <2>1, <2>2, <2>3, <2>5 DEF PastInv
<1>7. ASSUME NEW s \in Sender, PublishAccepted(s) \/ PublishRejected(s) \/ PublishFails(s)
      PROVE  PastInv'
  <2>1. /\ UNCHANGED <<chain, before, undone, epoch>> /\ pc[s] = "priced"
        /\ sent' = [sent EXCEPT ![s] = @ \cup {BuildRequest(s)}]
    BY <1>7 DEF PublishAccepted, PublishRejected, PublishFails, PublishAttempt
  <2>2. BuildRequest(s) \in Tx /\ BuildRequest(s).from = s
    BY <2>1, BuildRequestType
  <2>3. pool' \subseteq pool \/ (pool' \subseteq pool \cup {BuildRequest(s)}
                                  /\ Complaint(BuildRequest(s)) = "none")
    BY <1>7 DEF PublishAccepted, PublishRejected, PublishFails, Accept
  <2>4. Complaint(BuildRequest(s)) = "none" => BuildRequest(s).caps.fee <= MaxFee
    <3>1. BuildRequest(s).caps.fee \in Nat /\ MaxFee \in Nat
      BY <2>2, TxAssumption DEF Tx, GasCaps
    <3> QED BY <3>1 DEF Complaint
  <2>5. unheard' \in [Sender -> SUBSET Tx]
    BY <1>0, <1>7, <2>2 DEF PublishAccepted, PublishRejected, PublishFails
  <2>6. OnChain' = OnChain
    BY <2>1 DEF OnChain
  <2>7. /\ sent'[s] = sent[s] \cup {BuildRequest(s)}
        /\ \A t \in Sender : sent[t] \subseteq sent'[t]
    BY <1>0, <2>1
  <2>8. ASSUME NEW tx \in pool' \cup OnChain
        PROVE  tx \in sent'[tx.from] \cup before[tx.from] /\ tx.caps.fee <= MaxFee
    <3>1. CASE tx \in pool \cup OnChain
      BY <1>01, <2>7, <3>1 DEF PastInv
    <3>2. CASE tx = BuildRequest(s) /\ Complaint(BuildRequest(s)) = "none"
      BY <2>2, <2>4, <2>7, <3>2
    <3> QED BY <2>3, <2>8, <3>1, <3>2
  <2> QED BY <2>1, <2>5, <2>6, <2>8 DEF PastInv
<1> QED BY <1>1, <1>2, <1>3, <1>4, <1>5, <1>6, <1>7, QuietSteps DEF Next, Call, Trouble

-----------------------------------------------------------------------------
(* The chain.                                                              *)

(* What is on the chain has a number for its nonce.                        *)
LEMMA OnChainType ==
    ASSUME TypeOK, AuxOK
    PROVE  \A tx \in OnChain : tx \in Tx /\ tx.nonce \in Nat
<1>1. \A i \in DOMAIN chain : chain[i] \in SUBSET Tx
  BY AccountNonceType, ElementOfSeq
<1> QED BY <1>1 DEF OnChain, Tx

(* No nonce is on the chain twice.                                         *)
LEMMA NonceOnce ==
    ASSUME TypeOK, AuxOK, ChainInv
    PROVE  \A tx, ty \in OnChain : tx.nonce = ty.nonce => tx = ty
<1> SUFFICES ASSUME NEW tx \in OnChain, NEW ty \in OnChain, tx.nonce = ty.nonce
             PROVE  tx = ty
  OBVIOUS
<1>1. PICK i \in DOMAIN chain : tx \in chain[i]
  BY DEF OnChain
<1>2. PICK j \in DOMAIN chain : ty \in chain[j]
  BY DEF OnChain
<1>3. i \in Nat /\ j \in Nat /\ tx.nonce \in Nat /\ ty.nonce \in Nat
  BY AccountNonceType, OnChainType
<1>4. CASE i = j
  BY <1>1, <1>2, <1>4 DEF ChainInv
<1>5. CASE i < j
  <2>1. tx.nonce < ty.nonce
    BY <1>1, <1>2, <1>5 DEF ChainInv
  <2> QED BY <1>3, <2>1
<1>6. CASE j < i
  <2>1. ty.nonce < tx.nonce
    BY <1>1, <1>2, <1>6 DEF ChainInv
  <2> QED BY <1>3, <2>1
<1> QED BY <1>3, <1>4, <1>5, <1>6

(* A mined block carries the account's nonce, which is then the next one.  *)
LEMMA ChainMine ==
    ASSUME TypeOK, AuxOK, ChainInv, Mine
    PROVE  ChainInv'
<1>1. PICK B \in SUBSET Tx :
            /\ chain' = Append(chain, B) /\ IsFiniteSet(B)
            /\ B = {} \/ \E tx \in Includable : B = {tx}
            /\ OnChain' = OnChain \cup B
  BY MineBlock
<1> DEFINE n == Len(chain)
<1>2. /\ n \in Nat /\ DOMAIN chain = 1..n /\ AccountNonce \in Nat /\ IsFiniteSet(OnChain)
      /\ chain \in Seq(SUBSET Tx)
  BY AccountNonceType
<1>3. /\ DOMAIN chain' = 1..(n + 1) /\ chain'[n + 1] = B
      /\ \A i \in 1..n : chain'[i] = chain[i]
  BY <1>1, <1>2, ChainGrows, AppendProperties
<1>4. AccountNonce' = Cardinality(OnChain')
  BY DEF AccountNonce
<1>5. \A tx \in B : tx.nonce = AccountNonce /\ \A ty \in B : ty = tx
  BY <1>1 DEF Includable
<1>6. \A tx \in OnChain : tx.nonce \in Nat /\ tx.nonce < AccountNonce
  BY OnChainType DEF ChainInv
<1>7. \A i \in 1..n : chain[i] \subseteq OnChain
  BY <1>2 DEF OnChain
<1> HIDE DEF n
<1>8. \A i \in DOMAIN chain' : \A tx, ty \in chain'[i] : tx = ty
  <2> SUFFICES ASSUME NEW i \in 1..(n + 1), NEW tx \in chain'[i], NEW ty \in chain'[i]
               PROVE  tx = ty
    BY <1>3
  <2>1. CASE i = n + 1
    BY <1>3, <1>5, <2>1
  <2>2. CASE i \in 1..n
    BY <1>2, <1>3, <2>2 DEF ChainInv
  <2> QED BY <1>2, <2>1, <2>2
<1>9. \A i, j \in DOMAIN chain' : i < j =>
          \A tx \in chain'[i], ty \in chain'[j] : tx.nonce < ty.nonce
  <2> SUFFICES ASSUME NEW i \in 1..(n + 1), NEW j \in 1..(n + 1), i < j,
                      NEW tx \in chain'[i], NEW ty \in chain'[j]
               PROVE  tx.nonce < ty.nonce
    BY <1>3
  <2>1. i \in 1..n /\ (j \in 1..n \/ j = n + 1)
    BY <1>2
  <2>2. CASE j \in 1..n
    BY <1>2, <1>3, <2>1, <2>2 DEF ChainInv
  <2>3. CASE j = n + 1
    BY <1>3, <1>5, <1>6, <1>7, <2>1, <2>3
  <2> QED BY <2>1, <2>2, <2>3
<1>10. CASE B = {}
  <2>1. OnChain' = OnChain /\ AccountNonce' = AccountNonce
    BY <1>1, <1>4, <1>10 DEF AccountNonce
  <2> QED BY <1>8, <1>9, <2>1 DEF ChainInv
<1>11. CASE \E tx \in Includable : B = {tx}
  <2>1. PICK tx \in Includable : B = {tx}
    BY <1>11
  <2>2. tx.nonce = AccountNonce
    BY DEF Includable
  <2>3. tx \notin OnChain
    BY <1>2, <1>6, <2>2
  <2>4. Cardinality(OnChain \cup {tx}) = Cardinality(OnChain) + 1
    BY <1>2, <2>3, FS_AddElement
  <2>5. AccountNonce' = AccountNonce + 1
    BY <1>1, <1>4, <2>1, <2>4 DEF AccountNonce
  <2>6. \A ty \in OnChain' : ty = tx \/ ty \in OnChain
    BY <1>1, <2>1
  <2>7. \A ty \in OnChain' : ty.nonce < AccountNonce'
    BY <1>2, <1>6, <2>2, <2>5, <2>6
  <2>8. ASSUME NEW m \in Nat, m < AccountNonce' PROVE \E ty \in OnChain' : ty.nonce = m
    <3>1. m < AccountNonce \/ m = AccountNonce
      BY <1>2, <2>5, <2>8
    <3>2. CASE m < AccountNonce
      <4>1. \E ty \in OnChain : ty.nonce = m
        BY <3>2 DEF ChainInv
      <4> QED BY <1>1, <4>1
    <3>3. CASE m = AccountNonce
      BY <1>1, <2>1, <2>2, <3>3
    <3> QED BY <3>1, <3>2, <3>3
  <2> QED BY <1>8, <1>9, <2>7, <2>8 DEF ChainInv
<1> QED BY <1>1, <1>10, <1>11

(* The block that is taken back carries the highest nonce, or none.        *)
LEMMA ChainReorg ==
    ASSUME TypeOK, AuxOK, ChainInv, Reorg
    PROVE  ChainInv'
<1> DEFINE n == Len(chain)
           B == chain[n]
<1>1. /\ n \in DOMAIN chain /\ DOMAIN chain' = 1..(n - 1)
      /\ \A i \in DOMAIN chain' : i \in DOMAIN chain /\ chain'[i] = chain[i]
      /\ OnChain = OnChain' \cup B
  BY ChainShrinks DEF Reorg
<1>2. /\ n \in Nat /\ DOMAIN chain = 1..n /\ AccountNonce \in Nat /\ IsFiniteSet(OnChain)
  BY AccountNonceType
<1>3. AccountNonce' = Cardinality(OnChain')
  BY DEF AccountNonce
<1>4. \A i \in DOMAIN chain' : i < n
  BY <1>1, <1>2
<1>5. \A ty \in OnChain' : \A tx \in B : ty.nonce < tx.nonce
  <2> SUFFICES ASSUME NEW ty \in OnChain', NEW tx \in B PROVE ty.nonce < tx.nonce
    OBVIOUS
  <2>1. PICK i \in DOMAIN chain' : ty \in chain'[i]
    BY DEF OnChain
  <2>2. i \in DOMAIN chain /\ i < n /\ ty \in chain[i]
    BY <1>1, <1>4, <2>1
  <2> QED BY <1>1, <2>2 DEF ChainInv
<1>6. \A tx \in OnChain : tx.nonce \in Nat /\ tx.nonce < AccountNonce
  BY OnChainType DEF ChainInv
<1>7. /\ \A i \in DOMAIN chain' : \A tx, ty \in chain'[i] : tx = ty
      /\ \A i, j \in DOMAIN chain' : i < j =>
            \A tx \in chain'[i], ty \in chain'[j] : tx.nonce < ty.nonce
  BY <1>1 DEF ChainInv
<1>8. \A tx, ty \in B : tx = ty
  BY <1>1 DEF ChainInv
<1>9. \A m \in Nat : m < AccountNonce => \E tx \in OnChain : tx.nonce = m
  BY DEF ChainInv
<1> HIDE DEF n, B
<1>10. CASE B = {}
  <2>1. OnChain' = OnChain /\ AccountNonce' = AccountNonce
    BY <1>1, <1>3, <1>10 DEF AccountNonce
  <2> QED BY <1>6, <1>7, <1>9, <2>1 DEF ChainInv
<1>11. ASSUME NEW tx \in B PROVE ChainInv'
  <2>1. OnChain = OnChain' \cup {tx} /\ tx \in OnChain
    BY <1>1, <1>8, <1>11
  <2>2. tx \notin OnChain'
    <3>1. tx.nonce \in Nat /\ (tx \in OnChain' => tx.nonce < tx.nonce)
      BY <1>5, <1>6, <1>11, <2>1
    <3> QED BY <3>1
  <2>3. OnChain' = OnChain \ {tx}
    BY <2>1, <2>2
  <2>4. IsFiniteSet(OnChain') /\ Cardinality(OnChain') = AccountNonce - 1
    <3>1. IsFiniteSet(OnChain \ {tx}) /\ Cardinality(OnChain \ {tx}) = Cardinality(OnChain) - 1
      BY <1>2, <2>1, FS_RemoveElement
    <3> QED BY <2>3, <3>1, Zenon DEF AccountNonce
  <2>5. AccountNonce' = AccountNonce - 1 /\ AccountNonce' \in Nat
    BY <1>3, <2>4, FS_CardinalityType
  <2>6. \A ty \in OnChain' : ty.nonce < AccountNonce'
    <3> SUFFICES ASSUME NEW ty \in OnChain' PROVE ty.nonce < AccountNonce'
      OBVIOUS
    <3>1. ty.nonce \in Nat /\ tx.nonce \in Nat /\ ty.nonce < tx.nonce /\ tx.nonce < AccountNonce
      BY <1>5, <1>6, <1>11, <2>1
    <3> QED BY <1>2, <2>5, <3>1
  <2>7. ASSUME NEW m \in Nat, m < AccountNonce' PROVE \E ty \in OnChain' : ty.nonce = m
    <3>1. AccountNonce - 1 \in Nat /\ AccountNonce - 1 < AccountNonce /\ m < AccountNonce
      BY <1>2, <2>5, <2>7
    <3>2. PICK tz \in OnChain : tz.nonce = AccountNonce - 1
      BY <1>9, <3>1
    <3>3. tx.nonce = AccountNonce - 1
      <4>1. CASE tz = tx
        BY <3>2, <4>1
      <4>2. CASE tz # tx
        <5>1. tz.nonce < tx.nonce /\ tx.nonce < AccountNonce /\ tx.nonce \in Nat
          BY <1>5, <1>6, <1>11, <2>1, <4>2
        <5> QED BY <1>2, <3>2, <5>1
      <4> QED BY <4>1, <4>2
    <3>4. PICK ty \in OnChain : ty.nonce = m
      BY <1>9, <3>1
    <3>5. ty # tx
      BY <1>2, <2>5, <2>7, <3>3, <3>4
    <3> QED BY <2>3, <3>4, <3>5
  <2> QED BY <1>7, <2>6, <2>7 DEF ChainInv
<1> QED BY <1>10, <1>11

(* Every step keeps the chain's part of the invariant.                     *)
LEMMA ChainStep ==
    ASSUME TypeOK, AuxOK, ChainInv, [Next]_vars
    PROVE  ChainInv'
<1>1. CASE chain' = chain
  <2>1. OnChain' = OnChain
    BY <1>1 DEF OnChain
  <2>2. AccountNonce' = AccountNonce
    BY <2>1 DEF AccountNonce
  <2> QED BY <1>1, <2>1, <2>2 DEF ChainInv
<1>2. ASSUME NEW s \in Sender, Call(s) \/ Trouble(s) PROVE chain' = chain
  BY <1>2 DEF Call, Trouble, NextNonceCached, NextNonceAsk, NextNonceAnswer, NextNonceFails,
              ResetAsk, ResetFails, ResetApply, Price, PriceFails, Bump, PublishAccepted,
              PublishRejected, PublishFails, PublishAttempt, ResubmissionTimeout, GetReceipt,
              GetReceiptFails, ReceiptReverted, WaitForConfirmations,
              WaitForConfirmationsFails, ReceiptGone
<1>3. CASE UNCHANGED vars
  BY <1>1, <1>3 DEF vars
<1> QED BY <1>1, <1>2, <1>3, ChainMine, ChainReorg DEF Next

-----------------------------------------------------------------------------
(* Receipts.                                                               *)

(* The steps that leave the chain alone and make no receipt.               *)
LEMMA ReceiptKept ==
    ASSUME ReceiptInv, chain' = chain,
           \A t \in Sender : pc'[t] \in {"mined", "confirmed"} =>
                pc'[t] = pc[t] /\ receipt'[t] = receipt[t] /\ undone'[t] = undone[t]
    PROVE  ReceiptInv'
  BY DEF ReceiptInv, InPlace

(* A block more keeps every receipt in its place.                          *)
LEMMA ReceiptMine ==
    ASSUME TypeOK, AuxOK, PastInv, ReceiptInv, Mine
    PROVE  ReceiptInv'
<1>1. PICK B \in SUBSET Tx : chain' = Append(chain, B) /\ IsFiniteSet(B)
  BY MineBlock
<1>2. /\ Len(chain') = Len(chain) + 1
      /\ \A i \in DOMAIN chain : i \in DOMAIN chain' /\ chain'[i] = chain[i]
  BY <1>1, ChainGrows
<1>3. UNCHANGED <<pc, receipt, undone>>
  BY DEF Mine, senders, past
<1>4. \A s \in Sender : InPlace(s) => InPlace(s)'
  BY <1>2, <1>3 DEF InPlace
<1>5. \A s \in Sender : undone[s].since \in Nat /\ receipt[s].block \in Nat
  BY DEF PastInv, Undone, AuxOK, Receipt
<1>6. Len(chain) \in Nat /\ Config.num_confirmations \in Nat
  BY AccountNonceType, ConfigTypes
<1>7. ASSUME NEW s \in Sender,
             Len(chain) + undone[s].since - receipt[s].block >= Config.num_confirmations
      PROVE  Len(chain') + undone[s].since - receipt[s].block >= Config.num_confirmations
  BY <1>2, <1>5, <1>6, <1>7
<1> QED BY <1>3, <1>4, <1>7 DEF ReceiptInv

(* A block taken back is noted by those whose receipt it held, and counted *)
(* by those that were confirmed.                                           *)
LEMMA ReceiptReorg ==
    ASSUME TypeOK, AuxOK, PastInv, ReceiptInv, Reorg
    PROVE  ReceiptInv'
<1> DEFINE n == Len(chain)
           c == Config.num_confirmations
<1>1. /\ DOMAIN chain' = 1..(n - 1) /\ Len(chain') = n - 1
      /\ \A i \in DOMAIN chain' : i \in DOMAIN chain /\ chain'[i] = chain[i]
  BY ChainShrinks DEF Reorg
<1>2. n \in Nat /\ DOMAIN chain = 1..n /\ c \in Nat
  BY AccountNonceType, ConfigTypes
<1>3. UNCHANGED <<pc, receipt>> /\ undone' = [s \in Sender |-> UndoneBlock(s)]
  BY DEF Reorg
<1>4. ASSUME NEW s \in Sender, ~ undone'[s].receipt
      PROVE  /\ pc[s] = "mined" => InPlace(s)'
             /\ pc[s] = "confirmed" =>
                   /\ Len(chain') + undone'[s].since - receipt[s].block >= c
                   /\ undone'[s].since <= c => InPlace(s)'
  <2>1. undone[s] \in Undone /\ undone'[s] = UndoneBlock(s)
    BY <1>3 DEF PastInv
  <2>2. undone[s].since \in Nat /\ receipt[s].block \in Nat /\ undone[s].receipt \in BOOLEAN
    BY <2>1 DEF AuxOK, Receipt, Undone
  <2>3. ASSUME InPlace(s), receipt[s].block # n PROVE InPlace(s)'
    <3>1. receipt[s].block \in 1..n /\ receipt[s].block \in 1..(n - 1)
      BY <1>2, <2>3 DEF InPlace
    <3> QED BY <1>1, <1>3, <2>3, <3>1 DEF InPlace
  <2>4. CASE pc[s] = "mined"
    <3>1. receipt[s].block # n
      BY <1>4, <2>1, <2>4 DEF UndoneBlock, Undone
    <3>2. undone'[s] = undone[s]
      BY <2>1, <2>4, <3>1 DEF UndoneBlock
    <3>3. InPlace(s)
      BY <1>4, <2>4, <3>2 DEF ReceiptInv
    <3> QED BY <2>3, <2>4, <3>1, <3>3
  <2>5. CASE pc[s] = "confirmed"
    <3>1. undone'[s] = [undone[s] EXCEPT !.since = @ + 1]
      BY <2>1, <2>5 DEF UndoneBlock
    <3>2. undone'[s].receipt = undone[s].receipt /\ undone'[s].since = undone[s].since + 1
      BY <2>1, <3>1 DEF Undone
    <3>3. /\ n + undone[s].since - receipt[s].block >= c
          /\ undone[s].since <= c => InPlace(s)
      BY <1>4, <2>5, <3>2 DEF ReceiptInv
    <3>4. Len(chain') + undone'[s].since - receipt[s].block >= c
      BY <1>1, <1>2, <2>2, <3>2, <3>3
    <3>5. ASSUME undone'[s].since <= c PROVE InPlace(s)'
      <4>1. undone[s].since <= c /\ receipt[s].block # n
        BY <1>2, <2>2, <3>2, <3>3, <3>5
      <4> QED BY <2>3, <3>3, <4>1
    <3> QED BY <2>5, <3>4, <3>5
  <2> QED BY <2>4, <2>5
<1> HIDE DEF n
<1> QED BY <1>3, <1>4 DEF ReceiptInv

(* Every step keeps what the receipts say true.                            *)
LEMMA ReceiptStep ==
    ASSUME TypeOK, AuxOK, PastInv, ReceiptInv, [Next]_vars
    PROVE  ReceiptInv'
<1>1. ASSUME NEW s \in Sender, NEW label, label \notin {"mined", "confirmed"},
             pc' = [pc EXCEPT ![s] = label], chain' = chain,
             \A t \in Sender \ {s} : receipt'[t] = receipt[t] /\ undone'[t] = undone[t]
      PROVE  ReceiptInv'
  <2>1. \A t \in Sender : pc'[t] \in {"mined", "confirmed"} =>
            pc'[t] = pc[t] /\ receipt'[t] = receipt[t] /\ undone'[t] = undone[t]
    BY <1>1 DEF TypeOK
  <2> QED BY <1>1, <2>1, ReceiptKept
<1>2. CASE Quiet
  <2>1. UNCHANGED <<chain, pc, receipt, undone>>
    BY <1>2 DEF Quiet, senders, past
  <2> QED BY <2>1, ReceiptKept
<1>3. ASSUME NEW s \in Sender,
             \/ NextNonceCached(s) \/ NextNonceAsk(s) \/ NextNonceAnswer(s) \/ NextNonceFails(s)
             \/ ResetAsk(s) \/ ResetApply(s) \/ Price(s) \/ PriceFails(s)
             \/ ResubmissionTimeout(s) \/ ReceiptReverted(s)
      PROVE  ReceiptInv'
  <2>1. UNCHANGED <<chain, receipt, undone>>
    BY <1>3 DEF NextNonceCached, NextNonceAsk, NextNonceAnswer, NextNonceFails, ResetAsk,
                ResetApply, Price, PriceFails, ResubmissionTimeout, ReceiptReverted, past
  <2>2. \E label \in {"unpriced", "asking", "idle", "resetting", "priced", "aborted", "reverted"} :
            pc' = [pc EXCEPT ![s] = label]
    BY <1>3 DEF NextNonceCached, NextNonceAsk, NextNonceAnswer, NextNonceFails, ResetAsk,
                ResetApply, Price, PriceFails, ResubmissionTimeout, ReceiptReverted, HandOut, Goto
  <2> QED BY <1>1, <2>1, <2>2
<1>4. ASSUME NEW s \in Sender, Bump(s) PROVE ReceiptInv'
  <2>1. UNCHANGED <<chain, pc, receipt, undone>>
    BY <1>4 DEF Bump, past
  <2> QED BY <2>1, ReceiptKept
<1>5. ASSUME NEW s \in Sender, PublishAccepted(s) \/ PublishRejected(s) \/ PublishFails(s)
      PROVE  ReceiptInv'
  <2>1. UNCHANGED <<chain, receipt, undone>>
    BY <1>5 DEF PublishAccepted, PublishRejected, PublishFails, PublishAttempt
  <2>2. PublishAccepted(s) \/ \E error : AfterError(s, error)
    BY <1>5 DEF PublishRejected, PublishFails
  <2>3. \E label \in {"aborted", "priced", "published"} : pc' = [pc EXCEPT ![s] = label]
    BY <2>2, AfterErrorKeeps DEF PublishAccepted, Goto
  <2> QED BY <1>1, <2>1, <2>3
<1>6. ASSUME NEW s \in Sender, GetReceipt(s) PROVE ReceiptInv'
  <2>1. PICK tx \in sent[s], i \in DOMAIN chain :
            tx \in chain[i] /\ receipt' = [receipt EXCEPT ![s] = [txs |-> {tx}, block |-> i]]
    BY <1>6 DEF GetReceipt
  <2>2. /\ receipt'[s].txs = {tx} /\ receipt'[s].block = i
        /\ \A t \in Sender \ {s} : receipt'[t] = receipt[t]
    BY <2>1 DEF AuxOK
  <2>3. pc'[s] = "mined" /\ \A t \in Sender \ {s} : pc'[t] = pc[t]
    BY <1>6 DEF GetReceipt, Goto, TypeOK
  <2>4. UNCHANGED <<chain, undone>>
    BY <1>6 DEF GetReceipt, past
  <2>5. InPlace(s)' /\ \A t \in Sender \ {s} : InPlace(t)' <=> InPlace(t)
    BY <2>1, <2>2, <2>4 DEF InPlace
  <2> QED BY <2>2, <2>3, <2>4, <2>5 DEF ReceiptInv
<1>7. ASSUME NEW s \in Sender, WaitForConfirmations(s) PROVE ReceiptInv'
  <2>1. pc[s] = "mined" /\ pc'[s] = "confirmed" /\ \A t \in Sender \ {s} : pc'[t] = pc[t]
    BY <1>7 DEF WaitForConfirmations, Goto, TypeOK
  <2>2. UNCHANGED <<chain, receipt, undone>>
    BY <1>7 DEF WaitForConfirmations, past
  <2>3. Len(chain) - receipt[s].block >= Config.num_confirmations
    BY <1>7 DEF WaitForConfirmations, IsConfirmed
  <2>4. Len(chain) + undone[s].since - receipt[s].block >= Config.num_confirmations
    <3>1. undone[s].since \in Nat /\ receipt[s].block \in Nat /\ Len(chain) \in Nat
      BY AccountNonceType DEF PastInv, Undone, AuxOK, Receipt
    <3> QED BY <2>3, <3>1, ConfigTypes
  <2>5. \A t \in Sender : InPlace(t)' <=> InPlace(t)
    BY <2>2 DEF InPlace
  <2> QED BY <2>1, <2>2, <2>4, <2>5 DEF ReceiptInv
<1>8. ASSUME NEW s \in Sender, ReceiptGone(s) PROVE ReceiptInv'
  <2>1. /\ chain' = chain /\ pc' = [pc EXCEPT ![s] = "published"]
        /\ \A t \in Sender \ {s} : receipt'[t] = receipt[t] /\ undone'[t] = undone[t]
    BY <1>8 DEF ReceiptGone, Goto, AuxOK, PastInv
  <2> QED BY <1>1, <2>1
<1> QED
  BY <1>2, <1>3, <1>4, <1>5, <1>6, <1>7, <1>8, ReceiptMine, ReceiptReorg, QuietSteps
  DEF Next, Call, Trouble

-----------------------------------------------------------------------------
(* The invariant is one of the specification.                              *)
LEMMA Invariance == Spec => []Inv
<1>1. ASSUME Inv, [Next]_vars PROVE Inv'
  BY <1>1, TypeStep, NonceStep, SentStep, PastStep, ChainStep, ReceiptStep DEF Inv
<1> QED BY InitInv, <1>1, PTL DEF Spec

(* NonceTracker: whatever the order in which the senders ask, wait for the *)
(* lock, are answered, fail and reset, next_nonce() gives no nonce to two  *)
(* of them between two applied resets.                                     *)
THEOREM NoncesAreUnique == Spec => []NoncesUnique
<1>1. Inv => NoncesUnique
  BY DEF Inv, NonceInv
<1> QED BY <1>1, Invariance, PTL

-----------------------------------------------------------------------------
(* The attempts of a send.                                                 *)

(* Nothing that concerns a sender changes, and L1 gets nothing of its.     *)
Same(s) ==
    /\ pc'[s] = pc[s] /\ caps'[s] = caps[s] /\ held'[s] = held[s]
    /\ sent'[s] = sent[s] /\ sendState'[s] = sendState[s]
    /\ before'[s] = before[s] /\ unheard'[s] = unheard[s]
    /\ \A tx \in (pool \cup OnChain)' : tx.from = s => tx \in pool \cup OnChain

(* The steps of the other senders and of L1 leave a sender alone.          *)
LEMMA OthersKeep ==
    ASSUME Inv, [Next]_vars, NEW s \in Sender
    PROVE  Call(s) \/ Trouble(s) \/ Same(s)
<1>0. TypeOK /\ AuxOK /\ PastInv
  BY DEF Inv
<1>1. CASE Mine
  <2>1. (pool \cup OnChain)' \subseteq pool \cup OnChain
    BY <1>0, <1>1, MineBlock
  <2>2. UNCHANGED <<pc, caps, held, sent, sendState, before, unheard>>
    BY <1>1 DEF Mine, senders, past
  <2> QED BY <2>1, <2>2 DEF Same
<1>2. CASE Reorg
  <2>1. OnChain' \subseteq OnChain /\ chain[Len(chain)] \subseteq OnChain
    BY <1>0, <1>2, ChainShrinks DEF Reorg
  <2>2. pool' \subseteq pool \cup OnChain /\ UNCHANGED <<pc, caps, held, sent, sendState, before, unheard>>
    BY <1>2, <2>1 DEF Reorg
  <2> QED BY <2>1, <2>2 DEF Same
<1>3. CASE Quiet
  <2>1. UNCHANGED <<pc, caps, held, sent, sendState, before, unheard, chain, pool>>
    BY <1>3 DEF Quiet, senders, past
  <2>2. OnChain' = OnChain
    BY <2>1 DEF OnChain
  <2> QED BY <2>1, <2>2 DEF Same
<1>4. ASSUME NEW t \in Sender, t # s, Call(t) \/ Trouble(t), ~ Quiet PROVE Same(s)
  <2>1. /\ DOMAIN pc = Sender /\ caps \in [Sender -> GasCaps]
        /\ held \in [Sender -> Nat \cup {None}] /\ sent \in [Sender -> SUBSET Tx]
        /\ sendState \in [Sender -> SendState]
        /\ before \in [Sender -> SUBSET Tx] /\ unheard \in [Sender -> SUBSET Tx]
    BY <1>0 DEF TypeOK, PastInv
  <2>2. ASSUME UNCHANGED <<chain, pool, before, unheard>>,
               pc'[s] = pc[s] /\ caps'[s] = caps[s] /\ held'[s] = held[s],
               sent'[s] = sent[s] /\ sendState'[s] = sendState[s]
        PROVE  Same(s)
    <3>1. OnChain' = OnChain
      BY <2>2 DEF OnChain
    <3> QED BY <2>2, <3>1 DEF Same
  <2>3. CASE NextNonceCached(t) \/ NextNonceAnswer(t)
    <3>1. UNCHANGED <<chain, pool, before, unheard, caps, sent, sendState>>
      BY <2>3 DEF NextNonceCached, NextNonceAnswer, past
    <3>2. pc'[s] = pc[s] /\ held'[s] = held[s]
      BY <1>4, <2>1, <2>3 DEF NextNonceCached, NextNonceAnswer, HandOut, Goto
    <3> QED BY <2>2, <3>1, <3>2
  <2>4. CASE NextNonceAsk(t) \/ NextNonceFails(t) \/ ResetAsk(t) \/ PriceFails(t)
    <3>1. UNCHANGED <<chain, pool, before, unheard, caps, sent, sendState, held>>
      BY <2>4 DEF NextNonceAsk, NextNonceFails, ResetAsk, PriceFails, past
    <3>2. \E label : pc' = [pc EXCEPT ![t] = label]
      BY <2>4 DEF NextNonceAsk, NextNonceFails, ResetAsk, PriceFails, Goto
    <3>3. pc'[s] = pc[s]
      BY <1>4, <2>1, <3>2
    <3> QED BY <2>2, <3>1, <3>3
  <2>5. CASE ResetApply(t)
    <3>1. /\ UNCHANGED <<chain, pool, caps>>
          /\ pc'[s] = pc[s] /\ held'[s] = held[s] /\ sent'[s] = sent[s]
          /\ sendState'[s] = sendState[s] /\ before'[s] = before[s] /\ unheard'[s] = unheard[s]
      BY <1>4, <2>1, <2>5 DEF ResetApply, Goto
    <3>2. OnChain' = OnChain
      BY <3>1 DEF OnChain
    <3> QED BY <3>1, <3>2 DEF Same
  <2>6. CASE Price(t)
    <3>1. \E c : caps' = [caps EXCEPT ![t] = c]
      BY <2>6 DEF Price
    <3>2. /\ UNCHANGED <<chain, pool, before, unheard, held, sent, sendState>>
          /\ pc' = [pc EXCEPT ![t] = "priced"]
      BY <2>6 DEF Price, Goto, past
    <3>3. caps'[s] = caps[s] /\ pc'[s] = pc[s]
      BY <1>4, <2>1, <3>1, <3>2
    <3> QED BY <2>2, <3>2, <3>3
  <2>7. CASE Bump(t)
    <3>1. /\ UNCHANGED <<chain, pool, before, unheard, pc, held, sent>>
          /\ caps'[s] = caps[s] /\ sendState'[s] = sendState[s]
      BY <1>4, <2>1, <2>7 DEF Bump, past
    <3> QED BY <2>2, <3>1
  <2>8. CASE PublishAccepted(t) \/ PublishRejected(t) \/ PublishFails(t)
    <3>1. PublishAttempt(t)
      BY <2>8 DEF PublishAccepted, PublishRejected, PublishFails
    <3>2. PublishAccepted(t) \/ \E error : AfterError(t, error)
      BY <2>8 DEF PublishRejected, PublishFails
    <3>3. /\ \E st : sendState' = [sendState EXCEPT ![t] = st]
          /\ \E label : pc' = [pc EXCEPT ![t] = label]
      BY <3>2 DEF PublishAccepted, AfterError, Goto
    <3>4. unheard' = unheard \/ unheard' = [unheard EXCEPT ![t] = @ \cup {BuildRequest(t)}]
      BY <2>8 DEF PublishAccepted, PublishRejected, PublishFails
    <3>5. pool' \subseteq pool \cup {BuildRequest(t)}
      BY <2>8 DEF PublishAccepted, PublishRejected, PublishFails, Accept
    <3>6. BuildRequest(t).from = t
      BY DEF BuildRequest
    <3>7. UNCHANGED <<chain, caps, held, before>> /\ sent' = [sent EXCEPT ![t] = @ \cup {BuildRequest(t)}]
      BY <3>1 DEF PublishAttempt
    <3>8. OnChain' = OnChain
      BY <3>7 DEF OnChain
    <3>9. /\ pc'[s] = pc[s] /\ sendState'[s] = sendState[s] /\ unheard'[s] = unheard[s]
          /\ sent'[s] = sent[s]
      BY <1>4, <2>1, <3>3, <3>4, <3>7
    <3> QED BY <1>4, <3>5, <3>6, <3>7, <3>8, <3>9 DEF Same
  <2>9. CASE GetReceipt(t) \/ ResubmissionTimeout(t) \/ ReceiptGone(t)
    <3>1. \E st : sendState' = [sendState EXCEPT ![t] = st]
      BY <2>9 DEF GetReceipt, ResubmissionTimeout, ReceiptGone
    <3>2. /\ UNCHANGED <<chain, pool, before, unheard, caps, held, sent>>
          /\ \E label : pc' = [pc EXCEPT ![t] = label]
      BY <2>9 DEF GetReceipt, ResubmissionTimeout, ReceiptGone, Goto, past
    <3>3. pc'[s] = pc[s] /\ sendState'[s] = sendState[s]
      BY <1>4, <2>1, <3>1, <3>2
    <3> QED BY <2>2, <3>2, <3>3
  <2>10. CASE ReceiptReverted(t) \/ WaitForConfirmations(t)
    <3>1. /\ UNCHANGED <<chain, pool, before, unheard, caps, held, sent, sendState>>
          /\ \E label : pc' = [pc EXCEPT ![t] = label]
      BY <2>10 DEF ReceiptReverted, WaitForConfirmations, Goto, past
    <3>2. pc'[s] = pc[s]
      BY <1>4, <2>1, <3>1
    <3> QED BY <2>2, <3>1, <3>2
  <2>11. ~ (ResetFails(t) \/ GetReceiptFails(t) \/ WaitForConfirmationsFails(t))
    BY <1>4, QuietSteps
  <2> QED BY <1>4, <2>3, <2>4, <2>5, <2>6, <2>7, <2>8, <2>9, <2>10, <2>11 DEF Call, Trouble
<1> QED BY <1>1, <1>2, <1>3, <1>4, QuietSteps DEF Next

(* What the error of an attempt does to the bumps.                         *)
LEMMA AfterErrorBumps ==
    ASSUME TypeOK, NEW s \in Sender, NEW error, AfterError(s, error)
    PROVE  \/ error = "Underpriced" /\ sendState'[s].bumps # 0
           \/ /\ sendState'[s].bumps = sendState[s].bumps
              /\ sendState'[s].bump = sendState[s].bump
<1>1. sendState[s] \in SendState /\ sendState \in [Sender -> SendState]
  BY DEF TypeOK
<1>2. CASE error = "Underpriced"
  <2>1. sendState' = [sendState EXCEPT ![s] = SetBumpFees(sendState[s])]
    BY <1>2 DEF AfterError
  <2>2. sendState'[s] = SetBumpFees(sendState[s])
    BY <1>1, <2>1
  <2>3. SetBumpFees(sendState[s]).bumps = sendState[s].bumps + 1
    BY <1>1 DEF SetBumpFees, SendState
  <2>4. sendState[s].bumps \in Nat
    BY <1>1 DEF SendState
  <2> QED BY <1>2, <2>2, <2>3, <2>4
<1>3. CASE error = "NonceTooLow"
  <2>1. sendState' = [sendState EXCEPT ![s] = NonceTooLow(sendState[s])]
    BY <1>3 DEF AfterError
  <2>2. sendState'[s] = NonceTooLow(sendState[s])
    BY <1>1, <2>1
  <2>3. /\ NonceTooLow(sendState[s]).bumps = sendState[s].bumps
        /\ NonceTooLow(sendState[s]).bump = sendState[s].bump
    BY <1>1 DEF NonceTooLow, SendState
  <2> QED BY <2>2, <2>3
<1>4. CASE error # "Underpriced" /\ error # "NonceTooLow"
  <2>1. sendState' = [sendState EXCEPT ![s] = sendState[s]]
    BY <1>4 DEF AfterError
  <2> QED BY <1>1, <2>1
<1> QED BY <1>2, <1>3, <1>4

(* The ways in which a step can touch a sender's fees: it prices, it       *)
(* bumps, it begins anew, or it keeps the caps and sends at most what they *)
(* make.                                                                   *)
LEMMA FeeKinds ==
    ASSUME Inv, [Next]_vars, NEW s \in Sender
    PROVE  \/ Price(s) \/ Bump(s)
           \/ /\ sent'[s] = {} /\ caps'[s] = caps[s]
              /\ sendState'[s] \in {sendState[s], NewSendState}
           \/ /\ caps'[s] = caps[s] /\ held'[s] = held[s]
              /\ sent'[s] \subseteq sent[s] \cup {BuildRequest(s)}
              /\ sendState'[s].bumps = 0 =>
                    sendState[s].bumps = 0 /\ sendState'[s].bump = sendState[s].bump
<1>1. /\ TypeOK /\ DOMAIN pc = Sender /\ sent \in [Sender -> SUBSET Tx]
      /\ sendState \in [Sender -> SendState] /\ sendState[s] \in SendState
      /\ sendState[s].bumps \in Nat
  BY DEF Inv, TypeOK, SendState
<1>2. CASE Same(s)
  BY <1>2 DEF Same
<1>3. CASE NextNonceCached(s) \/ NextNonceAnswer(s)
  <2>1. UNCHANGED <<caps, sent, sendState>>
    BY <1>3 DEF NextNonceCached, NextNonceAnswer
  <2>2. sent[s] = {}
    BY <1>3 DEF NextNonceCached, NextNonceAnswer, Inv, SentInv
  <2> QED BY <2>1, <2>2
<1>4. CASE \/ NextNonceAsk(s) \/ NextNonceFails(s) \/ ResetAsk(s) \/ PriceFails(s)
           \/ ReceiptReverted(s) \/ WaitForConfirmations(s)
  <2>1. UNCHANGED <<caps, held, sent, sendState>>
    BY <1>4 DEF NextNonceAsk, NextNonceFails, ResetAsk, PriceFails, ReceiptReverted,
                WaitForConfirmations
  <2> QED BY <2>1
<1>41. CASE ResetFails(s) \/ GetReceiptFails(s) \/ WaitForConfirmationsFails(s)
  <2>1. UNCHANGED <<caps, held, sent, sendState>>
    BY <1>41, QuietSteps DEF Quiet, senders
  <2> QED BY <2>1
<1>5. CASE ResetApply(s)
  <2>1. /\ caps' = caps /\ sent' = [sent EXCEPT ![s] = {}]
        /\ sendState' = [sendState EXCEPT ![s] = NewSendState]
    BY <1>5 DEF ResetApply
  <2> QED BY <1>1, <2>1
<1>6. CASE PublishAccepted(s) \/ PublishRejected(s) \/ PublishFails(s)
  <2>1. /\ UNCHANGED <<caps, held>>
        /\ sent' = [sent EXCEPT ![s] = @ \cup {BuildRequest(s)}]
    BY <1>6 DEF PublishAccepted, PublishRejected, PublishFails, PublishAttempt
  <2>2. sent'[s] = sent[s] \cup {BuildRequest(s)}
    BY <1>1, <2>1
  <2>3. sendState'[s].bumps = 0 =>
           sendState[s].bumps = 0 /\ sendState'[s].bump = sendState[s].bump
    <3>1. CASE PublishAccepted(s)
      <4>1. sendState'[s] = TxPublished(sendState[s])
        BY <1>1, <3>1 DEF PublishAccepted
      <4> QED BY <1>1, <4>1 DEF TxPublished, SendState
    <3>2. CASE PublishRejected(s) \/ PublishFails(s)
      <4>1. PICK error : AfterError(s, error)
        BY <3>2 DEF PublishRejected, PublishFails
      <4> QED BY <1>1, <4>1, AfterErrorBumps
    <3> QED BY <1>6, <3>1, <3>2
  <2> QED BY <2>1, <2>2, <2>3
<1>8. CASE GetReceipt(s) \/ ReceiptGone(s)
  <2>1. UNCHANGED <<caps, held, sent>>
    BY <1>8 DEF GetReceipt, ReceiptGone
  <2>2. PICK st : /\ sendState' = [sendState EXCEPT ![s] = st]
                  /\ \/ \E tx : st = TxMined(sendState[s], tx)
                     \/ \E txs : st = TxNotMined(sendState[s], txs)
    BY <1>8 DEF GetReceipt, ReceiptGone
  <2>3. st.bumps = sendState[s].bumps /\ st.bump = sendState[s].bump
    BY <1>1, <2>2 DEF SendState, TxMined, TxNotMined
  <2>4. sendState'[s] = st
    BY <1>1, <2>2
  <2> QED BY <2>1, <2>3, <2>4
<1>9. CASE ResubmissionTimeout(s)
  <2>1. /\ UNCHANGED <<caps, held, sent>>
        /\ sendState' = [sendState EXCEPT ![s] = SetBumpFees(@)]
    BY <1>9 DEF ResubmissionTimeout
  <2>2. sendState'[s] = SetBumpFees(sendState[s])
    BY <1>1, <2>1
  <2>3. SetBumpFees(sendState[s]).bumps = sendState[s].bumps + 1
    BY <1>1 DEF SetBumpFees, SendState
  <2>4. sendState'[s].bumps # 0
    BY <1>1, <2>2, <2>3
  <2> QED BY <2>1, <2>4
<1> QED
  BY <1>2, <1>3, <1>4, <1>41, <1>5, <1>6, <1>8, <1>9, OthersKeep DEF Call, Trouble

(* Caps that offer no more than others.                                    *)
NotAbove(c, d) ==
    /\ c.tip <= d.tip /\ c.fee <= d.fee
    /\ c.blob = None <=> d.blob = None
    /\ d.blob # None => c.blob <= d.blob

(* Caps are ordered, and different caps strictly.                          *)
LEMMA NotAboveOrders ==
    ASSUME NEW c \in GasCaps, NEW d \in GasCaps, NEW e \in GasCaps, NotAbove(c, d)
    PROVE  /\ NotAbove(d, e) => NotAbove(c, e)
           /\ NotAbove(d, c) => c = d
           /\ NotAbove(c, c)
<1>1. /\ c.tip \in Nat /\ d.tip \in Nat /\ e.tip \in Nat
      /\ c.fee \in Nat /\ d.fee \in Nat /\ e.fee \in Nat
      /\ c.blob \in Nat \cup {None} /\ d.blob \in Nat \cup {None} /\ e.blob \in Nat \cup {None}
  BY DEF GasCaps
<1>2. NotAbove(d, e) => NotAbove(c, e)
  BY <1>1 DEF NotAbove
<1>3. ASSUME NotAbove(d, c) PROVE c = d
  <2>1. c.tip = d.tip /\ c.fee = d.fee /\ c.blob = d.blob
    BY <1>1, <1>3 DEF NotAbove
  <2> QED BY <2>1 DEF GasCaps
<1>4. NotAbove(c, c)
  BY <1>1 DEF NotAbove
<1> QED BY <1>2, <1>3, <1>4

(* The mempool takes what offers no less than what it would take.          *)
LEMMA ReplacesGrows ==
    ASSUME NEW a \in Tx, NEW b \in Tx, NEW p \in Tx, Replaces(a, p),
           NotAbove(a.caps, b.caps)
    PROVE  Replaces(b, p)
<1>1. \A v \in Int, q \in {10, 100} : Bumped(v, q) \in Int
  BY DEF Bumped
<1>2. /\ a.caps \in GasCaps /\ b.caps \in GasCaps /\ p.caps \in GasCaps
  BY DEF Tx
<1>3. /\ a.caps.tip \in Int /\ b.caps.tip \in Int /\ p.caps.tip \in Int
      /\ a.caps.fee \in Int /\ b.caps.fee \in Int /\ p.caps.fee \in Int
      /\ a.caps.blob \in Int /\ b.caps.blob \in Int /\ p.caps.blob \in Int
  BY <1>2 DEF GasCaps, None
<1> DEFINE raised(n, o, q) == n > o /\ n * 100 >= Bumped(o, q) * 100
<1>4. \A n, m, o \in Int, q \in {10, 100} : n <= m /\ raised(n, o, q) => raised(m, o, q)
  BY <1>1
<1> DEFINE q == IF a.caps.blob = None THEN 10 ELSE 100
<1>5. /\ raised(a.caps.tip, p.caps.tip, q) /\ raised(a.caps.fee, p.caps.fee, q)
      /\ a.caps.blob # None => raised(a.caps.blob, p.caps.blob, q)
  BY DEF Replaces
<1>6. q = (IF b.caps.blob = None THEN 10 ELSE 100) /\ q \in {10, 100}
  BY DEF NotAbove
<1> HIDE DEF raised, q
<1>7. /\ raised(b.caps.tip, p.caps.tip, q) /\ raised(b.caps.fee, p.caps.fee, q)
      /\ b.caps.blob # None => raised(b.caps.blob, p.caps.blob, q)
  BY <1>3, <1>4, <1>5, <1>6 DEF NotAbove
<1> QED BY <1>6, <1>7 DEF Replaces, raised

(* What a sender builds from bumped caps: no less than before, and enough  *)
(* for the mempool to take it in place of the old transaction if that has  *)
(* fees a percentage can raise.                                            *)
LEMMA BumpReplaces ==
    ASSUME NEW s \in Sender, NEW c \in GasCaps,
           NEW x \in Tx, x.caps = RequestCaps(s, c),
           NEW y \in Tx, y.caps = RequestCaps(s, BumpGasCaps(c, BumpPercent(s)))
    PROVE  /\ NotAbove(x.caps, y.caps)
           /\ PercentsSuffice /\ Felt(x.caps) => Replaces(y, x)
<1> DEFINE P == BumpPercent(s)
           b == BumpGasCaps(c, P)
<1>1. P \in Nat /\ (PercentsSuffice => P >= 10 /\ (IsBlob(s) => P >= 100))
  BY ConfigTypes DEF BumpPercent, PercentsSuffice
<1>2. c.tip \in Nat /\ c.fee \in Nat /\ (c.blob # None => c.blob \in Nat)
  BY DEF GasCaps
<1>3. /\ b.tip = Bumped(c.tip, P) /\ b.fee = Bumped(c.fee, P)
      /\ c.blob = None => b.blob = None
      /\ c.blob # None => b.blob = Bumped(c.blob, P)
  BY DEF BumpGasCaps, Optional
<1>4. /\ b \in GasCaps /\ b.tip \in Nat /\ b.fee \in Nat
      /\ c.blob # None => b.blob \in Nat
  BY <1>1, <1>2, <1>3, BumpGasCapsType, BumpedType DEF GasCaps
<1> DEFINE raised(n, o, q) == n > o /\ n * 100 >= Bumped(o, q) * 100
<1>5. ASSUME NEW o \in Nat, NEW q \in {10, 100}, q <= P, o * q >= 100
      PROVE  raised(Bumped(o, P), o, q)
  <2>1. Bumped(o, P) > o
    BY <1>1, <1>5, BumpedRaises
  <2>2. Bumped(o, q) <= Bumped(o, P)
    <3>1. q \in Nat /\ o <= o
      BY <1>5
    <3> QED BY <1>1, <1>5, <3>1, BumpedOrder
  <2>3. Bumped(o, q) \in Nat /\ Bumped(o, P) \in Nat
    BY <1>1, BumpedType
  <2> QED BY <2>1, <2>2, <2>3
<1>6. \A o \in Nat : o <= Bumped(o, P)
  <2> SUFFICES ASSUME NEW o \in Nat PROVE o <= Bumped(o, P)
    OBVIOUS
  <2>1. o <= o /\ P <= P
    BY <1>1
  <2> QED BY <1>1, <2>1, BumpedOrder
<1>7. /\ c.tip <= b.tip /\ c.fee <= b.fee
      /\ c.blob # None => c.blob <= b.blob
      /\ c.blob = None <=> b.blob = None
  BY <1>2, <1>3, <1>4, <1>6, NoneApart
<1> HIDE DEF P, b
<1>8. /\ x.caps.tip = c.tip /\ x.caps.fee = c.fee
      /\ x.caps.blob = (IF IsBlob(s) THEN c.blob ELSE None)
  BY DEF RequestCaps, GasCaps
<1>9. /\ y.caps.tip = b.tip /\ y.caps.fee = b.fee
      /\ y.caps.blob = (IF IsBlob(s) THEN b.blob ELSE None)
  BY <1>4 DEF RequestCaps, GasCaps, P, b
<1>10. NotAbove(x.caps, y.caps)
  BY <1>7, <1>8, <1>9 DEF NotAbove
<1>11. ASSUME PercentsSuffice, Felt(x.caps) PROVE Replaces(y, x)
  <2> DEFINE q == IF y.caps.blob = None THEN 10 ELSE 100
  <2>1. q \in {10, 100} /\ q <= P
    BY <1>1, <1>9, <1>11
  <2>2. /\ c.tip * q >= 100 /\ c.fee * q >= 100
        /\ y.caps.blob # None => c.blob * q >= 100
    <3>1. q = (IF x.caps.blob = None THEN 10 ELSE 100)
      BY <1>10 DEF NotAbove
    <3> HIDE DEF q
    <3>2. \A fee \in {x.caps.tip, x.caps.fee} \cup ({x.caps.blob} \ {None}) : fee * q >= 100
      BY <1>11, <3>1 DEF Felt
    <3>3. y.caps.blob # None => x.caps.blob # None /\ x.caps.blob = c.blob
      BY <1>8, <1>9, <1>10 DEF NotAbove
    <3> QED BY <1>8, <3>2, <3>3
  <2> HIDE DEF q
  <2>3. raised(y.caps.tip, x.caps.tip, q) /\ raised(y.caps.fee, x.caps.fee, q)
    BY <1>2, <1>3, <1>5, <1>8, <1>9, <2>1, <2>2
  <2>4. y.caps.blob # None => raised(y.caps.blob, x.caps.blob, q)
    BY <1>2, <1>3, <1>5, <1>7, <1>8, <1>9, <2>1, <2>2
  <2> QED BY <2>3, <2>4 DEF Replaces, q
<1> QED BY <1>10, <1>11

(* What a sender's request becomes by a bump.                              *)
LEMMA BumpRequest ==
    ASSUME Inv, NEW s \in Sender, Bump(s)
    PROVE  /\ BuildRequest(s) \in Tx /\ BuildRequest(s).caps = RequestCaps(s, caps[s])
           /\ BuildRequest(s)' \in Tx
           /\ BuildRequest(s)'.caps = RequestCaps(s, BumpGasCaps(caps[s], BumpPercent(s)))
           /\ caps[s] \in GasCaps /\ caps'[s] = BumpGasCaps(caps[s], BumpPercent(s))
<1>1. caps \in [Sender -> GasCaps] /\ caps[s] \in GasCaps /\ BumpPercent(s) \in Nat
  BY ConfigTypes DEF Inv, TypeOK, BumpPercent
<1>2. /\ caps'[s] = BumpGasCaps(caps[s], BumpPercent(s))
      /\ UNCHANGED <<pc, held>> /\ pc[s] = "priced"
  BY <1>1 DEF Bump
<1> DEFINE b == BumpGasCaps(caps[s], BumpPercent(s))
<1>3. b \in GasCaps
  BY <1>1, BumpGasCapsType
<1> HIDE DEF b
<1>4. RequestCaps(s, b) \in GasCaps
  BY <1>3 DEF RequestCaps, GasCaps
<1>5. held[s] \in Nat
  BY <1>2 DEF Inv, TypeOK, AuxOK
<1>6. BuildRequest(s)' = [from |-> s, nonce |-> held[s], caps |-> RequestCaps(s, b)]
  BY <1>2 DEF BuildRequest, RequestCaps, b
<1>7. BuildRequest(s) \in Tx
  BY <1>2, BuildRequestType DEF Inv
<1>8. BuildRequest(s).caps = RequestCaps(s, caps[s])
  BY DEF BuildRequest
<1>9. BuildRequest(s)' \in Tx
  BY <1>4, <1>5, <1>6 DEF Tx
<1>10. BuildRequest(s)'.caps = RequestCaps(s, b)
  BY <1>6
<1> QED BY <1>1, <1>2, <1>7, <1>8, <1>9, <1>10 DEF b

(* What a sender has sent offers no more than what it would send now, and  *)
(* before the first bump is nothing else.                                  *)
AttemptInv(s) ==
    /\ \A p \in sent[s] : NotAbove(p.caps, BuildRequest(s).caps)
    /\ sendState[s].bumps = 0 =>
          sendState[s].bump = FALSE /\ sent[s] \subseteq {BuildRequest(s)}

(* Every step keeps it: caps only grow while a send lasts.                 *)
LEMMA AttemptStep ==
    ASSUME Inv, [Next]_vars, NEW s \in Sender, AttemptInv(s)
    PROVE  AttemptInv(s)'
<1>1. /\ caps[s] \in GasCaps /\ sent \in [Sender -> SUBSET Tx]
      /\ sendState \in [Sender -> SendState] /\ sendState[s] \in SendState
  BY DEF Inv, TypeOK
<1>2. CASE Price(s)
  <2>1. sent' = sent /\ sent[s] = {} /\ sendState' = sendState
    BY <1>2 DEF Price, Inv, SentInv
  <2> QED BY <2>1 DEF AttemptInv
<1>3. CASE Bump(s)
  <2> DEFINE x == BuildRequest(s)
             y == BuildRequest(s)'
  <2>1. x \in Tx /\ y \in Tx /\ NotAbove(x.caps, y.caps)
    BY <1>3, BumpRequest, BumpReplaces
  <2>2. sendState[s].bump /\ sendState'[s] = TakeBumpFees(sendState[s]) /\ sent' = sent
    BY <1>1, <1>3 DEF Bump
  <2>3. sendState'[s].bumps # 0
    BY <1>1, <2>2 DEF AttemptInv, TakeBumpFees, SendState
  <2>4. \A p \in sent[s] : p.caps \in GasCaps /\ NotAbove(p.caps, x.caps)
    BY <1>1 DEF Tx, AttemptInv
  <2>5. x.caps \in GasCaps /\ y.caps \in GasCaps
    BY <2>1 DEF Tx
  <2> HIDE DEF x, y
  <2>6. \A p \in sent[s] : NotAbove(p.caps, y.caps)
    BY <2>1, <2>4, <2>5, NotAboveOrders
  <2> QED BY <2>2, <2>3, <2>6 DEF AttemptInv, NotAbove, y
<1>4. CASE sent'[s] = {} /\ sendState'[s] \in {sendState[s], NewSendState}
  <2>1. NewSendState.bump = FALSE
    BY DEF NewSendState
  <2> QED BY <1>4, <2>1 DEF AttemptInv
<1>5. CASE /\ caps'[s] = caps[s] /\ held'[s] = held[s]
           /\ sent'[s] \subseteq sent[s] \cup {BuildRequest(s)}
           /\ sendState'[s].bumps = 0 =>
                 sendState[s].bumps = 0 /\ sendState'[s].bump = sendState[s].bump
  <2>1. BuildRequest(s)' = BuildRequest(s)
    BY <1>5 DEF BuildRequest
  <2>2. BuildRequest(s).caps \in GasCaps
    BY <1>1 DEF BuildRequest, RequestCaps, GasCaps
  <2>3. NotAbove(BuildRequest(s).caps, BuildRequest(s).caps)
    BY <2>2 DEF NotAbove, GasCaps
  <2>4. \A p \in sent'[s] : NotAbove(p.caps, BuildRequest(s).caps)
    BY <1>5, <2>3 DEF AttemptInv
  <2>5. sendState'[s].bumps = 0 =>
           sendState'[s].bump = FALSE /\ sent'[s] \subseteq {BuildRequest(s)}
    BY <1>5 DEF AttemptInv
  <2> QED BY <2>1, <2>4, <2>5 DEF AttemptInv, NotAbove
<1> QED BY <1>2, <1>3, <1>4, <1>5, FeeKinds

(* A bump that changes nothing in the request.                             *)
RoundsAway(s) ==
    RequestCaps(s, BumpGasCaps(caps[s], BumpPercent(s))) = RequestCaps(s, caps[s])

(* L1 has what a sender is about to send only if the answer was lost, or   *)
(* an earlier send left it there, or a bump came to nothing.               *)
KnownInv(s) ==
    /\ pc[s] = "priced" /\ sendState[s].bump = FALSE
    /\ BuildRequest(s) \in pool \cup OnChain
    => BuildRequest(s) \in unheard[s] \cup before[s] \/ RoundsAway(s)

(* The steps after which a sender is about to send.                        *)
LEMMA PricedKinds ==
    ASSUME Inv, [Next]_vars, NEW s \in Sender, pc'[s] = "priced", sendState'[s].bump = FALSE
    PROVE  Price(s) \/ Bump(s) \/ PublishRejected(s) \/ PublishFails(s) \/ Same(s)
<1>1. /\ TypeOK /\ DOMAIN pc = Sender
      /\ sendState \in [Sender -> SendState] /\ sendState[s] \in SendState
  BY DEF Inv, TypeOK
<1>2. ~ (NextNonceCached(s) \/ NextNonceAnswer(s) \/ ResetApply(s))
  BY <1>1 DEF NextNonceCached, NextNonceAnswer, HandOut, ResetApply, Goto
<1>3. ~ (NextNonceAsk(s) \/ NextNonceFails(s) \/ ResetAsk(s) \/ PriceFails(s))
  BY <1>1 DEF NextNonceAsk, NextNonceFails, ResetAsk, PriceFails, Goto
<1>4. ~ (PublishAccepted(s) \/ GetReceipt(s) \/ ReceiptGone(s) \/ ReceiptReverted(s)
          \/ WaitForConfirmations(s))
  BY <1>1 DEF PublishAccepted, GetReceipt, ReceiptGone, ReceiptReverted, WaitForConfirmations, Goto
<1>5. ~ ResubmissionTimeout(s)
  <2> SUFFICES ASSUME ResubmissionTimeout(s) PROVE FALSE
    OBVIOUS
  <2>1. sendState'[s] = SetBumpFees(sendState[s])
    BY <1>1 DEF ResubmissionTimeout
  <2>2. SetBumpFees(sendState[s]).bump = TRUE
    BY <1>1 DEF SetBumpFees, SendState
  <2> QED BY <2>1, <2>2
<1>6. ASSUME ResetFails(s) \/ GetReceiptFails(s) \/ WaitForConfirmationsFails(s) PROVE Same(s)
  <2>1. UNCHANGED <<pc, caps, held, sent, sendState, before, unheard, chain, pool>>
    BY <1>6, QuietSteps DEF Quiet, senders, past
  <2>2. OnChain' = OnChain
    BY <2>1 DEF OnChain
  <2> QED BY <2>1, <2>2 DEF Same
<1> QED BY <1>2, <1>3, <1>4, <1>5, <1>6, OthersKeep DEF Call, Trouble

(* Every step keeps it.                                                    *)
LEMMA KnownStep ==
    ASSUME Inv, [Next]_vars, NEW s \in Sender, AttemptInv(s), KnownInv(s)
    PROVE  KnownInv(s)'
<1> SUFFICES ASSUME pc'[s] = "priced", sendState'[s].bump = FALSE,
                    BuildRequest(s)' \in (pool \cup OnChain)'
             PROVE  BuildRequest(s)' \in unheard'[s] \cup before'[s] \/ RoundsAway(s)'
  BY DEF KnownInv
<1>1. BuildRequest(s)'.from = s /\ BuildRequest(s).from = s
  BY DEF BuildRequest
<1>2. \A tx \in pool \cup OnChain : tx.from = s => tx \in sent[s] \cup before[s]
  BY DEF Inv, PastInv
<1>3. CASE Price(s)
  <2>1. UNCHANGED <<chain, pool, before>> /\ sent[s] = {}
    BY <1>3 DEF Price, past, Inv, SentInv
  <2>2. OnChain' = OnChain
    BY <2>1 DEF OnChain
  <2> QED BY <1>1, <1>2, <2>1, <2>2
<1>4. CASE Bump(s)
  <2> DEFINE c == caps[s]
             P == BumpPercent(s)
             b == BumpGasCaps(c, P)
             x == BuildRequest(s)
             y == BuildRequest(s)'
  <2>1. /\ x \in Tx /\ y \in Tx /\ c \in GasCaps /\ caps'[s] = b
        /\ x.caps = RequestCaps(s, c) /\ y.caps = RequestCaps(s, b)
    BY <1>4, BumpRequest
  <2>2. UNCHANGED <<chain, pool, before>>
    BY <1>4 DEF Bump, past
  <2>3. OnChain' = OnChain
    BY <2>2 DEF OnChain
  <2>4. y \in sent[s] \cup before[s]
    BY <1>1, <1>2, <2>2, <2>3
  <2>5. ASSUME y \in sent[s] PROVE RoundsAway(s)'
    <3>1. NotAbove(y.caps, x.caps)
      BY <2>5 DEF AttemptInv
    <3>2. NotAbove(x.caps, y.caps)
      BY <2>1, BumpReplaces
    <3>3. x.caps \in GasCaps /\ y.caps \in GasCaps
      BY <2>1 DEF Tx
    <3> HIDE DEF x, y
    <3>4. x.caps = y.caps
      BY <3>1, <3>2, <3>3, NotAboveOrders
    <3>5. RequestCaps(s, b) = RequestCaps(s, c)
      BY <2>1, <3>4
    <3>6. P \in Nat /\ b \in GasCaps
      BY <2>1, ConfigTypes, BumpGasCapsType DEF BumpPercent
    <3>7. b.tip = Bumped(c.tip, P) /\ b.fee = Bumped(c.fee, P)
      BY DEF BumpGasCaps
    <3>8. b.blob = Optional(LAMBDA f : Bumped(f, P), c.blob)
      BY DEF BumpGasCaps
    <3> DEFINE d == BumpGasCaps(b, P)
    <3>9. /\ d.tip = Bumped(b.tip, P) /\ d.fee = Bumped(b.fee, P)
          /\ d.blob = Optional(LAMBDA f : Bumped(f, P), b.blob)
      BY DEF BumpGasCaps
    <3>10. d \in GasCaps
      BY <3>6, BumpGasCapsType
    <3> HIDE DEF b, d, P, c
    <3>11. /\ b.tip = c.tip /\ b.fee = c.fee /\ (IsBlob(s) => b.blob = c.blob)
      BY <2>1, <3>5, <3>6 DEF RequestCaps, GasCaps
    <3>12. /\ d.tip = b.tip /\ d.fee = b.fee /\ (IsBlob(s) => d.blob = b.blob)
      BY <3>7, <3>8, <3>9, <3>11
    <3>13. RequestCaps(s, d) = RequestCaps(s, b)
      BY <3>6, <3>10, <3>12 DEF RequestCaps, GasCaps
    <3>14. RoundsAway(s)' <=> RequestCaps(s, BumpGasCaps(caps'[s], P)) = RequestCaps(s, caps'[s])
      BY DEF RoundsAway, P, RequestCaps, BumpPercent, IsBlob
    <3> QED BY <2>1, <3>13, <3>14 DEF d
  <2> QED BY <2>2, <2>4, <2>5
<1>5. CASE PublishRejected(s) \/ PublishFails(s)
  <2>1. /\ PublishAttempt(s) /\ pc[s] = "priced" /\ ~ sendState[s].bump
        /\ UNCHANGED <<chain, caps, held, before>>
    BY <1>5 DEF PublishRejected, PublishFails, PublishAttempt
  <2>2. OnChain' = OnChain /\ BuildRequest(s)' = BuildRequest(s)
    BY <2>1 DEF OnChain, BuildRequest
  <2>3. sendState[s].bump = FALSE
    BY <2>1 DEF Inv, TypeOK, SendState
  <2>4. \/ pool' = pool /\ unheard' = unheard
        \/ unheard' = [unheard EXCEPT ![s] = @ \cup {BuildRequest(s)}]
    BY <1>5 DEF PublishRejected, PublishFails
  <2>5. RoundsAway(s)' <=> RoundsAway(s)
    BY <2>1 DEF RoundsAway
  <2>6. unheard \in [Sender -> SUBSET Tx]
    BY DEF Inv, PastInv
  <2> QED BY <2>1, <2>2, <2>3, <2>4, <2>5, <2>6 DEF KnownInv
<1>6. CASE Same(s)
  <2>1. BuildRequest(s)' = BuildRequest(s)
    BY <1>6 DEF Same, BuildRequest
  <2>2. RoundsAway(s)' <=> RoundsAway(s)
    BY <1>6 DEF Same, RoundsAway
  <2> QED BY <1>1, <1>6, <2>1, <2>2 DEF Same, KnownInv
<1> QED BY <1>3, <1>4, <1>5, <1>6, PricedKinds

(* should_abort: a send is given up in the middle of its attempts for      *)
(* what the node has said of its transaction.                              *)
LEMMA AbortMeansRejected ==
    ASSUME Inv, [Next]_vars, NEW s \in Sender, pc[s] = "priced", pc'[s] = "aborted"
    PROVE  /\ PublishRejected(s)
           /\ Complaint(BuildRequest(s)) = "nonce too low" =>
                 ShouldAbortNonce(NonceTooLow(sendState[s]))
<1>1. TypeOK /\ DOMAIN pc = Sender
  BY DEF Inv, TypeOK
<1>2. Call(s) \/ Trouble(s)
  BY OthersKeep DEF Same
<1>3. Bump(s) \/ PublishAccepted(s) \/ PublishRejected(s) \/ PublishFails(s)
  BY <1>2 DEF Call, Trouble, NextNonceCached, NextNonceAsk, NextNonceAnswer, ResetApply,
              Price, GetReceipt, ReceiptReverted, WaitForConfirmations, NextNonceFails,
              ResetAsk, ResetFails, PriceFails, GetReceiptFails, WaitForConfirmationsFails,
              ResubmissionTimeout, ReceiptGone
<1>4. ~ Bump(s) /\ ~ PublishAccepted(s)
  BY <1>1 DEF Bump, PublishAccepted, Goto
<1>5. ~ PublishFails(s)
  <2> SUFFICES ASSUME PublishFails(s) PROVE FALSE
    OBVIOUS
  <2>1. AfterError(s, "Rpc")
    BY DEF PublishFails, FromRpcError
  <2>2. \A st : ~ ShouldAbort("Rpc", st)
    BY DEF ShouldAbort
  <2>3. pc' = [pc EXCEPT ![s] = "priced"]
    BY <2>1, <2>2 DEF AfterError, Goto
  <2> QED BY <1>1, <2>3
<1>6. PublishRejected(s)
  BY <1>3, <1>4, <1>5
<1>7. ASSUME Complaint(BuildRequest(s)) = "nonce too low"
      PROVE  ShouldAbortNonce(NonceTooLow(sendState[s]))
  <2>1. AfterError(s, "NonceTooLow")
    BY <1>6, <1>7 DEF PublishRejected, FromRpcError
  <2>2. pc' = [pc EXCEPT ![s] = IF ShouldAbort("NonceTooLow", NonceTooLow(sendState[s]))
                                THEN "aborted" ELSE "priced"]
    BY <2>1 DEF AfterError, Goto
  <2>3. ShouldAbort("NonceTooLow", NonceTooLow(sendState[s]))
    BY <1>1, <2>2
  <2> QED BY <2>3 DEF ShouldAbort
<1> QED BY <1>6, <1>7

(* Giving up is explained by what L1 has.                                  *)
LEMMA AbortStep ==
    ASSUME Inv, [Next]_vars, NEW s \in Sender, AttemptInv(s), KnownInv(s),
           pc[s] = "priced", pc'[s] = "aborted"
    PROVE  AbortExplained(s)
<1> DEFINE x == BuildRequest(s)
<1>1. PublishRejected(s) /\ sendState[s].bump = FALSE
  BY AbortMeansRejected DEF PublishRejected, PublishAttempt, Inv, TypeOK, SendState
<1>2. /\ TypeOK /\ AuxOK /\ x \in Tx /\ x.nonce = held[s] /\ held[s] \in Nat
  BY BuildRequestType DEF Inv, Tx
<1>3. ASSUME Complaint(x) = "already known"
      PROVE  x \in unheard[s] \cup before[s] \/ RoundsAway(s)
  <2>1. x \in pool
    BY <1>3 DEF Complaint
  <2> QED BY <1>1, <2>1 DEF KnownInv
<1>4. ASSUME Complaint(x) = "insufficient funds", ~ (sendState[s].bumps > 0)
      PROVE  sent[s] \cap (pool \cup OnChain) = {}
  <2>1. x.caps.fee \in Nat /\ MaxFee \in Nat /\ x.caps.fee > MaxFee
    BY <1>2, <1>4, TxAssumption DEF Complaint, Tx, GasCaps
  <2>2. x \notin pool \cup OnChain
    BY <2>1 DEF Inv, PastInv
  <2>3. sendState[s].bumps = 0
    <3>1. sendState[s] \in SendState
      BY <1>2 DEF TypeOK
    <3>2. sendState[s].bumps \in Nat
      BY <3>1 DEF SendState
    <3>3. \A n \in Nat : ~ (n > 0) => n = 0
      OBVIOUS
    <3> QED BY <1>4, <3>2, <3>3, Zenon
  <2>4. sent[s] \subseteq {x}
    BY <2>3 DEF AttemptInv
  <2> QED BY <2>2, <2>4
<1>5. ASSUME Complaint(x) = "nonce too low"
      PROVE  /\ ShouldAbortNonce(NonceTooLow(sendState[s]))
             /\ \E tx \in OnChain : tx.nonce = held[s] /\ (epoch = 0 => tx \in sent[s])
  <2>1. held[s] < AccountNonce
    BY <1>2, <1>5 DEF Complaint
  <2>2. PICK tx \in OnChain : tx.nonce = held[s]
    BY <1>2, <2>1 DEF Inv, ChainInv
  <2>3. ASSUME epoch = 0 PROVE tx \in sent[s]
    <3>1. tx \in Tx /\ tx.from \in Sender
      BY <1>2, OnChainType DEF Tx
    <3>2. tx \in sent[tx.from]
      BY <2>3, <3>1 DEF Inv, PastInv
    <3>3. held[tx.from] = held[s] /\ held[s] # None
      BY <1>2, <2>2, <3>1, <3>2, NoneApart DEF Inv, SentInv
    <3>4. heldEpoch[tx.from] = heldEpoch[s]
      <4>1. /\ heldEpoch[s] \in Nat /\ heldEpoch[s] <= 0
            /\ heldEpoch[tx.from] \in Nat /\ heldEpoch[tx.from] <= 0
        BY <2>3, <3>1 DEF Inv, NonceInv, AuxOK
      <4> QED BY <4>1
    <3>5. tx.from = s
      BY <3>1, <3>3, <3>4 DEF Inv, NonceInv, NoncesUnique
    <3> QED BY <3>2, <3>5
  <2> QED BY <1>5, <2>2, <2>3, AbortMeansRejected
<1> QED BY <1>3, <1>4, <1>5 DEF AbortExplained, RoundsAway

(* A send that is confirmed and settled is where its receipt says, and the *)
(* only one with its nonce.                                                *)
LEMMA ConfirmedHolds == Inv => ConfirmedOnce
<1> SUFFICES ASSUME Inv, NEW s \in Sender, Settled(s)
             PROVE  /\ receipt[s].txs \subseteq chain[receipt[s].block]
                    /\ Len(chain) + undone[s].since - receipt[s].block >= Config.num_confirmations
                    /\ \A t \in Sender \ {s} : Settled(t) => held[t] # held[s]
  BY DEF ConfirmedOnce
<1>1. /\ receipt[s].txs \subseteq chain[receipt[s].block]
      /\ Len(chain) + undone[s].since - receipt[s].block >= Config.num_confirmations
  BY DEF Inv, ReceiptInv, Settled, InPlace
<1>2. ASSUME NEW t \in Sender, Settled(t)
      PROVE  \E tx \in OnChain : tx.from = t /\ tx.nonce = held[t]
  <2>1. receipt[t].txs # {} /\ receipt[t].txs \subseteq sent[t]
    BY <1>2 DEF Inv, SentInv, Settled
  <2>2. receipt[t].block \in DOMAIN chain /\ receipt[t].txs \subseteq chain[receipt[t].block]
    BY <1>2 DEF Inv, ReceiptInv, Settled, InPlace
  <2>3. receipt[t].txs \subseteq OnChain
    BY <2>2 DEF OnChain
  <2> QED BY <2>1, <2>3 DEF Inv, SentInv
<1>3. \A tx, ty \in OnChain : tx.nonce = ty.nonce => tx = ty
  BY NonceOnce DEF Inv
<1> QED BY <1>1, <1>2, <1>3

(* wait_for_confirmations and should_abort, over every reorganization,     *)
(* reset and lost answer: a confirmed send whose block was not taken back  *)
(* while it waited stays on the chain, and the only one with its nonce,    *)
(* until more blocks go than it waited for; a send is given up for a       *)
(* transaction of its own that L1 has, for want of funds before L1 has any *)
(* of it or after a bump, or for a nonce that is mined, by this very send  *)
(* if there was no reset().                                                *)
THEOREM OutcomesAreTruthful == Spec => OutcomesTruthful
<1> DEFINE A == \A s \in Sender : AttemptInv(s) /\ KnownInv(s)
<1>1. ASSUME Init PROVE A
  <2> SUFFICES ASSUME NEW s \in Sender PROVE AttemptInv(s) /\ KnownInv(s)
    OBVIOUS
  <2>1. sendState[s].bump = FALSE /\ pc[s] = "idle" /\ sent[s] = {}
    BY <1>1 DEF Init, NewSendState
  <2> QED BY <2>1 DEF AttemptInv, KnownInv
<1>2. ASSUME Inv, A, [Next]_vars PROVE A'
  BY <1>2, AttemptStep, KnownStep
<1>3. ASSUME Inv, A, [Next]_vars
      PROVE  [\A s \in Sender : pc[s] = "priced" /\ pc'[s] = "aborted" => AbortExplained(s)]_vars
  BY <1>3, AbortStep
<1>4. Inv => TypeOK /\ ConfirmedOnce
  BY ConfirmedHolds DEF Inv
<1> HIDE DEF A
<1>5. Spec => AbortsExplained
  BY <1>1, <1>2, <1>3, Invariance, PTL DEF Spec, AbortsExplained
<1>6. Spec => [](TypeOK /\ ConfirmedOnce)
  BY <1>4, Invariance, PTL
<1> QED BY <1>5, <1>6 DEF OutcomesTruthful

-----------------------------------------------------------------------------
(* Fees.                                                                   *)

(* Every step keeps the tip below the fee cap: a percentage of the larger  *)
(* is the larger.                                                          *)
LEMMA CapsStep ==
    ASSUME Inv, CapsOrdered, [Next]_vars
    PROVE  CapsOrdered'
<1> SUFFICES ASSUME NEW s \in Sender, ~ CutBelowTip(s) PROVE caps'[s].tip <= caps'[s].fee
  BY DEF CapsOrdered, CutBelowTip
<1>1. caps \in [Sender -> GasCaps] /\ caps[s] \in GasCaps /\ caps[s].tip <= caps[s].fee
  BY DEF Inv, TypeOK, CapsOrdered
<1>2. CASE Price(s)
  <2>1. PICK c \in FirstCaps(s) : caps' = [caps EXCEPT ![s] = c]
    BY <1>2 DEF Price
  <2>2. caps'[s] = c
    BY <1>1, <2>1
  <2>3. CASE OwnCaps[s] = {}
    <3>1. PICK base \in BaseFees, e \in Excesses :
             c = SuggestGasCaps(base, BlobFee[e], Config.min_tip_cap)
      BY <2>3 DEF FirstCaps
    <3>2. c.tip = Config.min_tip_cap /\ c.fee = base + Config.min_tip_cap
      BY <3>1 DEF SuggestGasCaps
    <3>3. base \in Nat /\ Config.min_tip_cap \in Nat
      BY ConfigTypes, TxAssumption
    <3> QED BY <2>2, <3>2, <3>3
  <2>4. CASE OwnCaps[s] # {}
    <3>1. PICK own \in OwnCaps[s] : c = NewGasCaps(own.fee, own.tip, own.blob)
      BY <2>4 DEF FirstCaps
    <3>2. c.tip = own.tip % Word /\ c.fee = own.fee % Word
      BY <3>1 DEF NewGasCaps
    <3>3. own.tip \in Nat /\ own.fee \in Nat
      BY TxAssumption DEF GasCaps
    <3>4. own.tip % Word \in Nat /\ own.fee % Word \in Nat
      BY <3>3, GasAssumption
    <3>5. ~ (own.fee % Word < own.tip % Word)
      BY DEF CutBelowTip
    <3> QED BY <2>2, <3>2, <3>4, <3>5
  <2> QED BY <2>3, <2>4
<1>3. CASE Bump(s)
  <2>1. caps'[s] = BumpGasCaps(caps[s], BumpPercent(s))
    BY <1>1, <1>3 DEF Bump
  <2>2. BumpPercent(s) \in Nat /\ BumpPercent(s) <= BumpPercent(s)
    BY ConfigTypes DEF BumpPercent
  <2>3. caps[s].tip \in Nat /\ caps[s].fee \in Nat
    BY <1>1 DEF GasCaps
  <2>4. Bumped(caps[s].tip, BumpPercent(s)) <= Bumped(caps[s].fee, BumpPercent(s))
    BY <1>1, <2>2, <2>3, BumpedOrder
  <2> QED BY <2>1, <2>4 DEF BumpGasCaps
<1>4. CASE caps'[s] = caps[s]
  BY <1>1, <1>4
<1> QED BY <1>2, <1>3, <1>4, FeeKinds

(* What a sender has sent is what it would send now, or the mempool takes  *)
(* what it would send now in its place, or its fees are too small for the  *)
(* percentage.                                                             *)
RaiseInv(s) ==
    \A p \in sent[s] :
        p = BuildRequest(s) \/ Replaces(BuildRequest(s), p) \/ ~ Felt(p.caps)

(* Every step keeps it.                                                    *)
LEMMA RaiseStep ==
    ASSUME PercentsSuffice, Inv, [Next]_vars, NEW s \in Sender, RaiseInv(s)
    PROVE  RaiseInv(s)'
<1>1. sent \in [Sender -> SUBSET Tx]
  BY DEF Inv, TypeOK
<1>2. CASE Price(s)
  <2>1. sent' = sent /\ sent[s] = {}
    BY <1>2 DEF Price, Inv, SentInv
  <2> QED BY <2>1 DEF RaiseInv
<1>3. CASE Bump(s)
  <2> DEFINE x == BuildRequest(s)
             y == BuildRequest(s)'
  <2>1. /\ x \in Tx /\ y \in Tx /\ NotAbove(x.caps, y.caps)
        /\ Felt(x.caps) => Replaces(y, x)
    BY <1>3, BumpRequest, BumpReplaces
  <2>2. sent' = sent
    BY <1>3 DEF Bump
  <2> SUFFICES ASSUME NEW p \in sent[s], Felt(p.caps) PROVE Replaces(y, p)
    BY <2>2 DEF RaiseInv, Replaces, Felt
  <2>3. p \in Tx /\ (p = x \/ Replaces(x, p))
    BY <1>1 DEF RaiseInv
  <2> HIDE DEF x, y
  <2> QED BY <2>1, <2>3, ReplacesGrows
<1>4. CASE sent'[s] = {}
  BY <1>4 DEF RaiseInv
<1>5. CASE /\ caps'[s] = caps[s] /\ held'[s] = held[s]
           /\ sent'[s] \subseteq sent[s] \cup {BuildRequest(s)}
  <2>1. BuildRequest(s)' = BuildRequest(s)
    BY <1>5 DEF BuildRequest
  <2>2. ASSUME NEW p \in sent'[s]
        PROVE  p = BuildRequest(s) \/ Replaces(BuildRequest(s), p) \/ ~ Felt(p.caps)
    BY <1>5 DEF RaiseInv
  <2> QED BY <2>1, <2>2 DEF RaiseInv, Replaces, Felt
<1> QED BY <1>2, <1>3, <1>4, <1>5, FeeKinds

(* A bump is asked for in the middle of the attempts only because the node *)
(* found the transaction underpriced.                                      *)
LEMMA BumpMeansUnderpriced ==
    ASSUME Inv, [Next]_vars, NEW s \in Sender,
           pc[s] = "priced", sendState[s].bump = FALSE, sendState'[s].bump # FALSE
    PROVE  \E p \in pool : /\ p # BuildRequest(s) /\ p.nonce = held[s]
                           /\ ~ Replaces(BuildRequest(s), p)
<1>1. TypeOK /\ AuxOK /\ sendState \in [Sender -> SendState] /\ sendState[s] \in SendState
  BY DEF Inv, TypeOK
<1>2. Call(s) \/ Trouble(s)
  BY OthersKeep DEF Same
<1>3. Bump(s) \/ PublishAccepted(s) \/ PublishRejected(s) \/ PublishFails(s)
  BY <1>2 DEF Call, Trouble, NextNonceCached, NextNonceAsk, NextNonceAnswer, ResetApply,
              Price, GetReceipt, ReceiptReverted, WaitForConfirmations, NextNonceFails,
              ResetAsk, ResetFails, PriceFails, GetReceiptFails, WaitForConfirmationsFails,
              ResubmissionTimeout, ReceiptGone
<1>4. ~ Bump(s)
  BY DEF Bump
<1>5. ~ PublishAccepted(s)
  <2> SUFFICES ASSUME PublishAccepted(s) PROVE FALSE
    OBVIOUS
  <2>1. sendState'[s] = TxPublished(sendState[s])
    BY <1>1 DEF PublishAccepted
  <2>2. TxPublished(sendState[s]).bump = sendState[s].bump
    BY <1>1 DEF TxPublished, SendState
  <2> QED BY <2>1, <2>2
<1>6. \A error : AfterError(s, error) => error = "Underpriced"
  BY <1>1, AfterErrorBumps
<1>7. ~ PublishFails(s)
  BY <1>6 DEF PublishFails, FromRpcError
<1>8. PublishRejected(s)
  BY <1>3, <1>4, <1>5, <1>7
<1>9. FromRpcError(Complaint(BuildRequest(s))) = "Underpriced"
  BY <1>6, <1>8 DEF PublishRejected
<1>10. Complaint(BuildRequest(s)) = "underpriced"
  BY <1>9 DEF FromRpcError
<1>11. /\ BuildRequest(s) \notin pool
       /\ \E p \in pool : p.nonce = BuildRequest(s).nonce /\ ~ Replaces(BuildRequest(s), p)
  BY <1>10 DEF Complaint
<1>12. BuildRequest(s).nonce = held[s]
  BY DEF BuildRequest
<1> QED BY <1>11, <1>12

(* GasOracle, GasCaps and bump_gas_caps: the tip never exceeds the fee     *)
(* cap, however often the caps are bumped, for every header and whatever   *)
(* caps a sender brings, except for those GasCaps::new cuts below the tip. *)
THEOREM CapsStayOrdered == Spec => []CapsOrdered
<1>1. Init => CapsOrdered
  BY DEF Init, CapsOrdered
<1>2. Inv /\ CapsOrdered /\ [Next]_vars => CapsOrdered'
  BY CapsStep
<1> QED BY <1>1, <1>2, Invariance, PTL DEF Spec

(* bump_gas_caps: with percentages no less than the protocol's, a sender's *)
(* transaction is refused as underpriced only where another sender or an   *)
(* earlier send has the nonce, or where the pending one's fee is so small  *)
(* that the division rounds the raise away.                                *)
THEOREM BumpIsEnough ==
    ASSUME PercentsSuffice
    PROVE  Spec => BumpSuffices
<1> DEFINE R == \A s \in Sender : RaiseInv(s)
<1>1. Init => R
  BY DEF Init, RaiseInv
<1>2. ASSUME Inv, R, [Next]_vars PROVE R'
  BY <1>2, RaiseStep
<1>3. ASSUME Inv, R, [Next]_vars, NEW s \in Sender,
             pc[s] = "priced", ~ sendState[s].bump, sendState'[s].bump
      PROVE  \E p \in pool : p.nonce = held[s] /\ (p.from # s \/ p \in before[s] \/ ~ Felt(p.caps))
  <2>1. sendState[s].bump \in BOOLEAN
    BY <1>3 DEF Inv, TypeOK, SendState
  <2>2. sendState[s].bump = FALSE /\ sendState'[s].bump # FALSE
    BY <1>3, <2>1
  <2>3. PICK p \in pool : /\ p # BuildRequest(s) /\ p.nonce = held[s]
                          /\ ~ Replaces(BuildRequest(s), p)
    BY <1>3, <2>2, BumpMeansUnderpriced
  <2>4. p.from = s => p \in sent[s] \cup before[s]
    BY <1>3 DEF Inv, PastInv
  <2> QED BY <1>3, <2>3, <2>4 DEF RaiseInv
<1>4. Inv /\ R /\ [Next]_vars =>
        [\A s \in Sender :
           pc[s] = "priced" /\ ~ sendState[s].bump /\ sendState'[s].bump =>
              \E p \in pool : p.nonce = held[s] /\ (p.from # s \/ p \in before[s] \/ ~ Felt(p.caps))]_vars
  BY <1>3
<1> HIDE DEF R
<1> QED BY <1>1, <1>2, <1>4, Invariance, PTL DEF Spec, BumpSuffices
=============================================================================
