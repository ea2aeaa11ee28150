-------------------------------- MODULE Gas --------------------------------
(***************************************************************************)
(* Fees of the transaction manager (crates/consensus/txmgr/src/gas.rs):    *)
(* gas caps, their bumping and the blob fee of EIP-4844.  Integers keep    *)
(* the code's shape: U256 arithmetic truncates at a division only, u128    *)
(* arithmetic of the blob fee saturates, and GasCaps::new cuts a u128 down *)
(* to its low word.                                                        *)
(***************************************************************************)
EXTENDS Integers, FiniteSetsExt

CONSTANTS
    Word,          \* number of values of the low word kept by GasCaps::new (2^64)
    MaxU128,       \* largest u128
    BlobFraction,  \* BLOB_GASPRICE_UPDATE_FRACTION
    MaxTerms       \* terms of the series after which the loop stops (100)

ASSUME GasAssumption ==
    /\ Word \in Nat \ {0}
    /\ MaxU128 \in Nat
    /\ BlobFraction \in Nat \ {0}
    /\ MaxTerms \in Nat \ {0}

(* An absent Option.                                                       *)
None == -1

GasCaps == [tip: Nat, fee: Nat, blob: Nat \cup {None}]

Optional(Op(_), v) == IF v = None THEN None ELSE Op(v)

NewGasCaps(maxFee, maxPriorityFee, blobFee) ==
    [tip |-> maxPriorityFee % Word,
     fee |-> maxFee % Word,
     blob |-> Optional(LAMBDA f : f % Word, blobFee)]

SaturatingMul(a, b) == Min({a * b, MaxU128})
SaturatingAdd(a, b) == Min({a + b, MaxU128})


(* The loop keeps a running term and a running sum.  A term that is zero   *)
(* stays zero, so the code's early break adds nothing.                     *)
FakeExponential(factor, numerator, denominator) ==
    LET Term[i \in 0..MaxTerms] ==
            IF i = 0
            THEN SaturatingMul(factor, denominator)
            ELSE SaturatingMul(Term[i - 1], numerator) \div (denominator * i)
        Output[i \in 0..MaxTerms] ==
            IF i = 0 THEN 0 ELSE SaturatingAdd(Output[i - 1], Term[i - 1])
    IN  Output[MaxTerms] \div denominator

CalcBlobFee(excess) == FakeExponential(1, excess, BlobFraction)

(* What the latest header implies: base fee plus the least tip, and the    *)
(* blob fee if the header carries excess blob gas.                         *)
SuggestGasCaps(baseFee, blobFee, minTip) ==
    [tip |-> minTip,
     fee |-> baseFee + minTip,
     blob |-> blobFee]

Bumped(value, percent) == (value * (100 + percent)) \div 100


BumpGasCaps(caps, percent) ==
    [tip |-> Bumped(caps.tip, percent),
     fee |-> Bumped(caps.fee, percent),
     blob |-> Optional(LAMBDA f : Bumped(f, percent), caps.blob)]

-----------------------------------------------------------------------------
(* Reference for the blob fee: the exponential series as exact rationals.  *)
Factorial[n \in Nat] == IF n = 0 THEN 1 ELSE n * Factorial[n - 1]

(* The sum of x^i/i! for i <= k with x = n/d, times d^k * k!.              *)
ScaledSeries(n, d, k) ==
    MapThenSumSet(LAMBDA i : (IF i = 0 THEN 1 ELSE n^i) * d^(k - i) * (Factorial[k] \div Factorial[i]),
                  0..k)

(* The blob fee of EIP-4844 is e^(excess/fraction), rounded down: what the *)
(* integer loop computes is the series up to the two wei its truncations   *)
(* may cost.                                                               *)
ApproximatesExp(fee, excess, k) ==
    LET scale == BlobFraction^k * Factorial[k]
        exact == ScaledSeries(excess, BlobFraction, k)
    IN  /\ fee * scale <= exact + scale \div 2
        /\ (fee + 2) * scale > exact
=============================================================================
