--------------------------- MODULE BatchPathProofs ---------------------------
(***************************************************************************)
(* Proofs about the batching library, for every configuration, capacity    *)
(* and sequence of block sizes: what the execution layer pushes is never   *)
(* dropped on its way to the sink, the running sizes the stages decide by  *)
(* are those of what they hold, and the blocks come out of the source in   *)
(* the order they went into the buffer.                                    *)
(***************************************************************************)
EXTENDS BatchPath, TLAPS, SequenceTheorems, WellFoundedInduction

-----------------------------------------------------------------------------
(* The bytes of a sequence of blocks.                                      *)

(* Induction: a set with 0 that is closed under successor has every        *)
(* natural number.                                                         *)
LEMMA SetInduction ==
    ASSUME NEW S, 0 \in S, \A n \in Nat : n \in S => n + 1 \in S
    PROVE  Nat \subseteq S
<1> DEFINE T == Nat \ S
           R == OpToRel(<, Nat)
<1> SUFFICES ASSUME T # {} PROVE FALSE
  OBVIOUS
<1>1. IsWellFoundedOn(R, Nat)
  BY NatLessThanWellFounded
<1>2. \A y, x \in Nat : y < x => <<y, x>> \in R
  BY DEF OpToRel
<1> HIDE DEF R
<1>3. PICK x \in T : \A y \in T : ~(<<y, x>> \in R)
  BY <1>1, WFMin
<1>4. x # 0 /\ x \in Nat
  OBVIOUS
<1>5. x - 1 \in Nat /\ x - 1 < x /\ (x - 1) + 1 = x
  BY <1>4
<1>6. x - 1 \notin T
  BY <1>2, <1>3, <1>4, <1>5
<1> QED BY <1>4, <1>5, <1>6

(* A set of numbers up to n that is not empty has its largest.             *)
LEMMA MaxOf ==
    ASSUME NEW n \in Nat, NEW t \in SUBSET (1..n), t # {}
    PROVE  Max(t) \in t /\ \A y \in t : Max(t) >= y
<1> DEFINE Has(u) == \E x \in u : \A y \in u : x >= y
           S == {m \in Nat : \A u \in SUBSET (1..m) : u # {} => Has(u)}
<1>1. 0 \in S
  <2>1. 1..0 = {}
    OBVIOUS
  <2> QED BY <2>1
<1>2. ASSUME NEW m \in Nat, m \in S PROVE m + 1 \in S
  <2> SUFFICES ASSUME NEW u \in SUBSET (1..(m + 1)), u # {} PROVE Has(u)
    OBVIOUS
  <2>1. CASE m + 1 \in u
    BY <2>1
  <2>2. CASE m + 1 \notin u
    <3>1. u \in SUBSET (1..m)
      BY <2>2
    <3> QED BY <1>2, <3>1
  <2> QED BY <2>1, <2>2
<1> HIDE DEF S
<1>3. Nat \subseteq S
  BY <1>1, <1>2, SetInduction
<1>4. Has(t)
  BY <1>3 DEF S
<1> QED BY <1>4 DEF Max

(* P sums the sizes of the blocks of s from the left.                      *)
IsSum(P, s) ==
    /\ P \in [0..Len(s) -> Nat]
    /\ P[0] = 0
    /\ \A k \in 1..Len(s) : P[k] = P[k - 1] + Size[s[k]]

(* The size of a block is a number.                                        *)
LEMMA SizeType == Len(Size) \in Nat /\ \A b \in Blocks : Size[b] \in Nat
  BY BatchPathAssumption, LenProperties, ElementOfSeq DEF Blocks

(* A sum is the only one.                                                  *)
LEMMA SumUnique ==
    ASSUME NEW s \in Seq(Blocks), NEW P, NEW Q, IsSum(P, s), IsSum(Q, s)
    PROVE  \A k \in 0..Len(s) : P[k] = Q[k]
<1> DEFINE S == {n \in Nat : n <= Len(s) => P[n] = Q[n]}
<1>0. Len(s) \in Nat
  BY LenProperties
<1>1. 0 \in S
  BY DEF IsSum
<1>2. ASSUME NEW n \in Nat, n \in S PROVE n + 1 \in S
  <2> SUFFICES ASSUME n + 1 <= Len(s) PROVE P[n + 1] = Q[n + 1]
    OBVIOUS
  <2>1. n <= Len(s) /\ n + 1 \in 1..Len(s) /\ (n + 1) - 1 = n
    BY <1>0
  <2>2. /\ P[n + 1] = P[(n + 1) - 1] + Size[s[n + 1]]
        /\ Q[n + 1] = Q[(n + 1) - 1] + Size[s[n + 1]]
    BY <2>1 DEF IsSum
  <2>3. P[n] = Q[n]
    BY <1>2, <2>1
  <2> QED BY <2>1, <2>2, <2>3
<1> HIDE DEF S
<1>3. Nat \subseteq S
  BY <1>1, <1>2, SetInduction
<1> QED BY <1>0, <1>3 DEF S

(* w, folded over the subsets of 1..n from their largest element down.     *)
Folds(f, n, w) ==
    \A t \in SUBSET (1..n) : f[t] = IF t = {} THEN 0 ELSE f[t \ {Max(t)}] + w[Max(t)]

(* The function the fold recurs with, extended to one more element.        *)
LEMMA FoldStep ==
    ASSUME NEW n \in Nat, NEW w, w[n + 1] \in Nat,
           NEW f \in [SUBSET (1..n) -> Nat], Folds(f, n, w)
    PROVE  \E g \in [SUBSET (1..(n + 1)) -> Nat] : Folds(g, n + 1, w)
<1> DEFINE e == n + 1
           g == [t \in SUBSET (1..e) |-> IF e \in t THEN f[t \ {e}] + w[e] ELSE f[t]]
<1>0. e \in Nat /\ w[e] \in Nat
  OBVIOUS
<1>1. ASSUME NEW t \in SUBSET (1..e) PROVE t \ {e} \in SUBSET (1..n)
  <2>1. ASSUME NEW x \in t, x # e PROVE x \in 1..n
    <3>1. x \in 1..e
      OBVIOUS
    <3> QED BY <2>1, <3>1
  <2> QED BY <2>1
<1>2. ASSUME NEW t \in SUBSET (1..e), e \notin t PROVE t \in SUBSET (1..n)
  <2>1. t = t \ {e}
    BY <1>2
  <2> QED BY <1>1, <2>1
<1> HIDE DEF e
<1>3. \A t \in SUBSET (1..e) : g[t] = IF e \in t THEN f[t \ {e}] + w[e] ELSE f[t]
  OBVIOUS
<1>4. g \in [SUBSET (1..e) -> Nat]
  <2>1. ASSUME NEW t \in SUBSET (1..e)
        PROVE  (IF e \in t THEN f[t \ {e}] + w[e] ELSE f[t]) \in Nat
    <3>1. CASE e \in t
      <4>1. f[t \ {e}] \in Nat
        BY <1>1
      <4> QED BY <1>0, <3>1, <4>1
    <3>2. CASE e \notin t
      BY <1>2, <3>2
    <3> QED BY <3>1, <3>2
  <2> QED BY <2>1
<1> HIDE DEF g
<1>5. ASSUME NEW t \in SUBSET (1..e)
      PROVE  g[t] = IF t = {} THEN 0 ELSE g[t \ {Max(t)}] + w[Max(t)]
  <2>1. CASE e \in t
    <3> DEFINE m == Max(t)
    <3>1. m \in t /\ \A y \in t : m >= y
      BY <1>0, <2>1, MaxOf
    <3> HIDE DEF m
    <3>2. m \in 1..e /\ m >= e
      BY <2>1, <3>1
    <3>3. m = e
      BY <1>0, <3>2
    <3>4. t \ {e} \in SUBSET (1..e) /\ e \notin t \ {e}
      OBVIOUS
    <3>5. g[t \ {e}] = f[t \ {e}]
      BY <1>3, <3>4
    <3>6. g[t] = f[t \ {e}] + w[e] /\ t # {}
      BY <1>3, <2>1
    <3> QED BY <3>3, <3>5, <3>6, Zenon DEF m
  <2>2. CASE e \notin t
    <3>1. t \in SUBSET (1..n) /\ g[t] = f[t]
      BY <1>2, <1>3, <2>2
    <3>2. f[t] = IF t = {} THEN 0 ELSE f[t \ {Max(t)}] + w[Max(t)]
      BY <3>1 DEF Folds
    <3>3. t \ {Max(t)} \in SUBSET (1..e) /\ e \notin t \ {Max(t)}
      BY <2>2
    <3>4. g[t \ {Max(t)}] = f[t \ {Max(t)}]
      BY <1>3, <3>3
    <3> QED BY <3>1, <3>2, <3>4, Zenon
  <2> QED BY <2>1, <2>2
<1> QED BY <1>4, <1>5 DEF Folds, e

(* The function the fold of the library recurs with exists.                *)
LEMMA FoldExists ==
    ASSUME NEW N \in Nat, NEW w \in [1..N -> Nat]
    PROVE  \E f \in [SUBSET (1..N) -> Nat] : Folds(f, N, w)
<1> DEFINE Has(n) == \E f \in [SUBSET (1..n) -> Nat] : Folds(f, n, w)
           S == {n \in Nat : n <= N => Has(n)}
<1>1. Has(0)
  <2> DEFINE f == [t \in SUBSET (1..0) |-> 0]
  <2>1. f \in [SUBSET (1..0) -> Nat]
    OBVIOUS
  <2>2. ASSUME NEW t \in SUBSET (1..0) PROVE t = {} /\ f[t] = 0
    <3>1. 1..0 = {}
      OBVIOUS
    <3> QED BY <3>1
  <2> HIDE DEF f
  <2>3. Folds(f, 0, w)
    BY <2>2 DEF Folds
  <2> QED BY <2>1, <2>3
<1>2. ASSUME NEW n \in Nat, n + 1 <= N, Has(n) PROVE Has(n + 1)
  <2>1. w[n + 1] \in Nat
    <3>1. n + 1 \in 1..N
      BY <1>2
    <3> QED BY <3>1
  <2>2. PICK f \in [SUBSET (1..n) -> Nat] : Folds(f, n, w)
    BY <1>2
  <2> QED BY <2>1, <2>2, FoldStep
<1> HIDE DEF Has
<1>3. 0 \in S
  BY <1>1
<1>4. ASSUME NEW n \in Nat, n \in S PROVE n + 1 \in S
  BY <1>2, <1>4
<1>5. Nat \subseteq S
  <2> HIDE DEF S
  <2> QED BY <1>3, <1>4, SetInduction
<1>6. Has(N)
  BY <1>5
<1> QED BY <1>6 DEF Has

(* bytes_size: the fold is the last of the partial sums.                   *)
LEMMA BytesIsSum ==
    ASSUME NEW s \in Seq(Blocks)
    PROVE  \E P : IsSum(P, s) /\ Bytes(s) = P[Len(s)]
<1> DEFINE N == Len(s)
           w == [i \in 1..N |-> Size[s[i]]]
           iter[t \in SUBSET DOMAIN s] ==
              IF t = {} THEN 0 ELSE LET x == Max(t) IN iter[t \ {x}] + Size[s[x]]
<1>1. N \in Nat /\ DOMAIN s = 1..N
  BY LenProperties
<1>2. \A i \in 1..N : Size[s[i]] \in Nat
  BY ElementOfSeq, SizeType
<1>3. Bytes(s) = iter[DOMAIN s]
  BY DEF Bytes, FoldLeft, MapThenFoldSet
<1>4. iter = [t \in SUBSET DOMAIN s |->
                IF t = {} THEN 0 ELSE LET x == Max(t) IN iter[t \ {x}] + Size[s[x]]]
  <2>1. w \in [1..N -> Nat]
    BY <1>2
  <2>2. PICK f \in [SUBSET (1..N) -> Nat] : Folds(f, N, w)
    <3> HIDE DEF w, N
    <3> QED BY <1>1, <2>1, FoldExists
  <2>3. ASSUME NEW t \in SUBSET (1..N)
        PROVE  f[t] = IF t = {} THEN 0 ELSE LET x == Max(t) IN f[t \ {x}] + Size[s[x]]
    <3>1. f[t] = IF t = {} THEN 0 ELSE f[t \ {Max(t)}] + w[Max(t)]
      BY <2>2 DEF Folds
    <3>2. t # {} => Max(t) \in 1..N
      <4>1. t # {} => Max(t) \in t
        BY <1>1, MaxOf
      <4> QED BY <4>1
    <3> QED BY <3>1, <3>2
  <2>4. f = [t \in SUBSET DOMAIN s |->
               IF t = {} THEN 0 ELSE LET x == Max(t) IN f[t \ {x}] + Size[s[x]]]
    BY <1>1, <2>3
  <2>5. \E h : h = [t \in SUBSET DOMAIN s |->
               IF t = {} THEN 0 ELSE LET x == Max(t) IN h[t \ {x}] + Size[s[x]]]
    BY <2>4, Zenon
  <2> QED BY <2>5, Zenon
<1> HIDE DEF iter
<1>5. iter[{}] = 0
  BY <1>4
<1>6. ASSUME NEW k \in 1..N PROVE iter[1..k] = iter[1..(k - 1)] + Size[s[k]]
  <2>1. k \in 1..k /\ k \in Nat /\ 1..k \in SUBSET (1..N) /\ (1..k) \ {k} = 1..(k - 1)
    BY <1>1
  <2>2. Max(1..k) \in 1..k /\ \A y \in 1..k : Max(1..k) >= y
    <3> DEFINE u == 1..k
    <3>1. u \in SUBSET (1..k) /\ u # {} /\ k \in Nat
      BY <2>1
    <3> HIDE DEF u
    <3>2. Max(u) \in u /\ \A y \in u : Max(u) >= y
      BY <3>1, MaxOf
    <3> QED BY <3>2 DEF u
  <2>3. Max(1..k) = k
    <3> DEFINE m == Max(1..k)
    <3>1. m \in 1..k /\ m >= k
      BY <2>1, <2>2
    <3> HIDE DEF m
    <3>2. m = k
      BY <3>1
    <3> QED BY <3>2 DEF m
  <2>4. iter[1..k] = iter[(1..k) \ {k}] + Size[s[k]]
    <3>1. 1..k \in SUBSET DOMAIN s /\ 1..k # {}
      BY <1>1, <2>1
    <3> QED BY <1>4, <2>3, <3>1
  <2> QED BY <2>1, <2>4
<1> DEFINE P == [k \in 0..N |-> iter[1..k]]
<1>7. P[0] = 0
  <2>1. 1..0 = {} /\ 0 \in 0..N
    BY <1>1
  <2> QED BY <1>5, <2>1
<1>8. ASSUME NEW k \in 1..N PROVE P[k] = P[k - 1] + Size[s[k]]
  <2>1. k \in 0..N /\ k - 1 \in 0..N
    BY <1>1
  <2> QED BY <1>6, <2>1
<1>9. P[N] = Bytes(s)
  BY <1>1, <1>3
<1>10. P = [k \in 0..N |-> P[k]]
  OBVIOUS
<1> HIDE DEF P
<1>11. \A k \in 0..N : P[k] \in Nat
  <2> DEFINE S == {n \in Nat : n <= N => P[n] \in Nat}
  <2>1. 0 \in S
    BY <1>7
  <2>2. ASSUME NEW n \in Nat, n \in S PROVE n + 1 \in S
    <3> SUFFICES ASSUME n + 1 <= N PROVE P[n + 1] \in Nat
      OBVIOUS
    <3>1. n <= N /\ n + 1 \in 1..N /\ (n + 1) - 1 = n
      BY <1>1
    <3>2. P[n] \in Nat
      BY <2>2, <3>1
    <3>3. P[n + 1] = P[(n + 1) - 1] + Size[s[n + 1]]
      BY <1>8, <3>1
    <3>4. Size[s[n + 1]] \in Nat
      BY <1>2, <3>1
    <3> QED BY <3>1, <3>2, <3>3, <3>4
  <2> HIDE DEF S
  <2>3. Nat \subseteq S
    BY <2>1, <2>2, SetInduction
  <2> QED BY <1>1, <2>3 DEF S
<1>12. P \in [0..N -> Nat]
  BY <1>10, <1>11
<1>13. IsSum(P, s)
  BY <1>7, <1>8, <1>12 DEF IsSum
<1> QED BY <1>9, <1>13

(* add_blocks: sizes add up.                                               *)
LEMMA BytesConcat ==
    ASSUME NEW a \in Seq(Blocks), NEW b \in Seq(Blocks)
    PROVE  Bytes(a \o b) = Bytes(a) + Bytes(b) /\ Bytes(a) \in Nat
<1>1. /\ Len(a) \in Nat /\ Len(b) \in Nat
      /\ a \o b \in Seq(Blocks) /\ Len(a \o b) = Len(a) + Len(b)
      /\ \A i \in 1..Len(a) : (a \o b)[i] = a[i]
      /\ \A i \in 1..Len(b) : (a \o b)[Len(a) + i] = b[i]
  BY ConcatProperties, LenProperties
<1>2. PICK Q : IsSum(Q, a) /\ Bytes(a) = Q[Len(a)]
  BY BytesIsSum
<1>3. PICK R : IsSum(R, b) /\ Bytes(b) = R[Len(b)]
  BY BytesIsSum
<1> DEFINE c == a \o b
           m == Len(a)
           n == Len(b)
<1>4. PICK P : IsSum(P, c) /\ Bytes(c) = P[Len(c)]
  BY <1>1, BytesIsSum
<1>5. /\ m \in Nat /\ n \in Nat /\ c \in Seq(Blocks) /\ Len(c) = m + n
      /\ \A i \in 1..m : c[i] = a[i]
      /\ \A i \in 1..n : c[m + i] = b[i]
  BY <1>1
<1>6. /\ Q \in [0..m -> Nat] /\ Q[0] = 0
      /\ \A k \in 1..m : Q[k] = Q[k - 1] + Size[a[k]]
  BY <1>2 DEF IsSum
<1>7. /\ R \in [0..n -> Nat] /\ R[0] = 0
      /\ \A k \in 1..n : R[k] = R[k - 1] + Size[b[k]]
  BY <1>3 DEF IsSum
<1>8. /\ \A i \in 1..m : Size[a[i]] \in Nat
      /\ \A i \in 1..n : Size[b[i]] \in Nat
  BY ElementOfSeq, SizeType
<1>9. Bytes(a) = Q[m] /\ Bytes(b) = R[n] /\ Bytes(c) = P[Len(c)]
  BY <1>2, <1>3, <1>4
<1> HIDE DEF c, m, n
<1> DEFINE Z == [k \in 0..(m + n) |-> IF k <= m THEN Q[k] ELSE Q[m] + R[k - m]]
<1>10. /\ \A k \in 0..m : k \in 0..(m + n) /\ Z[k] = Q[k]
       /\ \A k \in 0..n : m + k \in 0..(m + n) /\ Z[m + k] = Q[m] + R[k]
  <2>1. \A k \in 0..m : k \in 0..(m + n) /\ Z[k] = Q[k]
    BY <1>5
  <2>2. ASSUME NEW k \in 0..n PROVE m + k \in 0..(m + n) /\ Z[m + k] = Q[m] + R[k]
    <3>1. m + k \in 0..(m + n) /\ (m + k) - m = k /\ (m + k <= m <=> k = 0)
      BY <1>5
    <3>2. Q[m] \in Nat
      BY <1>5, <1>6
    <3>3. CASE k = 0
      BY <1>5, <1>7, <2>1, <3>2, <3>3
    <3>4. CASE k # 0
      BY <3>1, <3>4
    <3> QED BY <3>1, <3>3, <3>4
  <2> QED BY <2>1, <2>2
<1>11. Z \in [0..(m + n) -> Nat]
  <2>1. ASSUME NEW k \in 0..(m + n)
        PROVE  (IF k <= m THEN Q[k] ELSE Q[m] + R[k - m]) \in Nat
    <3>1. CASE k <= m
      <4>1. k \in 0..m
        BY <1>5, <3>1
      <4> QED BY <1>6, <3>1, <4>1
    <3>2. CASE ~(k <= m)
      <4>1. k - m \in 0..n /\ m \in 0..m
        BY <1>5, <3>2
      <4>2. Q[m] \in Nat /\ R[k - m] \in Nat
        BY <1>6, <1>7, <4>1
      <4> QED BY <3>2, <4>2
    <3> QED BY <3>1, <3>2
  <2> QED BY <2>1
<1> HIDE DEF Z
<1>12. IsSum(Z, c)
  <2>1. Z[0] = 0
    BY <1>5, <1>6, <1>10
  <2>2. ASSUME NEW k \in 1..(m + n) PROVE Z[k] = Z[k - 1] + Size[c[k]]
    <3>1. CASE k <= m
      <4>1. k \in 1..m /\ k \in 0..m /\ k - 1 \in 0..m
        BY <1>5, <3>1
      <4> QED BY <1>5, <1>6, <1>10, <4>1
    <3>2. CASE ~(k <= m)
      <4> DEFINE i == k - m
      <4>1. i \in 1..n /\ i \in 0..n /\ i - 1 \in 0..n /\ k = m + i /\ k - 1 = m + (i - 1)
        BY <1>5, <3>2
      <4> HIDE DEF i
      <4>2. Z[k] = Q[m] + R[i] /\ Z[k - 1] = Q[m] + R[i - 1] /\ c[k] = b[i]
        BY <1>5, <1>10, <4>1
      <4>3. R[i] = R[i - 1] + Size[b[i]]
        BY <1>7, <4>1
      <4>4. Q[m] \in Nat /\ R[i] \in Nat /\ R[i - 1] \in Nat /\ Size[b[i]] \in Nat
        BY <1>5, <1>6, <1>7, <1>8, <4>1
      <4> QED BY <4>2, <4>3, <4>4
    <3> QED BY <3>1, <3>2
  <2> QED BY <1>5, <1>11, <2>1, <2>2 DEF IsSum
<1>13. P[m + n] = Z[m + n]
  <2>1. m + n \in 0..Len(c)
    BY <1>5
  <2> QED BY <1>4, <1>5, <1>12, <2>1, SumUnique
<1>14. Z[m + n] = Q[m] + R[n]
  BY <1>5, <1>10
<1>15. Q[m] \in Nat
  BY <1>5, <1>6
<1> QED BY <1>5, <1>9, <1>13, <1>14, <1>15 DEF c

(* Nothing has no bytes.                                                   *)
LEMMA BytesEmpty == Bytes(<< >>) = 0
<1>1. << >> \in Seq(Blocks) /\ Len(<< >>) = 0
  BY EmptySeq
<1>2. PICK P : IsSum(P, << >>) /\ Bytes(<< >>) = P[Len(<< >>)]
  BY <1>1, BytesIsSum
<1> QED BY <1>1, <1>2 DEF IsSum

-----------------------------------------------------------------------------
(* What a sequence holds.                                                  *)

(* push: the buffer holds one more.                                        *)
LEMMA RangeAppend ==
    ASSUME NEW T, NEW s \in Seq(T), NEW x \in T
    PROVE  Range(Append(s, x)) = Range(s) \cup {x}
<1>1. /\ Len(s) \in Nat /\ DOMAIN s = 1..Len(s) /\ DOMAIN Append(s, x) = 1..(Len(s) + 1)
      /\ \A i \in 1..Len(s) : Append(s, x)[i] = s[i]
      /\ Append(s, x)[Len(s) + 1] = x
  BY AppendProperties, LenProperties
<1> DEFINE a == Append(s, x)
           n == Len(s)
<1> HIDE DEF a, n
<1>2. 1..(n + 1) = 1..n \cup {n + 1}
  BY <1>1 DEF n
<1>3. {a[i] : i \in 1..(n + 1)} = {s[i] : i \in 1..n} \cup {x}
  BY <1>1, <1>2 DEF a, n
<1> QED BY <1>1, <1>3 DEF Range, a, n

(* pending_blocks then add_blocks: the driver holds both.                  *)
LEMMA RangeConcat ==
    ASSUME NEW T, NEW a \in Seq(T), NEW b \in Seq(T)
    PROVE  Range(a \o b) = Range(a) \cup Range(b)
<1> DEFINE c == a \o b
           m == Len(a)
           n == Len(b)
<1>1. /\ m \in Nat /\ n \in Nat /\ DOMAIN a = 1..m /\ DOMAIN b = 1..n /\ DOMAIN c = 1..(m + n)
      /\ \A i \in 1..m : c[i] = a[i]
      /\ \A i \in 1..n : c[m + i] = b[i]
  BY ConcatProperties, LenProperties
<1> HIDE DEF c, m, n
<1>2. ASSUME NEW i \in 1..(m + n) PROVE c[i] \in Range(a) \cup Range(b)
  <2>1. CASE i <= m
    <3>1. i \in 1..m
      BY <1>1, <2>1
    <3> QED BY <1>1, <3>1 DEF Range
  <2>2. CASE ~(i <= m)
    <3>1. i - m \in 1..n /\ m + (i - m) = i
      BY <1>1, <2>2
    <3>2. c[i] = b[i - m]
      BY <1>1, <3>1
    <3> QED BY <1>1, <3>1, <3>2 DEF Range
  <2> QED BY <2>1, <2>2
<1>3. ASSUME NEW i \in 1..m PROVE a[i] \in Range(c)
  <2>1. i \in 1..(m + n) /\ c[i] = a[i]
    BY <1>1
  <2> QED BY <1>1, <2>1 DEF Range
<1>4. ASSUME NEW i \in 1..n PROVE b[i] \in Range(c)
  <2>1. m + i \in 1..(m + n) /\ c[m + i] = b[i]
    BY <1>1
  <2> QED BY <1>1, <2>1 DEF Range
<1>5. Range(c) \subseteq Range(a) \cup Range(b)
  BY <1>1, <1>2 DEF Range
<1>6. Range(a) \subseteq Range(c) /\ Range(b) \subseteq Range(c)
  BY <1>1, <1>3, <1>4 DEF Range
<1>7. Range(c) = Range(a) \cup Range(b)
  BY <1>5, <1>6
<1> QED BY <1>7 DEF c

(* build_batch: a queue cut in two is what both parts hold.                *)
LEMMA RangeCut ==
    ASSUME NEW T, NEW s \in Seq(T), NEW n \in 0..Len(s)
    PROVE  /\ SubSeq(s, 1, n) \in Seq(T) /\ SubSeq(s, n + 1, Len(s)) \in Seq(T)
           /\ Range(s) \subseteq Range(SubSeq(s, 1, n)) \cup Range(SubSeq(s, n + 1, Len(s)))
<1> DEFINE N == Len(s)
           a == SubSeq(s, 1, n)
           b == SubSeq(s, n + 1, N)
<1>1. N \in Nat /\ DOMAIN s = 1..N /\ \A i \in 1..N : s[i] \in T
  BY LenProperties, ElementOfSeq
<1>2. /\ a = [i \in 1..n |-> s[i]]
      /\ b = [i \in 1..(N - n) |-> s[n + i]]
  BY <1>1
<1> HIDE DEF N, a, b
<1>3. n \in Nat /\ N - n \in Nat /\ n <= N
  BY <1>1 DEF N
<1>4. a \in [1..n -> T] /\ b \in [1..(N - n) -> T]
  <2>1. \A i \in 1..n : s[i] \in T
    BY <1>1, <1>3
  <2>2. ASSUME NEW i \in 1..(N - n) PROVE s[n + i] \in T
    <3>1. n + i \in 1..N
      BY <1>1, <1>3
    <3> QED BY <1>1, <3>1
  <2> QED BY <1>2, <2>1, <2>2
<1>5. a \in Seq(T) /\ b \in Seq(T)
  BY <1>3, <1>4, SeqDef
<1>6. ASSUME NEW i \in 1..N PROVE s[i] \in Range(a) \cup Range(b)
  <2>1. CASE i <= n
    <3>1. i \in 1..n /\ a[i] = s[i]
      BY <1>2, <1>3, <2>1
    <3> QED BY <1>2, <3>1 DEF Range
  <2>2. CASE ~(i <= n)
    <3>1. i - n \in 1..(N - n) /\ n + (i - n) = i
      BY <1>1, <1>3, <2>2
    <3>2. b[i - n] = s[i] /\ DOMAIN b = 1..(N - n)
      BY <1>2, <3>1
    <3> QED BY <3>1, <3>2 DEF Range
  <2> QED BY <2>1, <2>2
<1>7. Range(s) \subseteq Range(a) \cup Range(b)
  BY <1>1, <1>6 DEF Range
<1> QED BY <1>5, <1>7 DEF a, b, N

(* A sequence of blocks holds blocks.                                      *)
LEMMA RangeType ==
    ASSUME NEW T, NEW s \in Seq(T)
    PROVE  Range(s) \subseteq T
  BY ElementOfSeq, LenProperties DEF Range

-----------------------------------------------------------------------------
(* The types of the variables, whole.                                      *)

Numbers == Nat
Batch == [number : Numbers, blocks : Seq(Blocks)]
Entry == [number : Nat, blocks : Seq(Nat)]
BufferType == [slots : 0..Capacity, pending : Seq(Blocks), waiting : BOOLEAN]
DriverType == [pending : Seq(Blocks), size : Nat, number : Nat \ {0}, due : BOOLEAN]
HandType == [step : {"idle", "built", "submitted"}, batch : Batch]
HistType == [repeats : Nat, foreign : Nat, skipped : SUBSET Blocks, skips : Nat,
             submitted : SUBSET Blocks, acked : SUBSET Nat, cut : Nat, faults : Nat, crashes : Nat, other : Nat]

FileType == [data : Seq(Batch), disk : Seq(Batch), torn : BOOLEAN]

(* What the caller and the stages hold.                                    *)
StageTypes ==
    /\ mode \in Modes /\ pc \in {"start", "running", "unsupported"} /\ made \in 0..Len(Size)
    /\ buffer \in BufferType /\ driver \in DriverType /\ hand \in HandType
    /\ checkpoint \in [mem : Numbers, file : Numbers]
    /\ hist \in HistType

(* What the sinks hold, and how far the source has read.                   *)
SinkTypes ==
    /\ l1 \in Seq(Seq(Entry))
    /\ file \in FileType
    /\ source \in [scanned : 0..Len(l1), number : Nat]

(* A number counted by a sequence of batches.                              *)
Listed(s, n) == \E i \in 1..Len(s) : s[i].number = n

(* The local sink: what was acknowledged is in its memory, and the batch   *)
(* whose write tore the file is one the caller goes on submitting.         *)
FileInv ==
    mode = "local" =>
        /\ \A n \in hist.acked : Listed(file.data, n)
        /\ ~file.torn /\ hist.acked # {} =>
              IsPrefix(file.disk, file.data) /\ \A n \in hist.acked : Listed(file.disk, n)
        /\ file.torn /\ file.data # << >> =>
              /\ hand.step = "built" /\ hand.batch = file.data[Len(file.data)]
              /\ ~ShouldSkipBatch(hand.batch.number)

(* In the first process the checkpoint is behind the driver's numbers.     *)
SkipInv ==
    /\ hand.step # "idle" => hand.batch.number < driver.number
    /\ hist.crashes = 0 =>
          /\ checkpoint.mem < driver.number /\ hist.skips = 0
          /\ hand.step = "built" => checkpoint.mem < hand.batch.number

Inv == StageTypes /\ SinkTypes /\ CountersAgree /\ FileInv /\ SkipInv /\ NoBlockDropped

(* The constants, one fact each.                                           *)
LEMMA ConstantTypes ==
    /\ Capacity \in Nat /\ Capacity > 0
    /\ MaxEmpty \in Nat /\ MaxFaults \in Nat /\ MaxCrashes \in Nat /\ MaxOther \in Nat
    /\ Config.max_blocks_per_batch \in Nat /\ Len(Size) \in Nat
<1>1. DOMAIN Defaults = {"max_blocks_per_batch", "min_batch_size"}
  BY DEF Defaults
<1>2. Config.max_blocks_per_batch \in Nat
  BY <1>1, BatchPathAssumption
<1> QED BY <1>2, BatchPathAssumption, SizeType

(* The fields of the stages, one fact each.                                *)
LEMMA StageFacts ==
    ASSUME StageTypes
    PROVE  /\ buffer.slots \in 0..Capacity /\ buffer.pending \in Seq(Blocks)
           /\ driver.pending \in Seq(Blocks) /\ driver.size \in Nat
           /\ driver.number \in Nat \ {0}
           /\ hand.step \in {"idle", "built", "submitted"} /\ hand.batch \in Batch
           /\ hand.batch.number \in Numbers /\ hand.batch.blocks \in Seq(Blocks)
           /\ checkpoint.mem \in Numbers /\ checkpoint.file \in Numbers
           /\ Len(buffer.pending) \in Nat /\ Len(driver.pending) \in Nat
<1>1. buffer \in BufferType /\ driver \in DriverType /\ hand \in HandType
  BY DEF StageTypes
<1>2. hand.batch \in Batch /\ hand.step \in {"idle", "built", "submitted"}
  BY <1>1 DEF HandType
<1>3. hand.batch.number \in Numbers /\ hand.batch.blocks \in Seq(Blocks)
  BY <1>2 DEF Batch
<1>4. /\ buffer.slots \in 0..Capacity /\ buffer.pending \in Seq(Blocks)
      /\ driver.pending \in Seq(Blocks) /\ driver.size \in Nat
      /\ driver.number \in Nat \ {0}
  BY <1>1 DEF BufferType, DriverType
<1>5. Len(buffer.pending) \in Nat /\ Len(driver.pending) \in Nat
  BY <1>4, LenProperties
<1>6. checkpoint.mem \in Numbers /\ checkpoint.file \in Numbers
  BY DEF StageTypes
<1> QED BY <1>2, <1>3, <1>4, <1>5, <1>6

(* The fields of the history, one fact each.                               *)
LEMMA HistFacts ==
    ASSUME StageTypes
    PROVE  /\ hist \in HistType
           /\ hist.repeats \in Nat /\ hist.foreign \in Nat /\ hist.skips \in Nat
           /\ hist.faults \in Nat /\ hist.crashes \in Nat /\ hist.other \in Nat
           /\ hist.skipped \subseteq Blocks /\ hist.submitted \subseteq Blocks
           /\ hist.acked \subseteq Nat /\ hist.cut \in Nat
  BY DEF StageTypes, HistType

(* The history keeps its type in the ways the actions change it.           *)
LEMMA HistUpdate ==
    ASSUME NEW h \in HistType, NEW m \in Nat, NEW n \in Nat, NEW s \in SUBSET Blocks
    PROVE  /\ [h EXCEPT !.skipped = s, !.skips = n] \in HistType
           /\ [h EXCEPT !.faults = m, !.repeats = n, !.submitted = s] \in HistType
           /\ [h EXCEPT !.other = m, !.foreign = n] \in HistType
           /\ [h EXCEPT !.crashes = n, !.repeats = 0, !.foreign = 0,
                        !.skipped = {}, !.skips = 0, !.submitted = {}, !.acked = {},
                        !.cut = m] \in HistType
<1>1. [h EXCEPT !.skipped = s, !.skips = n] \in HistType
  BY DEF HistType
<1>2. [h EXCEPT !.faults = m, !.repeats = n, !.submitted = s] \in HistType
  BY DEF HistType
<1>3. [h EXCEPT !.other = m, !.foreign = n] \in HistType
  BY DEF HistType
<1>4. [h EXCEPT !.crashes = n, !.repeats = 0, !.foreign = 0,
                !.skipped = {}, !.skips = 0, !.submitted = {}, !.acked = {},
                        !.cut = m] \in HistType
  BY DEF HistType
<1> QED BY <1>1, <1>2, <1>3, <1>4

(* The empty stages have their types.                                      *)
LEMMA EmptyTypes ==
    /\ NewBuffer \in BufferType /\ NewDriver \in DriverType /\ Idle \in HandType
    /\ << >> \in Seq(Blocks)
<1>1. << >> \in Seq(Blocks) /\ 0 \in Numbers /\ 1 \in Nat \ {0}
  BY ConstantTypes, EmptySeq DEF Numbers
<1>2. NoBatch \in Batch
  BY <1>1 DEF NoBatch, Batch
<1>3. Idle \in HandType
  BY <1>2 DEF Idle, HandType
<1> QED BY <1>1, <1>3, ConstantTypes
        DEF NewBuffer, NewDriver, BufferType, DriverType

(* How many blocks build_batch takes: at most those that wait.             *)
Taken == IF Len(driver.pending) < Config.max_blocks_per_batch THEN Len(driver.pending)
         ELSE Config.max_blocks_per_batch

(* build_batch cuts the driver's queue in two.                             *)
LEMMA BuildFacts ==
    ASSUME StageTypes, BuildBatch
    PROVE  /\ hand.step = "idle"
           /\ hand' = [step |-> "built", batch |-> [number |-> driver.number,
                         blocks |-> SubSeq(driver.pending, 1, Taken)]]
           /\ driver' = Drained(Taken)
           /\ driver.number \in Nat \ {0}
           /\ Taken \in 0..Len(driver.pending)
<1>1. Taken \in 0..Len(driver.pending)
  BY ConstantTypes, StageFacts DEF Taken
<1>2. driver.number \in Nat \ {0}
  BY ConstantTypes, StageFacts DEF BuildBatch
<1> QED BY <1>1, <1>2 DEF BuildBatch, Taken

(* The stages keep their types.                                            *)
LEMMA StageStep ==
    ASSUME Inv, [Next]_vars
    PROVE  StageTypes'
<1>0. StageTypes /\ CountersAgree
  BY DEF Inv
<1> DEFINE Same == UNCHANGED <<mode, pc, made, buffer, driver, hand, checkpoint, hist>>
<1>1. ASSUME Same PROVE StageTypes'
  BY <1>0, <1>1 DEF StageTypes
<1>2. ASSUME NewContext PROVE StageTypes'
  BY <1>0, <1>2 DEF NewContext, StageTypes
<1>3. ASSUME Push PROVE StageTypes'
  <2>1. made + 1 \in Blocks /\ made' \in 0..Len(Size) /\ buffer.slots - 1 \in 0..Capacity
    <3>1. made \in 0..Len(Size) /\ made < Len(Size) /\ made' = made + 1 /\ buffer.slots > 0
      BY <1>0, <1>3 DEF Push, StageTypes
    <3>2. buffer.slots \in 0..Capacity
      BY <1>0, StageFacts
    <3>3. made + 1 \in Blocks /\ made' \in 0..Len(Size)
      BY <3>1, ConstantTypes DEF Blocks
    <3>4. buffer.slots - 1 \in 0..Capacity
      BY <3>1, <3>2, ConstantTypes
    <3> QED BY <3>3, <3>4
  <2>2. Append(buffer.pending, made + 1) \in Seq(Blocks)
    BY <1>0, <2>1, StageFacts, AppendProperties
  <2>3. buffer' \in BufferType
    BY <1>0, <1>3, <2>1, <2>2 DEF Push, StageTypes, BufferType
  <2> QED BY <1>0, <1>3, <2>1, <2>3 DEF Push, StageTypes
<1>4. ASSUME PushWaits PROVE StageTypes'
  BY <1>0, <1>4 DEF PushWaits, StageTypes, BufferType
<1>5. ASSUME IntervalPasses PROVE StageTypes'
  BY <1>0, <1>5 DEF IntervalPasses, StageTypes, DriverType
<1>6. ASSUME Collect PROVE StageTypes'
  <2>1. buffer.slots + Len(buffer.pending) \in 0..Capacity
    BY <1>0, ConstantTypes DEF CountersAgree
  <2>2. buffer' \in BufferType
    BY <1>0, <1>6, <2>1, EmptyTypes DEF Collect, StageTypes, BufferType
  <2>3. driver.pending \o buffer.pending \in Seq(Blocks)
    BY <1>0, StageFacts, ConcatProperties
  <2>4. driver.size + Bytes(buffer.pending) \in Nat
    BY <1>0, StageFacts, BytesConcat
  <2>5. driver' \in DriverType
    BY <1>0, <1>6, <2>3, <2>4 DEF Collect, AddBlocks, StageTypes, DriverType
  <2> QED BY <1>0, <1>6, <2>2, <2>5 DEF Collect, StageTypes
<1>7. ASSUME BuildBatch PROVE StageTypes'
  <2>1. /\ SubSeq(driver.pending, 1, Taken) \in Seq(Blocks)
        /\ SubSeq(driver.pending, Taken + 1, Len(driver.pending)) \in Seq(Blocks)
    BY <1>0, <1>7, StageFacts, BuildFacts, RangeCut
  <2>2. driver.number \in Numbers /\ driver.number + 1 \in Nat \ {0}
    BY <1>0, <1>7, ConstantTypes, BuildFacts DEF Numbers
  <2>3. [number |-> driver.number, blocks |-> SubSeq(driver.pending, 1, Taken)] \in Batch
    BY <2>1, <2>2 DEF Batch
  <2>4. hand' \in HandType
    <3> DEFINE b == [number |-> driver.number, blocks |-> SubSeq(driver.pending, 1, Taken)]
    <3>1. hand' = [step |-> "built", batch |-> b]
      BY <1>0, <1>7, BuildFacts
    <3>2. b \in Batch
      BY <2>3
    <3> HIDE DEF b
    <3> QED BY <3>1, <3>2 DEF HandType
  <2>5. Bytes(SubSeq(driver.pending, Taken + 1, Len(driver.pending))) \in Nat
    BY <2>1, BytesConcat
  <2>6. driver' \in DriverType
    <3> DEFINE rest == SubSeq(driver.pending, Taken + 1, Len(driver.pending))
               n == driver.number + 1
    <3>1. driver' = [pending |-> rest, size |-> Bytes(rest), number |-> n, due |-> FALSE]
      BY <1>0, <1>7, BuildFacts DEF Drained
    <3>2. rest \in Seq(Blocks) /\ Bytes(rest) \in Nat /\ n \in Nat \ {0}
      BY <2>1, <2>2, <2>5
    <3> HIDE DEF rest, n
    <3> QED BY <3>1, <3>2 DEF DriverType
  <2> QED BY <1>0, <1>7, <2>4, <2>6 DEF BuildBatch, StageTypes
<1> DEFINE mine == Range(hand.batch.blocks)
<1>8. mine \subseteq Blocks
  BY <1>0, StageFacts, RangeType
<1> HIDE DEF mine
<1>9. ASSUME SkipBatch PROVE StageTypes'
  <2>1. hist' \in HistType
    <3> DEFINE s == hist.skipped \cup mine
               n == hist.skips + 1
    <3>1. hist' = [hist EXCEPT !.skipped = s, !.skips = n]
      BY <1>9 DEF SkipBatch, mine
    <3>2. s \in SUBSET Blocks /\ n \in Nat
      BY <1>0, <1>8, HistFacts
    <3> HIDE DEF s, n
    <3> QED BY <1>0, <3>1, <3>2, HistFacts, HistUpdate
  <2> QED BY <1>0, <1>9, <2>1, EmptyTypes DEF SkipBatch, StageTypes
<1>10. ASSUME Submit PROVE StageTypes'
  <2>1. hist' \in HistType
    <3> DEFINE s == hist.submitted \cup mine
               a == hist.acked \cup {hand.batch.number}
    <3>1. hist' = [hist EXCEPT !.submitted = s, !.acked = a]
      BY <1>10 DEF Submit, mine
    <3>2. s \in SUBSET Blocks /\ a \in SUBSET Nat
      BY <1>0, <1>8, HistFacts, StageFacts DEF Numbers
    <3> HIDE DEF s, a
    <3> QED BY <1>0, <3>1, <3>2, HistFacts DEF HistType
  <2>2. hand' \in HandType
    BY <1>0, <1>10 DEF Submit, StageTypes, HandType
  <2> QED BY <1>0, <1>10, <2>1, <2>2 DEF Submit, StageTypes
<1>11. ASSUME SubmitFails PROVE StageTypes'
  <2>1. hist' \in HistType
    BY <1>0, <1>11 DEF SubmitFails, StageTypes, HistType
  <2> QED BY <1>0, <1>11, <2>1 DEF SubmitFails, StageTypes
<1>12. ASSUME SubmitUnconfirmed PROVE StageTypes'
  <2>1. hist' \in HistType
    <3> DEFINE s == hist.submitted \cup mine
               f == hist.faults + 1
               n == hist.repeats + 1
    <3>1. hist' = [hist EXCEPT !.faults = f, !.repeats = n, !.submitted = s]
      BY <1>12 DEF SubmitUnconfirmed, mine
    <3>2. s \in SUBSET Blocks /\ n \in Nat /\ f \in Nat
      BY <1>0, <1>8, HistFacts
    <3> HIDE DEF s, n, f
    <3> QED BY <1>0, <3>1, <3>2, HistFacts, HistUpdate
  <2> QED BY <1>0, <1>12, <2>1 DEF SubmitUnconfirmed, StageTypes
<1>13. ASSUME RecordBatchSubmitted PROVE StageTypes'
  <2>1. hist' \in HistType
    BY <1>0, <1>13 DEF RecordBatchSubmitted, StageTypes, HistType
  <2>2. checkpoint' \in [mem : Numbers, file : Numbers]
    <3> DEFINE n == IF hand.batch.number > checkpoint.mem THEN hand.batch.number ELSE checkpoint.mem
    <3>1. n \in Numbers
      BY <1>0, StageFacts
    <3> HIDE DEF n
    <3>2. \/ checkpoint' = [mem |-> n, file |-> n]
          \/ checkpoint' = [checkpoint EXCEPT !.mem = n]
      BY <1>13 DEF RecordBatchSubmitted, n
    <3> QED BY <1>0, <3>1, <3>2 DEF StageTypes
  <2> QED BY <1>0, <1>13, <2>1, <2>2, EmptyTypes DEF RecordBatchSubmitted, StageTypes
<1>14. ASSUME OtherBlock PROVE StageTypes'
  <2>1. PICK txs \in {<<>>, <<Foreign>>} :
           hist' = [hist EXCEPT !.other = @ + 1, !.foreign = @ + Len(txs)]
    BY <1>14 DEF OtherBlock
  <2>2. Len(txs) \in Nat
    OBVIOUS
  <2>3. hist' \in HistType
    <3> DEFINE m == hist.other + 1
               n == hist.foreign + Len(txs)
    <3>1. hist' = [hist EXCEPT !.other = m, !.foreign = n]
      BY <2>1
    <3>2. m \in Nat /\ n \in Nat
      BY <1>0, <2>2, HistFacts
    <3> HIDE DEF m, n
    <3> QED BY <1>0, <3>1, <3>2, HistFacts, HistUpdate
  <2> QED BY <1>0, <1>14, <2>3 DEF OtherBlock, StageTypes
<1>15. ASSUME Source PROVE StageTypes'
  BY <1>1, <1>15 DEF Source, NextBatchInMemory, NextBatchAnvil
<1>16. ASSUME Crash PROVE StageTypes'
  <2>1. hist' \in HistType
    <3> DEFINE n == hist.crashes + 1
    <3>1. hist' = [hist EXCEPT !.crashes = n, !.repeats = 0, !.foreign = 0,
                               !.skipped = {}, !.skips = 0, !.submitted = {}, !.acked = {},
                               !.cut = made]
      BY <1>16 DEF Crash
    <3>2. n \in Nat /\ made \in Nat
      BY <1>0, HistFacts, ConstantTypes DEF StageTypes
    <3> HIDE DEF n
    <3> QED BY <1>0, <3>1, <3>2, HistFacts, HistUpdate
  <2>2. checkpoint' \in [mem : Numbers, file : Numbers]
    BY <1>0, <1>16, StageFacts DEF Crash, WithCheckpoint
  <2> QED BY <1>0, <1>16, <2>1, <2>2, EmptyTypes DEF Crash, StageTypes
<1> QED BY <1>1, <1>2, <1>3, <1>4, <1>5, <1>6, <1>7, <1>9, <1>10, <1>11, <1>12, <1>13,
           <1>14, <1>15, <1>16 DEF Next, Caller, vars

-----------------------------------------------------------------------------
(* The sinks.                                                              *)

(* Whatever a sink is given, Anvil's chain only grows by a block of        *)
(* batches, and the file holds batches.                                    *)
LEMMA DepositTypes ==
    ASSUME SinkTypes, NEW b \in Batch, NEW w, Deposit(b, w)
    PROVE  /\ l1' \in Seq(Seq(Entry)) /\ Len(l1') >= Len(l1) /\ Len(l1') \in Nat
           /\ file' \in FileType
<1>0. /\ l1 \in Seq(Seq(Entry)) /\ file \in FileType
      /\ Len(l1) \in Nat /\ file.data \in Seq(Batch) /\ file.disk \in Seq(Batch)
  BY LenProperties DEF SinkTypes, FileType
<1>1. b \in Entry
  <2>1. b.number \in Nat /\ b.blocks \in Seq(Nat) /\ b = [number |-> b.number, blocks |-> b.blocks]
    <3>1. b.number \in Nat /\ b.blocks \in Seq(Blocks)
      BY DEF Batch, Numbers
    <3>2. Seq(Blocks) \subseteq Seq(Nat)
      BY SeqDef, ConstantTypes DEF Blocks
    <3>3. b = [number |-> b.number, blocks |-> b.blocks]
      BY DEF Batch
    <3> QED BY <3>1, <3>2, <3>3
  <2> QED BY <2>1 DEF Entry
<1>2. <<b>> \in Seq(Entry)
  BY <1>1
<1>3. Append(l1, <<b>>) \in Seq(Seq(Entry)) /\ Len(Append(l1, <<b>>)) = Len(l1) + 1
  BY <1>0, <1>2, AppendProperties
<1>4. l1' = l1 \/ l1' = Append(l1, <<b>>)
  BY DEF Deposit
<1>5. l1' \in Seq(Seq(Entry)) /\ Len(l1') >= Len(l1) /\ Len(l1') \in Nat
  <2>1. CASE l1' = l1
    <3>1. Len(l1') = Len(l1)
      BY <2>1
    <3> QED BY <1>0, <2>1, <3>1
  <2>2. CASE l1' = Append(l1, <<b>>)
    <3> DEFINE c == Append(l1, <<b>>)
    <3>1. c \in Seq(Seq(Entry)) /\ Len(c) = Len(l1) + 1 /\ l1' = c
      BY <1>3, <2>2
    <3> HIDE DEF c
    <3>2. Len(l1') = Len(l1) + 1
      BY <3>1
    <3> QED BY <1>0, <3>1, <3>2
  <2> QED BY <1>4, <2>1, <2>2
<1>6. file' \in FileType
  <2> DEFINE d == Append(file.data, b)
  <2>1. d \in Seq(Batch)
    BY <1>0, AppendProperties
  <2>2. \/ file' = file
        \/ \E t \in BOOLEAN : \E e \in {d, file.disk, << >>} :
              file' = [data |-> d, disk |-> e, torn |-> t]
    BY DEF Deposit, Write
  <2>3. << >> \in Seq(Batch)
    BY EmptySeq
  <2> HIDE DEF d
  <2>4. CASE file' = file
    BY <1>0, <2>4
  <2>5. ASSUME NEW t \in BOOLEAN, NEW e \in {d, file.disk, << >>},
               file' = [data |-> d, disk |-> e, torn |-> t]
        PROVE  file' \in FileType
    <3>1. e \in Seq(Batch)
      BY <1>0, <2>1, <2>3
    <3> QED BY <2>1, <2>5, <3>1 DEF FileType
  <2> QED BY <2>2, <2>4, <2>5
<1> QED BY <1>5, <1>6

(* The sinks and the source keep their types; the source never reads past  *)
(* the chain.                                                              *)
LEMMA SinkStep ==
    ASSUME Inv, [Next]_vars
    PROVE  SinkTypes'
<1>0. /\ StageTypes /\ SinkTypes /\ l1 \in Seq(Seq(Entry)) /\ Len(l1) \in Nat
      /\ source \in [scanned : 0..Len(l1), number : Nat]
      /\ source.scanned \in 0..Len(l1) /\ source.number \in Nat
  BY LenProperties DEF Inv, SinkTypes
<1> DEFINE Same == UNCHANGED <<l1, file, source>>
<1>1. ASSUME Same PROVE SinkTypes'
  BY <1>0, <1>1 DEF SinkTypes
<1>2. ASSUME NEW w, Deposit(hand.batch, w), UNCHANGED source PROVE SinkTypes'
  <2>1. /\ l1' \in Seq(Seq(Entry)) /\ Len(l1') >= Len(l1) /\ Len(l1') \in Nat
        /\ file' \in FileType
    BY <1>0, <1>2, StageFacts, DepositTypes
  <2>2. source.scanned \in 0..Len(l1')
    BY <1>0, <2>1
  <2>3. source' \in [scanned : 0..Len(l1'), number : Nat]
    BY <1>0, <1>2, <2>2
  <2> QED BY <2>1, <2>3 DEF SinkTypes
<1>3. ASSUME OtherBlock PROVE SinkTypes'
  <2>1. PICK txs \in {<<>>, <<Foreign>>} : l1' = Append(l1, txs)
    BY <1>3 DEF OtherBlock
  <2>2. txs \in Seq(Entry)
    <3>1. <<0>> \in Seq(Nat)
      OBVIOUS
    <3>2. Foreign \in Entry
      BY <3>1 DEF Foreign, Entry
    <3>3. <<Foreign>> \in Seq(Entry) /\ << >> \in Seq(Entry)
      <4> HIDE DEF Entry
      <4> QED BY <3>2
    <3> QED BY <3>3
  <2>3. l1' \in Seq(Seq(Entry)) /\ Len(l1') = Len(l1) + 1
    BY <1>0, <2>1, <2>2, AppendProperties
  <2>4. source.scanned \in 0..Len(l1')
    BY <1>0, <2>3
  <2>5. source' \in [scanned : 0..Len(l1'), number : Nat]
    BY <1>0, <1>3, <2>4 DEF OtherBlock
  <2> QED BY <1>0, <1>3, <2>3, <2>5 DEF OtherBlock, SinkTypes
<1>4. ASSUME NextBatchAnvil PROVE SinkTypes'
  <2>1. \/ source' = [source EXCEPT !.scanned = Len(l1)]
        \/ \E b \in source.scanned + 1 .. Len(l1) :
              source' = [scanned |-> b, number |-> source.number + 1]
    BY <1>4 DEF NextBatchAnvil
  <2>2. source' \in [scanned : 0..Len(l1), number : Nat]
    BY <1>0, <2>1
  <2> QED BY <1>0, <1>4, <2>2 DEF NextBatchAnvil, sinks, SinkTypes
<1>5. ASSUME Crash PROVE SinkTypes'
  <2>1. l1' = << >> /\ source' = [scanned |-> 0, number |-> 1]
        /\ \E t \in BOOLEAN : \E e \in {file.disk, << >>} :
              file' = [data |-> << >>, disk |-> e, torn |-> t]
    BY <1>5 DEF Crash, NewSource, Write
  <2>2. l1' \in Seq(Seq(Entry)) /\ Len(l1') = 0
    BY <2>1, EmptySeq
  <2>3. source' \in [scanned : 0..Len(l1'), number : Nat]
    BY <2>1, <2>2
  <2>4. file' \in FileType
    <3>1. << >> \in Seq(Batch) /\ file.disk \in Seq(Batch)
      BY <1>0, EmptySeq DEF SinkTypes, FileType
    <3>2. PICK t \in BOOLEAN, e \in {file.disk, << >>} :
             file' = [data |-> << >>, disk |-> e, torn |-> t]
      BY <2>1
    <3>3. e \in Seq(Batch)
      BY <3>1
    <3> QED BY <3>1, <3>2, <3>3 DEF FileType
  <2> QED BY <2>2, <2>3, <2>4 DEF SinkTypes
<1>6. ASSUME Submit \/ SubmitUnconfirmed PROVE SinkTypes'
  BY <1>2, <1>6 DEF Submit, SubmitUnconfirmed
<1>7. ASSUME \/ NewContext \/ Push \/ PushWaits \/ IntervalPasses \/ Collect \/ BuildBatch
             \/ SkipBatch \/ SubmitFails \/ RecordBatchSubmitted \/ NextBatchInMemory
             \/ UNCHANGED vars
      PROVE  SinkTypes'
  <2>1. Same
    BY <1>7 DEF NewContext, Push, PushWaits, IntervalPasses, Collect, BuildBatch, SkipBatch,
                SubmitFails, RecordBatchSubmitted, NextBatchInMemory, vars, sinks
  <2> QED BY <1>1, <2>1
<1> QED BY <1>3, <1>4, <1>5, <1>6, <1>7 DEF Next, Caller, Source

-----------------------------------------------------------------------------
(* The steps.                                                              *)

(* The semaphore and the running size stay those of the queues.            *)
LEMMA CountersStep ==
    ASSUME Inv, [Next]_vars
    PROVE  CountersAgree'
<1>0. /\ StageTypes /\ buffer.slots + Len(buffer.pending) = Capacity
      /\ driver.size = Bytes(driver.pending)
      /\ buffer \in BufferType /\ driver \in DriverType
  BY DEF Inv, CountersAgree, StageTypes
<1>1. ASSUME UNCHANGED <<buffer, driver>> PROVE CountersAgree'
  BY <1>0, <1>1 DEF CountersAgree
<1>2. ASSUME Push PROVE CountersAgree'
  <2>1. buffer' = [buffer EXCEPT !.slots = @ - 1, !.pending = Append(@, made + 1)]
    BY <1>2 DEF Push
  <2>2. /\ buffer'.slots = buffer.slots - 1 /\ buffer'.pending = Append(buffer.pending, made + 1)
    BY <1>0, <2>1 DEF BufferType
  <2>3. made + 1 \in Nat
    BY <1>0, ConstantTypes DEF StageTypes
  <2>4. Len(buffer'.pending) = Len(buffer.pending) + 1
    <3> DEFINE x == made + 1
               p == buffer.pending
    <3>1. p \in Seq(Blocks) /\ x \in Nat /\ buffer'.pending = Append(p, x)
      BY <1>0, <2>2, <2>3, StageFacts
    <3> HIDE DEF x, p
    <3>2. Len(Append(p, x)) = Len(p) + 1
      BY <3>1
    <3> QED BY <3>1, <3>2 DEF p
  <2>5. buffer'.slots + Len(buffer'.pending) = Capacity
    <3> DEFINE k == Len(buffer.pending)
               j == buffer.slots
    <3>1. k \in Nat /\ j \in Nat /\ j + k = Capacity
      BY <1>0, StageFacts, ConstantTypes
    <3>2. buffer'.slots = j - 1 /\ Len(buffer'.pending) = k + 1
      BY <2>2, <2>4
    <3> HIDE DEF k, j
    <3> QED BY <3>1, <3>2, ConstantTypes
  <2> QED BY <1>0, <1>2, <2>5 DEF Push, CountersAgree
<1>3. ASSUME PushWaits PROVE CountersAgree'
  BY <1>0, <1>3 DEF PushWaits, CountersAgree, BufferType
<1>4. ASSUME IntervalPasses PROVE CountersAgree'
  BY <1>0, <1>4 DEF IntervalPasses, CountersAgree, DriverType
<1>5. ASSUME Collect PROVE CountersAgree'
  <2>1. /\ buffer'.slots = buffer.slots + Len(buffer.pending) /\ buffer'.pending = << >>
        /\ driver'.pending = driver.pending \o buffer.pending
        /\ driver'.size = driver.size + Bytes(buffer.pending)
    BY <1>0, <1>5 DEF Collect, AddBlocks, BufferType, DriverType
  <2>2. Bytes(driver.pending \o buffer.pending) = Bytes(driver.pending) + Bytes(buffer.pending)
    BY <1>0, StageFacts, BytesConcat
  <2>3. buffer'.slots + Len(buffer'.pending) = Capacity
    <3>1. Len(buffer'.pending) = 0
      BY <2>1, EmptySeq
    <3>2. buffer'.slots = Capacity
      BY <1>0, <2>1
    <3> QED BY <3>1, <3>2, ConstantTypes
  <2> QED BY <1>0, <2>1, <2>2, <2>3 DEF CountersAgree
<1>6. ASSUME BuildBatch PROVE CountersAgree'
  <2>1. driver' = Drained(Taken) /\ buffer' = buffer
    BY <1>0, <1>6, BuildFacts DEF BuildBatch
  <2> QED BY <1>0, <2>1 DEF CountersAgree, Drained
<1>7. ASSUME Crash PROVE CountersAgree'
  <2>1. buffer' = NewBuffer /\ driver' = NewDriver
    BY <1>7 DEF Crash
  <2> QED BY <2>1, BytesEmpty, ConstantTypes DEF CountersAgree, NewBuffer, NewDriver
<1>8. ASSUME \/ NewContext \/ SkipBatch \/ Submit \/ SubmitFails \/ SubmitUnconfirmed
             \/ RecordBatchSubmitted \/ OtherBlock \/ Source \/ UNCHANGED vars
      PROVE  CountersAgree'
  BY <1>1, <1>8 DEF NewContext, SkipBatch, Submit, SubmitFails, SubmitUnconfirmed,
     RecordBatchSubmitted, OtherBlock, Source, NextBatchInMemory, NextBatchAnvil, vars
<1> QED BY <1>2, <1>3, <1>4, <1>5, <1>6, <1>7, <1>8 DEF Next, Caller

(* What is a beginning of a sequence is one of the longer sequence.        *)
LEMMA PrefixAppend ==
    ASSUME NEW T, NEW a \in Seq(T), NEW s \in Seq(T), NEW x \in T, IsPrefix(a, s)
    PROVE  IsPrefix(a, Append(s, x)) /\ IsPrefix(Append(s, x), Append(s, x))
<1> DEFINE b == Append(s, x)
<1>1. /\ Len(s) \in Nat /\ Len(a) \in Nat /\ b \in Seq(T) /\ Len(b) = Len(s) + 1
      /\ \A i \in 1..Len(s) : b[i] = s[i]
  BY AppendProperties, LenProperties
<1> HIDE DEF b
<1>2. Len(a) <= Len(s) /\ \A i \in 1..Len(a) : a[i] = s[i]
  BY DEF IsPrefix
<1>3. Len(a) <= Len(b) /\ \A i \in 1..Len(a) : a[i] = b[i]
  BY <1>1, <1>2
<1>4. IsPrefix(a, b)
  BY <1>1, <1>3 DEF IsPrefix
<1>5. IsPrefix(b, b)
  BY <1>1 DEF IsPrefix
<1> QED BY <1>4, <1>5 DEF b

(* What the file does at a submission.                                     *)
LEMMA WriteFacts ==
    ASSUME Inv, NEW w \in {"all", "none", "part"}, Deposit(hand.batch, w), mode = "local"
    PROVE  /\ file'.data = Append(file.data, hand.batch)
           /\ w = "all" => ~file'.torn /\ file'.disk = file'.data
           /\ w = "none" => file'.torn = file.torn /\ file'.disk = file.disk
           /\ w = "part" => file'.torn
           /\ file'.data # << >> /\ file'.data[Len(file'.data)] = hand.batch
           /\ \A n : n = hand.batch.number \/ Listed(file.data, n) => Listed(file'.data, n)
           /\ IsPrefix(file'.data, file'.data)
           /\ IsPrefix(file.disk, file.data) => IsPrefix(file.disk, file'.data)
<1> DEFINE d == Append(file.data, hand.batch)
<1>1. file.data \in Seq(Batch) /\ file.disk \in Seq(Batch) /\ file.torn \in BOOLEAN
      /\ hand.batch \in Batch
  BY StageFacts DEF Inv, SinkTypes, FileType
<1>2. file' = Write(d, w)
  BY DEF Deposit
<1>3. /\ file'.data = d
      /\ w = "all" => ~file'.torn /\ file'.disk = d
      /\ w = "none" => file'.torn = file.torn /\ file'.disk = file.disk
      /\ w = "part" => file'.torn
  BY <1>1, <1>2 DEF Write
<1>4. /\ Len(file.data) \in Nat /\ d \in Seq(Batch) /\ Len(d) = Len(file.data) + 1
      /\ d[Len(file.data) + 1] = hand.batch
      /\ \A i \in 1..Len(file.data) : d[i] = file.data[i]
  BY <1>1, AppendProperties, LenProperties
<1>5. IsPrefix(d, d) /\ (IsPrefix(file.disk, file.data) => IsPrefix(file.disk, d))
  <2>1. IsPrefix(d, d)
    <3> HIDE DEF d
    <3> QED BY <1>4 DEF IsPrefix
  <2> QED BY <1>1, <2>1, PrefixAppend
<1> HIDE DEF d
<1>6. d # << >> /\ d[Len(d)] = hand.batch
  <2>1. Len(d) # 0
    BY <1>4
  <2> QED BY <1>4, <2>1, EmptySeq
<1>7. \A n : n = hand.batch.number \/ Listed(file.data, n) => Listed(d, n)
  <2>1. 1..Len(file.data) \subseteq 1..Len(d) /\ Len(file.data) + 1 \in 1..Len(d)
    BY <1>4
  <2> QED BY <1>4, <2>1 DEF Listed
<1> QED BY <1>3, <1>5, <1>6, <1>7 DEF d

(* What was acknowledged stays in the file, or comes back with the retry.  *)
LEMMA FileStep ==
    ASSUME Inv, [Next]_vars
    PROVE  FileInv'
<1>0. /\ StageTypes /\ FileInv /\ SkipInv /\ hist \in HistType /\ hand \in HandType
  BY HistFacts DEF Inv, StageTypes
<1>1. ASSUME file' = file, mode' = mode, hist'.acked = hist.acked,
             hand.step = "built" /\ ~ShouldSkipBatch(hand.batch.number) =>
                hand' = hand /\ checkpoint' = checkpoint
      PROVE  FileInv'
  BY <1>0, <1>1 DEF FileInv, Listed, ShouldSkipBatch
<1>2. ASSUME Submit PROVE FileInv'
  <2>1. Deposit(hand.batch, "all") /\ mode' = mode /\ hist'.acked = hist.acked \cup {hand.batch.number}
    BY <1>0, <1>2 DEF Submit, HistType
  <2> SUFFICES ASSUME mode = "local"
               PROVE  /\ \A n \in hist'.acked : Listed(file'.data, n)
                      /\ ~file'.torn /\ IsPrefix(file'.disk, file'.data)
                      /\ \A n \in hist'.acked : Listed(file'.disk, n)
    BY <2>1 DEF FileInv, Listed
  <2>2. /\ ~file'.torn /\ file'.disk = file'.data
        /\ \A n : n = hand.batch.number \/ Listed(file.data, n) => Listed(file'.data, n)
        /\ IsPrefix(file'.data, file'.data)
    BY <2>1, WriteFacts
  <2>3. \A n \in hist.acked : Listed(file.data, n)
    BY <1>0 DEF FileInv
  <2> QED BY <2>1, <2>2, <2>3
<1>3. ASSUME SubmitUnconfirmed PROVE FileInv'
  <2>1. PICK w \in {"none", "part"} : Deposit(hand.batch, w)
    BY <1>3 DEF SubmitUnconfirmed
  <2>2. /\ mode' = mode /\ hist'.acked = hist.acked /\ hand' = hand /\ checkpoint' = checkpoint
        /\ hand.step = "built" /\ ~ShouldSkipBatch(hand.batch.number)
    BY <1>0, <1>3 DEF SubmitUnconfirmed, ReadyToSubmit, HistType
  <2> SUFFICES ASSUME mode = "local"
               PROVE  /\ \A n \in hist.acked : Listed(file'.data, n)
                      /\ ~file'.torn /\ hist.acked # {} =>
                           /\ IsPrefix(file'.disk, file'.data)
                           /\ \A n \in hist.acked : Listed(file'.disk, n)
                      /\ hand.batch = file'.data[Len(file'.data)]
    BY <2>2 DEF FileInv, Listed, ShouldSkipBatch
  <2>3. /\ w = "none" => file'.torn = file.torn /\ file'.disk = file.disk
        /\ w = "part" => file'.torn
        /\ file'.data[Len(file'.data)] = hand.batch
        /\ \A n : Listed(file.data, n) => Listed(file'.data, n)
        /\ IsPrefix(file.disk, file.data) => IsPrefix(file.disk, file'.data)
    BY <2>1, WriteFacts
  <2>4. /\ \A n \in hist.acked : Listed(file.data, n)
        /\ ~file.torn /\ hist.acked # {} =>
             IsPrefix(file.disk, file.data) /\ \A n \in hist.acked : Listed(file.disk, n)
    BY <1>0 DEF FileInv
  <2> QED BY <2>1, <2>3, <2>4
<1>4. ASSUME Crash PROVE FileInv'
  <2>1. hist'.acked = {} /\ file'.data = << >>
    BY <1>0, <1>4 DEF Crash, HistType, Write
  <2> QED BY <2>1 DEF FileInv
<1>5. ASSUME \/ NewContext \/ Push \/ PushWaits \/ IntervalPasses \/ Collect \/ BuildBatch
             \/ SkipBatch \/ SubmitFails \/ RecordBatchSubmitted \/ OtherBlock \/ Source
             \/ UNCHANGED vars
      PROVE  FileInv'
  <2>1. file' = file /\ mode' = mode
    BY <1>5 DEF NewContext, Push, PushWaits, IntervalPasses, Collect, BuildBatch, SkipBatch,
       SubmitFails, RecordBatchSubmitted, OtherBlock, Source, NextBatchInMemory,
       NextBatchAnvil, sinks, vars
  <2>2. hist'.acked = hist.acked
    BY <1>0, <1>5 DEF NewContext, Push, PushWaits, IntervalPasses, Collect, BuildBatch,
       SkipBatch, SubmitFails, RecordBatchSubmitted, OtherBlock, Source, NextBatchInMemory,
       NextBatchAnvil, vars, HistType
  <2>3. hand.step = "built" /\ ~ShouldSkipBatch(hand.batch.number) =>
           hand' = hand /\ checkpoint' = checkpoint
    BY <1>5 DEF NewContext, Push, PushWaits, IntervalPasses, Collect, BuildBatch,
       SkipBatch, SubmitFails, RecordBatchSubmitted, OtherBlock, Source, NextBatchInMemory,
       NextBatchAnvil, vars
  <2> QED BY <1>1, <2>1, <2>2, <2>3
<1> QED BY <1>2, <1>3, <1>4, <1>5 DEF Next, Caller

(* Within a process the checkpoint stays behind the driver's numbers.      *)
LEMMA SkipStep ==
    ASSUME Inv, [Next]_vars
    PROVE  SkipInv'
<1>0. /\ StageTypes /\ SkipInv /\ hist \in HistType /\ hand \in HandType /\ driver \in DriverType
      /\ driver.number \in Nat /\ hand.batch.number \in Nat /\ checkpoint.mem \in Nat
      /\ hist.crashes \in Nat /\ checkpoint \in [mem : Numbers, file : Numbers]
  BY HistFacts, StageFacts DEF Inv, StageTypes, Numbers
<1>1. ASSUME UNCHANGED <<hand, checkpoint>>, driver'.number = driver.number,
             hist'.crashes = hist.crashes, hist'.skips = hist.skips
      PROVE  SkipInv'
  BY <1>0, <1>1 DEF SkipInv
<1>2. ASSUME BuildBatch PROVE SkipInv'
  <2>1. /\ hand'.step = "built" /\ hand'.batch.number = driver.number
        /\ driver'.number = driver.number + 1 /\ UNCHANGED <<checkpoint, hist>>
    BY <1>0, <1>2, BuildFacts DEF BuildBatch, Drained
  <2> QED BY <1>0, <2>1 DEF SkipInv
<1>3. ASSUME SkipBatch PROVE SkipInv'
  <2>1. /\ hand'.step = "idle" /\ hist'.crashes = hist.crashes /\ UNCHANGED <<driver, checkpoint>>
        /\ hand.step = "built" /\ hand.batch.number <= checkpoint.mem
    BY <1>0, <1>3 DEF SkipBatch, ShouldSkipBatch, Idle, HistType
  <2>2. hist.crashes # 0
    BY <1>0, <2>1 DEF SkipInv
  <2> QED BY <2>1, <2>2 DEF SkipInv
<1>4. ASSUME Submit PROVE SkipInv'
  <2>1. /\ hand'.step = "submitted" /\ hand'.batch = hand.batch /\ hand.step = "built"
        /\ hist'.crashes = hist.crashes /\ hist'.skips = hist.skips
        /\ UNCHANGED <<driver, checkpoint>>
    BY <1>0, <1>4 DEF Submit, ReadyToSubmit, HistType, HandType
  <2> QED BY <1>0, <2>1 DEF SkipInv
<1>5. ASSUME RecordBatchSubmitted PROVE SkipInv'
  <2>1. /\ hand'.step = "idle" /\ driver' = driver /\ hand.step = "submitted"
        /\ hist'.crashes = hist.crashes /\ hist'.skips = hist.skips
    BY <1>0, <1>5 DEF RecordBatchSubmitted, Idle, HistType
  <2>2. checkpoint'.mem \in {hand.batch.number, checkpoint.mem}
    BY <1>0, <1>5 DEF RecordBatchSubmitted
  <2> QED BY <1>0, <2>1, <2>2 DEF SkipInv
<1>6. ASSUME Crash PROVE SkipInv'
  <2>1. hist'.crashes = hist.crashes + 1 /\ hand'.step = "idle"
    BY <1>0, <1>6 DEF Crash, HistType, Idle
  <2> QED BY <1>0, <2>1 DEF SkipInv
<1>7. ASSUME SubmitFails \/ SubmitUnconfirmed \/ OtherBlock PROVE SkipInv'
  <2>1. /\ UNCHANGED <<hand, checkpoint, driver>>
        /\ hist'.crashes = hist.crashes /\ hist'.skips = hist.skips
    BY <1>0, <1>7 DEF SubmitFails, SubmitUnconfirmed, OtherBlock, HistType
  <2> QED BY <1>1, <2>1
<1>8. ASSUME NewContext \/ Push \/ PushWaits \/ IntervalPasses \/ Collect \/ Source \/ UNCHANGED vars
      PROVE  SkipInv'
  <2>1. UNCHANGED <<hand, checkpoint, hist>> /\ driver'.number = driver.number
    BY <1>0, <1>8 DEF NewContext, Push, PushWaits, IntervalPasses, Collect, AddBlocks, Source,
       NextBatchInMemory, NextBatchAnvil, vars, DriverType
  <2> QED BY <1>1, <2>1
<1> QED BY <1>2, <1>3, <1>4, <1>5, <1>6, <1>7, <1>8 DEF Next, Caller

(* Where the pushed blocks are.                                            *)
InHand == IF hand.step = "built" THEN Range(hand.batch.blocks) ELSE {}
Everywhere == hist.submitted \cup hist.skipped \cup Range(buffer.pending)
                  \cup Range(driver.pending) \cup InHand

Kept == (hist.cut + 1)..made \subseteq Everywhere

(* No stage loses a block as it hands it on.                               *)
LEMMA DropStep ==
    ASSUME Inv, [Next]_vars
    PROVE  Kept'
<1>0. /\ StageTypes /\ Kept /\ hist \in HistType /\ hist.cut \in Nat /\ made \in Nat
      /\ buffer \in BufferType /\ driver \in DriverType /\ hand \in HandType
  BY HistFacts, ConstantTypes DEF Inv, StageTypes, NoBlockDropped, Kept, Everywhere, InHand
<1>1. ASSUME made' = made, hist'.cut = hist.cut, Everywhere \subseteq Everywhere'
      PROVE  Kept'
  <2>1. (hist.cut + 1)..made \subseteq Everywhere
    BY <1>0 DEF Kept
  <2>2. (hist'.cut + 1)..made' \subseteq Everywhere'
    BY <1>1, <2>1
  <2> QED BY <2>2 DEF Kept
<1>2. ASSUME Push PROVE Kept'
  <2>1. made \in 0..Len(Size) /\ made' = made + 1 /\ made + 1 \in Blocks
    BY <1>0, <1>2, ConstantTypes DEF Push, StageTypes, Blocks
  <2>2. buffer'.pending = Append(buffer.pending, made + 1)
    BY <1>0, <1>2 DEF Push, BufferType
  <2>3. Range(buffer'.pending) = Range(buffer.pending) \cup {made + 1}
    BY <1>0, <2>1, <2>2, StageFacts, RangeAppend
  <2>4. hist' = hist /\ driver' = driver /\ hand' = hand
    BY <1>2 DEF Push
  <2>5. Everywhere' = Everywhere \cup {made + 1}
    BY <2>3, <2>4 DEF Everywhere, InHand
  <2>6. (hist'.cut + 1)..made' \subseteq (hist.cut + 1)..made \cup {made + 1}
    BY <1>0, <2>1, <2>4
  <2>7. (hist.cut + 1)..made \subseteq Everywhere
    BY <1>0 DEF Kept
  <2>8. (hist'.cut + 1)..made' \subseteq Everywhere'
    BY <2>4, <2>5, <2>6, <2>7
  <2> QED BY <2>8 DEF Kept
<1>3. ASSUME PushWaits PROVE Kept'
  <2>1. buffer'.pending = buffer.pending
    BY <1>0, <1>3 DEF PushWaits, BufferType
  <2> QED BY <1>1, <1>3, <2>1 DEF PushWaits, Everywhere, InHand
<1>4. ASSUME IntervalPasses PROVE Kept'
  <2>1. driver'.pending = driver.pending
    BY <1>0, <1>4 DEF IntervalPasses, DriverType
  <2> QED BY <1>1, <1>4, <2>1 DEF IntervalPasses, Everywhere, InHand
<1>5. ASSUME Collect PROVE Kept'
  <2>1. driver'.pending = driver.pending \o buffer.pending
    BY <1>0, <1>5 DEF Collect, AddBlocks, DriverType
  <2>2. Range(driver'.pending) = Range(driver.pending) \cup Range(buffer.pending)
    BY <1>0, <2>1, StageFacts, RangeConcat
  <2>3. hist' = hist /\ hand' = hand /\ made' = made
    BY <1>5 DEF Collect
  <2>4. Everywhere \subseteq Everywhere'
    BY <2>2, <2>3 DEF Everywhere, InHand
  <2> QED BY <1>1, <2>3, <2>4
<1>6. ASSUME BuildBatch PROVE Kept'
  <2> DEFINE a == SubSeq(driver.pending, 1, Taken)
             b == SubSeq(driver.pending, Taken + 1, Len(driver.pending))
  <2>1. Range(driver.pending) \subseteq Range(a) \cup Range(b)
    BY <1>0, <1>6, StageFacts, BuildFacts, RangeCut
  <2>2. hand.step = "idle" /\ hand'.step = "built" /\ hand'.batch.blocks = a /\ driver'.pending = b
    BY <1>0, <1>6, BuildFacts DEF Drained
  <2> HIDE DEF a, b
  <2>3. InHand = {} /\ InHand' = Range(a)
    BY <2>2 DEF InHand
  <2>4. hist' = hist /\ buffer' = buffer /\ made' = made
    BY <1>6 DEF BuildBatch
  <2>5. Everywhere \subseteq Everywhere'
    BY <2>1, <2>2, <2>3, <2>4 DEF Everywhere
  <2> QED BY <1>1, <2>4, <2>5
<1>7. ASSUME SkipBatch PROVE Kept'
  <2>1. /\ hist'.skipped = hist.skipped \cup Range(hand.batch.blocks)
        /\ hist'.submitted = hist.submitted /\ hist'.cut = hist.cut
    BY <1>0, <1>7 DEF SkipBatch, HistType
  <2>2. made' = made /\ buffer' = buffer /\ driver' = driver
    BY <1>7 DEF SkipBatch
  <2>3. Everywhere \subseteq Everywhere'
    BY <2>1, <2>2 DEF Everywhere, InHand
  <2> QED BY <1>1, <2>1, <2>2, <2>3
<1>8. ASSUME Submit \/ SubmitUnconfirmed PROVE Kept'
  <2>1. /\ hist'.submitted = hist.submitted \cup Range(hand.batch.blocks)
        /\ hist'.skipped = hist.skipped /\ hist'.cut = hist.cut
    BY <1>0, <1>8 DEF Submit, SubmitUnconfirmed, HistType
  <2>2. made' = made /\ buffer' = buffer /\ driver' = driver
    BY <1>8 DEF Submit, SubmitUnconfirmed
  <2>3. Everywhere \subseteq Everywhere'
    BY <2>1, <2>2 DEF Everywhere, InHand
  <2> QED BY <1>1, <2>1, <2>2, <2>3
<1>9. ASSUME RecordBatchSubmitted PROVE Kept'
  <2>1. /\ hist'.submitted = hist.submitted /\ hist'.skipped = hist.skipped
        /\ hist'.cut = hist.cut
    BY <1>0, <1>9 DEF RecordBatchSubmitted, HistType
  <2>2. made' = made /\ buffer' = buffer /\ driver' = driver /\ hand.step = "submitted"
    BY <1>9 DEF RecordBatchSubmitted
  <2>3. Everywhere \subseteq Everywhere'
    BY <2>1, <2>2 DEF Everywhere, InHand
  <2> QED BY <1>1, <2>1, <2>2, <2>3
<1>10. ASSUME SubmitFails \/ OtherBlock PROVE Kept'
  <2>1. /\ hist'.submitted = hist.submitted /\ hist'.skipped = hist.skipped
        /\ hist'.cut = hist.cut
    BY <1>0, <1>10 DEF SubmitFails, OtherBlock, HistType
  <2>2. made' = made /\ buffer' = buffer /\ driver' = driver /\ hand' = hand
    BY <1>10 DEF SubmitFails, OtherBlock
  <2>3. Everywhere \subseteq Everywhere'
    BY <2>1, <2>2 DEF Everywhere, InHand
  <2> QED BY <1>1, <2>1, <2>2, <2>3
<1>11. ASSUME Crash PROVE Kept'
  <2>1. hist'.cut = made /\ made' = made
    BY <1>0, <1>11 DEF Crash, HistType
  <2>2. (made + 1)..made = {}
    BY <1>0
  <2> QED BY <2>1, <2>2 DEF Kept
<1>12. ASSUME NewContext \/ Source \/ UNCHANGED vars PROVE Kept'
  <2>1. made' = made /\ buffer' = buffer /\ driver' = driver /\ hand' = hand /\ hist' = hist
    BY <1>12 DEF NewContext, Source, NextBatchInMemory, NextBatchAnvil, vars
  <2>2. Everywhere \subseteq Everywhere'
    BY <2>1 DEF Everywhere, InHand
  <2> QED BY <1>1, <2>1, <2>2
<1> QED BY <1>2, <1>3, <1>4, <1>5, <1>6, <1>7, <1>8, <1>9, <1>10, <1>11, <1>12
        DEF Next, Caller

-----------------------------------------------------------------------------
(* A new process has dropped nothing.                                      *)
LEMMA InitInv == Init => Inv
<1> SUFFICES ASSUME Init PROVE Inv
  OBVIOUS
<1>1. StageTypes
  <2>1. 0 \in Numbers /\ made \in 0..Len(Size)
    BY ConstantTypes DEF Init, Numbers
  <2>2. hist \in HistType
    BY DEF Init, HistType
  <2>3. checkpoint \in [mem : Numbers, file : Numbers]
    BY <2>1 DEF Init
  <2> QED BY <2>1, <2>2, <2>3, EmptyTypes DEF Init, StageTypes
<1>2. SinkTypes
  <2>1. l1 \in Seq(Seq(Entry)) /\ Len(l1) = 0
    BY EmptySeq DEF Init
  <2>2. source \in [scanned : 0..Len(l1), number : Nat]
    BY <2>1 DEF Init, NewSource
  <2>3. file \in FileType
    BY EmptySeq DEF Init, FileType
  <2> QED BY <2>1, <2>2, <2>3 DEF SinkTypes
<1>3. CountersAgree
  BY BytesEmpty, ConstantTypes DEF Init, NewBuffer, NewDriver, CountersAgree
<1>4. FileInv
  <2>1. file.data = << >> /\ ~file.torn /\ hist.acked = {}
    BY DEF Init
  <2> QED BY <2>1 DEF FileInv
<1>5. NoBlockDropped
  <2>1. made = 0 /\ hist.cut = 0 /\ hist.skips = 0 /\ (0 + 1)..0 = {}
    BY DEF Init
  <2> QED BY <2>1 DEF NoBlockDropped
<1>6. SkipInv
  BY DEF Init, Idle, NewDriver, SkipInv
<1> QED BY <1>1, <1>2, <1>3, <1>4, <1>5, <1>6 DEF Inv

(* The inductive invariant carries the type invariant of the module.       *)
LEMMA InvTyped == Inv => TypeOK
<1> SUFFICES ASSUME Inv PROVE TypeOK
  OBVIOUS
<1>1. StageTypes /\ SinkTypes
  BY DEF Inv
<1> QED BY <1>1, StageFacts DEF TypeOK, StageTypes, SinkTypes, Numbers

(* The invariant at every step.                                            *)
LEMMA InvStep == Inv /\ [Next]_vars => Inv'
<1> SUFFICES ASSUME Inv, [Next]_vars PROVE Inv'
  OBVIOUS
<1>1. StageTypes' /\ SinkTypes' /\ CountersAgree' /\ FileInv' /\ SkipInv'
  BY StageStep, SinkStep, CountersStep, FileStep, SkipStep
<1>2. Kept'
  BY DropStep
<1>3. hist'.skips > 0 => hist'.crashes > 0
  <2>1. hist'.skips \in Nat /\ hist'.crashes \in Nat
    BY <1>1 DEF StageTypes, HistType
  <2> QED BY <1>1, <2>1 DEF SkipInv
<1>4. NoBlockDropped'
  BY <1>2, <1>3 DEF NoBlockDropped, Kept, Everywhere, InHand
<1> QED BY <1>1, <1>4 DEF Inv

(* The executed block buffer, the batch driver, its checkpoint and the     *)
(* local sink, for every capacity, configuration and sequence of block     *)
(* sizes: no block that was pushed in this process disappears, batches are *)
(* skipped only in a process that found a checkpoint, the semaphore's      *)
(* permits and the driver's running byte count are those of the queues     *)
(* they stand for however pushes, drains and partial batches alternate,    *)
(* and the sink's file lists every batch acknowledged, or is torn by the   *)
(* write of a batch the caller still has to submit.                        *)
THEOREM NothingIsDropped == Spec => []NothingDropped
<1>1. Inv => NothingDropped
  <2> SUFFICES ASSUME Inv PROVE NothingDropped
    OBVIOUS
  <2>1. DOMAIN file.disk = 1..Len(file.disk)
    BY LenProperties DEF Inv, SinkTypes, FileType
  <2>2. FileHolds
    BY <2>1 DEF Inv, FileInv, FileHolds, Listed
  <2> QED BY <2>2, InvTyped DEF Inv, NothingDropped
<1> QED BY <1>1, InvStep, InitInv, PTL DEF Spec

-----------------------------------------------------------------------------
(* The order of the blocks.                                                *)

(* x holds the blocks after a up to b.                                     *)
IsRun(x, a, b) ==
    /\ x \in Seq(Nat) /\ a \in Nat /\ b \in Nat /\ a + Len(x) = b
    /\ \A j \in 1..Len(x) : x[j] = a + j

(* The pieces s[m + 1], ..., s[n] are runs, each from where the one before *)
(* it ends, from a to b.                                                   *)
Chain(s, m, n, a, b) ==
    \E C \in [m..n -> Nat] :
        /\ C[m] = a /\ C[n] = b
        /\ \A k \in (m + 1)..n : IsRun(s[k], C[k - 1], C[k])

Delivery == [number : Nat, sent : Nat, blocks : Seq(Nat)]

(* The modes keep to their own way, every batch of ours has a number from  *)
(* one on, and a block of L1 holds at most one transaction to the inbox.   *)
WayInv ==
    /\ queue \in Seq(Batch) /\ delivered \in Seq(Delivery)
    /\ mode # "in-memory" => queue = << >>
    /\ mode # "anvil" => l1 = << >>
    /\ \A i \in 1..Len(queue) : queue[i].number > 0
    /\ \A k \in 1..Len(l1) : l1[k] = << >> \/ l1[k] = <<l1[k][1]>>
    /\ hand.step = "built" => hand.batch.number > 0 /\ hand.batch.number + 1 = driver.number

PieceDelivered == [i \in DOMAIN delivered |-> Carried(delivered[i].sent, delivered[i].blocks)]
PieceQueued == [i \in DOMAIN queue |-> queue[i].blocks]
PieceOnL1 == [k \in DOMAIN l1 |-> OfTransactions(l1[k])]

(* What was delivered, is queued, is on L1 and is held, with where one     *)
(* ends and the next begins: one run up to the last block made.            *)
FlowAt(a, b, c, d, e, f) ==
    /\ Chain(PieceDelivered, 0, Len(delivered), a, b)
    /\ Chain(PieceQueued, 0, Len(queue), b, c)
    /\ Chain(PieceOnL1, source.scanned, Len(l1), c, d)
    /\ IsRun(Held, d, e) /\ IsRun(driver.pending, e, f) /\ IsRun(buffer.pending, f, made)

FlowInv ==
    hist.skipped = {} /\ hist.repeats = 0 /\ mode \in {"in-memory", "anvil"} =>
        \E a, b, c, d, e, f \in Nat : FlowAt(a, b, c, d, e, f)

(* R counts the blocks of L1 that hold a transaction to the inbox.         *)
IsCount(R) ==
    /\ R \in [0..Len(l1) -> Nat] /\ R[0] = 0
    /\ \A k \in 1..Len(l1) : R[k] = R[k - 1] + (IF l1[k] = << >> THEN 0 ELSE 1)

Shift == hist.repeats + hist.foreign
InBuilding == IF hand.step = "built" THEN 1 ELSE 0

(* The source's number counts them, and so do the batches numbered, the    *)
(* repeats and what was not ours.                                          *)
CountsAt(R) ==
    /\ IsCount(R)
    /\ source.number = R[source.scanned] + 1
    /\ R[Len(l1)] + 1 + InBuilding = driver.number + Shift
    /\ \A k \in 1..Len(l1) : l1[k] # << >> /\ l1[k][1].number > 0 =>
          l1[k][1].number <= R[k] /\ R[k] <= l1[k][1].number + Shift

ShiftInv == hist.skips = 0 /\ mode = "anvil" => \E R : CountsAt(R)

(* All that the order of the blocks needs.                                 *)
OrderInv == WayInv /\ FlowInv /\ ShiftInv /\ NumbersShift

-----------------------------------------------------------------------------
(* Runs.                                                                   *)

(* An empty run ends where it begins.                                      *)
LEMMA RunEmpty ==
    /\ \A a \in Nat : IsRun(<< >>, a, a)
    /\ \A a, b : IsRun(<< >>, a, b) => a = b
<1>1. << >> \in Seq(Nat) /\ Len(<< >>) = 0
  BY EmptySeq
<1>2. ASSUME NEW a \in Nat PROVE IsRun(<< >>, a, a)
  BY <1>1 DEF IsRun
<1>3. ASSUME NEW a, NEW b, IsRun(<< >>, a, b) PROVE a = b
  BY <1>1, <1>3 DEF IsRun
<1> QED BY <1>2, <1>3

(* There is one run between two ends.                                      *)
LEMMA RunUnique ==
    ASSUME NEW x, NEW y, NEW a, NEW b, IsRun(x, a, b), IsRun(y, a, b)
    PROVE  x = y
<1>1. x \in Seq(Nat) /\ y \in Seq(Nat) /\ Len(x) \in Nat /\ Len(y) \in Nat /\ a \in Nat /\ b \in Nat
  BY LenProperties DEF IsRun
<1>2. Len(x) = Len(y)
  BY <1>1 DEF IsRun
<1>3. \A i \in 1..Len(x) : x[i] = y[i]
  BY <1>2 DEF IsRun
<1> QED BY <1>1, <1>2, <1>3, SeqEqual

(* A run that continues another.                                           *)
LEMMA RunConcat ==
    ASSUME NEW x, NEW y, NEW a, NEW b, NEW c, IsRun(x, a, b), IsRun(y, b, c)
    PROVE  IsRun(x \o y, a, c)
<1>1. /\ x \in Seq(Nat) /\ y \in Seq(Nat) /\ Len(x) \in Nat /\ Len(y) \in Nat
      /\ a \in Nat /\ b \in Nat /\ c \in Nat
  BY LenProperties DEF IsRun
<1>2. /\ x \o y \in Seq(Nat) /\ Len(x \o y) = Len(x) + Len(y)
      /\ \A i \in 1..Len(x) : (x \o y)[i] = x[i]
      /\ \A i \in 1..Len(y) : (x \o y)[Len(x) + i] = y[i]
  BY <1>1, ConcatProperties
<1>3. a + Len(x) = b /\ b + Len(y) = c
  BY DEF IsRun
<1>4. ASSUME NEW j \in 1..Len(x \o y) PROVE (x \o y)[j] = a + j
  <2>1. CASE j <= Len(x)
    <3>1. j \in 1..Len(x)
      BY <1>1, <2>1
    <3> QED BY <1>2, <3>1 DEF IsRun
  <2>2. CASE ~(j <= Len(x))
    <3>1. j - Len(x) \in 1..Len(y) /\ Len(x) + (j - Len(x)) = j
      BY <1>1, <1>2, <2>2
    <3>2. (x \o y)[Len(x) + (j - Len(x))] = y[j - Len(x)] /\ y[j - Len(x)] = b + (j - Len(x))
      BY <1>2, <3>1 DEF IsRun
    <3>3. b + (j - Len(x)) = a + j
      BY <1>1, <1>3
    <3> QED BY <3>1, <3>2, <3>3
  <2> QED BY <2>1, <2>2
<1> QED BY <1>1, <1>2, <1>3, <1>4 DEF IsRun

(* A run grows by the next block.                                          *)
LEMMA RunAppend ==
    ASSUME NEW x, NEW a, NEW b, IsRun(x, a, b)
    PROVE  IsRun(Append(x, b + 1), a, b + 1)
<1>1. x \in Seq(Nat) /\ Len(x) \in Nat /\ a \in Nat /\ b \in Nat /\ a + Len(x) = b
  BY LenProperties DEF IsRun
<1>2. /\ Append(x, b + 1) \in Seq(Nat) /\ Len(Append(x, b + 1)) = Len(x) + 1
      /\ \A i \in 1..Len(x) : Append(x, b + 1)[i] = x[i]
      /\ Append(x, b + 1)[Len(x) + 1] = b + 1
  BY <1>1, AppendProperties
<1>3. ASSUME NEW j \in 1..Len(Append(x, b + 1)) PROVE Append(x, b + 1)[j] = a + j
  <2>1. j = Len(x) + 1 \/ j \in 1..Len(x)
    BY <1>1, <1>2
  <2>2. CASE j = Len(x) + 1
    <3>1. b + 1 = a + j
      BY <1>1, <2>2
    <3> QED BY <1>2, <2>2, <3>1
  <2>3. CASE j \in 1..Len(x)
    BY <1>2, <2>3 DEF IsRun
  <2> QED BY <2>1, <2>2, <2>3
<1>4. a + Len(Append(x, b + 1)) = b + 1
  <2> DEFINE k == Len(Append(x, b + 1))
  <2>1. k = Len(x) + 1
    BY <1>2
  <2> HIDE DEF k
  <2>2. a + k = b + 1
    BY <1>1, <2>1
  <2> QED BY <2>2 DEF k
<1> QED BY <1>1, <1>2, <1>3, <1>4 DEF IsRun

(* A run cut in two.                                                       *)
LEMMA RunCut ==
    ASSUME NEW x, NEW a, NEW b, IsRun(x, a, b), NEW n \in 0..Len(x)
    PROVE  /\ IsRun(SubSeq(x, 1, n), a, a + n)
           /\ IsRun(SubSeq(x, n + 1, Len(x)), a + n, b)
<1>1. /\ x \in Seq(Nat) /\ Len(x) \in Nat /\ a \in Nat /\ b \in Nat /\ a + Len(x) = b
      /\ n \in Nat /\ n <= Len(x)
      /\ \A j \in 1..Len(x) : x[j] = a + j
  BY LenProperties DEF IsRun
<1> DEFINE u == SubSeq(x, 1, n)
           v == SubSeq(x, n + 1, Len(x))
<1>2. /\ u \in Seq(Nat) /\ Len(u) = (IF 1 <= n THEN n - 1 + 1 ELSE 0)
      /\ \A i \in 1..(n - 1 + 1) : u[i] = x[1 + i - 1]
  <2>1. \A i \in 1..n : x[i] \in Nat
    BY <1>1
  <2> QED BY <1>1, <2>1, SubSeqProperties
<1>3. /\ v \in Seq(Nat) /\ Len(v) = (IF n + 1 <= Len(x) THEN Len(x) - (n + 1) + 1 ELSE 0)
      /\ \A i \in 1..(Len(x) - (n + 1) + 1) : v[i] = x[(n + 1) + i - 1]
  <2>1. \A i \in (n + 1)..Len(x) : x[i] \in Nat
    BY <1>1
  <2> QED BY <1>1, <2>1, SubSeqProperties
<1> HIDE DEF u, v
<1>4. Len(u) = n /\ Len(v) = Len(x) - n
  BY <1>1, <1>2, <1>3
<1>5. ASSUME NEW j \in 1..n PROVE u[j] = a + j
  <2>1. j \in 1..(n - 1 + 1) /\ 1 + j - 1 = j /\ j \in 1..Len(x)
    BY <1>1
  <2> QED BY <1>1, <1>2, <2>1
<1>6. ASSUME NEW j \in 1..(Len(x) - n) PROVE v[j] = (a + n) + j
  <2>1. j \in 1..(Len(x) - (n + 1) + 1) /\ (n + 1) + j - 1 = n + j /\ n + j \in 1..Len(x)
    BY <1>1
  <2>2. v[j] = x[n + j] /\ x[n + j] = a + (n + j)
    BY <1>1, <1>3, <2>1
  <2> QED BY <1>1, <2>2
<1>7. IsRun(u, a, a + n)
  BY <1>1, <1>2, <1>4, <1>5 DEF IsRun
<1>8. IsRun(v, a + n, b)
  <2>1. a + n \in Nat /\ (a + n) + Len(v) = b
    <3> DEFINE k == Len(x)
               i == Len(v)
    <3>1. k \in Nat /\ n \in Nat /\ a \in Nat /\ a + k = b /\ i = k - n
      BY <1>1, <1>4
    <3> HIDE DEF k, i
    <3>2. a + n \in Nat /\ (a + n) + i = b
      BY <3>1
    <3> QED BY <3>2 DEF i
  <2>2. \A j \in 1..Len(v) : v[j] = (a + n) + j
    BY <1>4, <1>6
  <2> QED BY <1>1, <1>3, <2>1, <2>2 DEF IsRun
<1> QED BY <1>7, <1>8 DEF u, v

(* A run is consecutive.                                                   *)
LEMMA RunSteps ==
    ASSUME NEW x, NEW a, NEW b, IsRun(x, a, b)
    PROVE  \A i \in 1..(Len(x) - 1) : x[i + 1] = x[i] + 1
<1> SUFFICES ASSUME NEW i \in 1..(Len(x) - 1) PROVE x[i + 1] = x[i] + 1
  OBVIOUS
<1>1. Len(x) \in Nat /\ a \in Nat
  BY LenProperties DEF IsRun
<1>2. i \in 1..Len(x) /\ i + 1 \in 1..Len(x)
  BY <1>1
<1>3. x[i] = a + i /\ x[i + 1] = a + (i + 1)
  BY <1>2 DEF IsRun
<1> QED BY <1>1, <1>3

-----------------------------------------------------------------------------
(* Chains.                                                                 *)

(* A chain of no pieces ends where it begins.                              *)
LEMMA ChainNone ==
    ASSUME NEW s, NEW m \in Nat
    PROVE  /\ \A a \in Nat : Chain(s, m, m, a, a)
           /\ \A a, b : Chain(s, m, m, a, b) => a = b /\ a \in Nat
<1>1. ASSUME NEW a \in Nat PROVE Chain(s, m, m, a, a)
  <2> DEFINE C == [k \in m..m |-> a]
  <2>1. C \in [m..m -> Nat] /\ C[m] = a /\ (m + 1)..m = {}
    OBVIOUS
  <2> HIDE DEF C
  <2> QED BY <2>1 DEF Chain
<1>2. ASSUME NEW a, NEW b, Chain(s, m, m, a, b) PROVE a = b /\ a \in Nat
  <2>1. PICK C \in [m..m -> Nat] : C[m] = a /\ C[m] = b
    BY <1>2 DEF Chain
  <2> QED BY <2>1
<1> QED BY <1>1, <1>2

(* A chain grows by a piece that begins where it ends.                     *)
LEMMA ChainExtend ==
    ASSUME NEW s, NEW m \in Nat, NEW n \in Nat, m <= n, NEW a, NEW b, NEW c,
           Chain(s, m, n, a, b), IsRun(s[n + 1], b, c)
    PROVE  Chain(s, m, n + 1, a, c)
<1>1. PICK C \in [m..n -> Nat] :
         /\ C[m] = a /\ C[n] = b
         /\ \A k \in (m + 1)..n : IsRun(s[k], C[k - 1], C[k])
  BY DEF Chain
<1>2. c \in Nat
  BY DEF IsRun
<1> DEFINE E == [k \in m..(n + 1) |-> IF k = n + 1 THEN c ELSE C[k]]
<1>3. E \in [m..(n + 1) -> Nat]
  <2>1. \A k \in m..(n + 1) : k # n + 1 => k \in m..n
    OBVIOUS
  <2> QED BY <1>2, <2>1
<1>4. \A k \in m..n : E[k] = C[k]
  OBVIOUS
<1>5. E[n + 1] = c
  OBVIOUS
<1> HIDE DEF E
<1>6. E[m] = a /\ E[n] = b
  BY <1>1, <1>4
<1>7. ASSUME NEW k \in (m + 1)..(n + 1) PROVE IsRun(s[k], E[k - 1], E[k])
  <2>1. CASE k = n + 1
    <3>1. k - 1 = n
      BY <2>1
    <3> QED BY <1>5, <1>6, <2>1, <3>1
  <2>2. CASE k # n + 1
    <3>1. k \in (m + 1)..n /\ k \in m..n /\ k - 1 \in m..n
      BY <2>2
    <3> QED BY <1>1, <1>4, <3>1
  <2> QED BY <2>1, <2>2
<1> QED BY <1>3, <1>5, <1>6, <1>7 DEF Chain

(* The first piece of a chain.                                             *)
LEMMA ChainFirst ==
    ASSUME NEW s, NEW m \in Nat, NEW n \in Nat, m < n, NEW a, NEW b, Chain(s, m, n, a, b)
    PROVE  \E c \in Nat : IsRun(s[m + 1], a, c) /\ Chain(s, m + 1, n, c, b)
<1>1. PICK C \in [m..n -> Nat] :
         /\ C[m] = a /\ C[n] = b
         /\ \A k \in (m + 1)..n : IsRun(s[k], C[k - 1], C[k])
  BY DEF Chain
<1> DEFINE E == [k \in (m + 1)..n |-> C[k]]
<1>2. /\ m + 1 \in (m + 1)..n /\ (m + 1) - 1 = m /\ m + 1 \in m..n
      /\ n \in (m + 1)..n /\ \A k \in (m + 1)..n : k \in m..n
  OBVIOUS
<1>3. E \in [(m + 1)..n -> Nat] /\ E[n] = b /\ E[m + 1] = C[m + 1]
  BY <1>1, <1>2
<1>4. \A k \in (m + 1)..n : E[k] = C[k]
  OBVIOUS
<1> HIDE DEF E
<1>5. IsRun(s[m + 1], a, C[m + 1]) /\ C[m + 1] \in Nat
  BY <1>1, <1>2
<1>6. ASSUME NEW k \in ((m + 1) + 1)..n PROVE IsRun(s[k], E[k - 1], E[k])
  <2>1. k \in (m + 1)..n /\ k - 1 \in (m + 1)..n
    OBVIOUS
  <2> QED BY <1>1, <1>4, <2>1
<1>7. Chain(s, m + 1, n, C[m + 1], b)
  BY <1>3, <1>6 DEF Chain
<1> QED BY <1>5, <1>7

(* The same pieces are the same chain.                                     *)
LEMMA ChainSame ==
    ASSUME NEW s, NEW t, NEW m \in Nat, NEW n \in Nat, NEW a, NEW b, Chain(s, m, n, a, b),
           \A k \in (m + 1)..n : t[k] = s[k]
    PROVE  Chain(t, m, n, a, b)
  BY DEF Chain

(* The same pieces, m places further on.                                   *)
LEMMA ChainShift ==
    ASSUME NEW s, NEW t, NEW m \in Nat, NEW n \in Nat, NEW a, NEW b, Chain(s, m, m + n, a, b),
           \A k \in 1..n : t[k] = s[m + k]
    PROVE  Chain(t, 0, n, a, b)
<1>1. PICK C \in [m..(m + n) -> Nat] :
         /\ C[m] = a /\ C[m + n] = b
         /\ \A k \in (m + 1)..(m + n) : IsRun(s[k], C[k - 1], C[k])
  BY DEF Chain
<1> DEFINE E == [k \in 0..n |-> C[m + k]]
<1>2. \A k \in 0..n : m + k \in m..(m + n)
  OBVIOUS
<1>3. E \in [0..n -> Nat] /\ E[0] = a /\ E[n] = b
  BY <1>1, <1>2
<1>4. \A k \in 0..n : E[k] = C[m + k]
  OBVIOUS
<1> HIDE DEF E
<1>5. ASSUME NEW k \in (0 + 1)..n PROVE IsRun(t[k], E[k - 1], E[k])
  <2>1. /\ k \in 0..n /\ k - 1 \in 0..n /\ k \in 1..n
        /\ m + k \in (m + 1)..(m + n) /\ (m + k) - 1 = m + (k - 1)
    OBVIOUS
  <2>2. IsRun(s[m + k], C[m + (k - 1)], C[m + k])
    BY <1>1, <2>1
  <2> QED BY <1>4, <2>1, <2>2
<1> QED BY <1>3, <1>5 DEF Chain

(* Empty pieces at the beginning can be passed over.                       *)
LEMMA ChainSkip ==
    ASSUME NEW s, NEW m \in Nat, NEW n \in Nat, NEW p \in m..n, NEW a, NEW b, Chain(s, m, n, a, b),
           \A k \in (m + 1)..p : s[k] = << >>
    PROVE  Chain(s, p, n, a, b)
<1> DEFINE S == {i \in Nat : m + i <= p => Chain(s, m + i, n, a, b)}
<1>1. 0 \in S
  <2>1. m + 0 = m
    OBVIOUS
  <2> QED BY <2>1
<1>2. ASSUME NEW i \in Nat, i \in S PROVE i + 1 \in S
  <2> SUFFICES ASSUME m + (i + 1) <= p PROVE Chain(s, m + (i + 1), n, a, b)
    OBVIOUS
  <2>1. m + i <= p /\ m + i < n /\ m + i \in Nat /\ (m + i) + 1 = m + (i + 1) /\ m + (i + 1) \in (m + 1)..p
    OBVIOUS
  <2>2. Chain(s, m + i, n, a, b)
    BY <1>2, <2>1
  <2>3. \E c \in Nat : IsRun(s[(m + i) + 1], a, c) /\ Chain(s, (m + i) + 1, n, c, b)
    BY <2>1, <2>2, ChainFirst
  <2>4. PICK c \in Nat : IsRun(<< >>, a, c) /\ Chain(s, m + (i + 1), n, c, b)
    BY <2>1, <2>3
  <2> QED BY <2>4, RunEmpty
<1> HIDE DEF S
<1>3. Nat \subseteq S
  BY <1>1, <1>2, SetInduction
<1>4. p - m \in Nat /\ m + (p - m) = p
  OBVIOUS
<1>5. p - m \in S
  BY <1>3, <1>4
<1> QED BY <1>4, <1>5 DEF S

-----------------------------------------------------------------------------
(* Chains in one sequence.                                                 *)

(* The pieces of a chain in one sequence are one run.                      *)
LEMMA ChainFlat ==
    ASSUME NEW s, NEW n \in Nat, Len(s) = n, n = 0 => s = << >>,
           NEW a, NEW b, Chain(s, 0, n, a, b)
    PROVE  IsRun(FlattenSeq(s), a, b)
<1>1. PICK C \in [0..n -> Nat] :
         /\ C[0] = a /\ C[n] = b
         /\ \A k \in (0 + 1)..n : IsRun(s[k], C[k - 1], C[k])
  BY DEF Chain
<1>2. CASE n = 0
  <2>1. FlattenSeq(s) = << >>
    BY <1>2 DEF FlattenSeq
  <2>2. a \in Nat /\ a = b
    BY <1>1, <1>2
  <2> QED BY <2>1, <2>2, RunEmpty
<1>3. CASE n # 0
  <2> DEFINE flatten[i \in 1..Len(s)] == IF i = 1 THEN s[i] ELSE flatten[i - 1] \o s[i]
             Has(i) == \E x : IsRun(x, a, C[i])
             S == {i \in Nat : i + 1 <= n => Has(i + 1)}
             f == [i \in 1..n |-> CHOOSE x : IsRun(x, a, C[i])]
  <2>1. FlattenSeq(s) = flatten[Len(s)]
    BY <1>3 DEF FlattenSeq
  <2>2. IsRun(s[1], a, C[1])
    <3>1. 1 \in (0 + 1)..n /\ 1 - 1 = 0
      BY <1>3
    <3> QED BY <1>1, <3>1
  <2>3. ASSUME NEW i \in 1..n, i # 1 PROVE IsRun(s[i], C[i - 1], C[i]) /\ i - 1 \in 1..n
    BY <1>1, <2>3
  <2>4. \A i \in 1..n : Has(i)
    <3>1. 0 \in S
      BY <2>2
    <3>2. ASSUME NEW i \in Nat, i \in S PROVE i + 1 \in S
      <4> SUFFICES ASSUME (i + 1) + 1 <= n PROVE Has((i + 1) + 1)
        OBVIOUS
      <4>1. /\ i + 1 <= n /\ (i + 1) + 1 \in 1..n /\ (i + 1) + 1 # 1
            /\ ((i + 1) + 1) - 1 = i + 1
        OBVIOUS
      <4>2. PICK x : IsRun(x, a, C[i + 1])
        BY <3>2, <4>1
      <4>3. IsRun(s[(i + 1) + 1], C[i + 1], C[(i + 1) + 1])
        BY <2>3, <4>1
      <4>4. IsRun(x \o s[(i + 1) + 1], a, C[(i + 1) + 1])
        BY <4>2, <4>3, RunConcat
      <4> QED BY <4>4
    <3> HIDE DEF S
    <3>3. Nat \subseteq S
      BY <3>1, <3>2, SetInduction
    <3>4. ASSUME NEW i \in 1..n PROVE Has(i)
      <4>1. i - 1 \in Nat /\ (i - 1) + 1 = i /\ i <= n
        OBVIOUS
      <4>2. i - 1 \in S
        BY <3>3, <4>1
      <4> HIDE DEF Has
      <4> QED BY <4>1, <4>2 DEF S
    <3> QED BY <3>4
  <2>5. ASSUME NEW i \in 1..n PROVE IsRun(f[i], a, C[i])
    <3>1. Has(i)
      BY <2>4
    <3>2. IsRun(CHOOSE x : IsRun(x, a, C[i]), a, C[i])
      BY <3>1, Zenon
    <3> QED BY <3>2
  <2>6. f = [i \in 1..n |-> f[i]]
    OBVIOUS
  <2> HIDE DEF f
  <2>7. ASSUME NEW i \in 1..n
        PROVE  f[i] = IF i = 1 THEN s[i] ELSE f[i - 1] \o s[i]
    <3>1. CASE i = 1
      <4>1. f[i] = s[i]
        BY <2>2, <2>5, <3>1, RunUnique
      <4> QED BY <3>1, <4>1
    <3>2. CASE i # 1
      <4>1. IsRun(s[i], C[i - 1], C[i]) /\ IsRun(f[i - 1], a, C[i - 1])
        BY <2>3, <2>5, <3>2
      <4>2. IsRun(f[i - 1] \o s[i], a, C[i])
        BY <4>1, RunConcat
      <4>3. f[i] = f[i - 1] \o s[i]
        BY <2>5, <4>2, RunUnique
      <4> QED BY <3>2, <4>3
    <3> QED BY <3>1, <3>2
  <2>8. f = [i \in 1..Len(s) |-> IF i = 1 THEN s[i] ELSE f[i - 1] \o s[i]]
    BY <2>6, <2>7
  <2>9. \E h : h = [i \in 1..Len(s) |-> IF i = 1 THEN s[i] ELSE h[i - 1] \o s[i]]
    BY <2>8, Zenon
  <2>10. flatten = [i \in 1..Len(s) |-> IF i = 1 THEN s[i] ELSE flatten[i - 1] \o s[i]]
    BY <2>9, Zenon
  <2> HIDE DEF flatten
  <2>11. ASSUME NEW i \in 1..n
         PROVE  flatten[i] = IF i = 1 THEN s[i] ELSE flatten[i - 1] \o s[i]
    BY <2>10, Zenon
  <2> DEFINE Good(i) == IsRun(flatten[i], a, C[i])
             T == {i \in Nat : i + 1 <= n => Good(i + 1)}
  <2>12. 0 \in T
    <3>1. 1 \in 1..n /\ 0 + 1 = 1
      BY <1>3
    <3>2. flatten[1] = s[1]
      BY <2>11, <3>1
    <3> QED BY <2>2, <3>1, <3>2
  <2>13. ASSUME NEW i \in Nat, i \in T PROVE i + 1 \in T
    <3> SUFFICES ASSUME (i + 1) + 1 <= n PROVE Good((i + 1) + 1)
      OBVIOUS
    <3>1. /\ i + 1 <= n /\ (i + 1) + 1 \in 1..n /\ (i + 1) + 1 # 1
          /\ ((i + 1) + 1) - 1 = i + 1
      OBVIOUS
    <3>2. IsRun(flatten[i + 1], a, C[i + 1])
      BY <2>13, <3>1
    <3>3. IsRun(s[(i + 1) + 1], C[i + 1], C[(i + 1) + 1])
      BY <2>3, <3>1
    <3>4. flatten[(i + 1) + 1] = flatten[i + 1] \o s[(i + 1) + 1]
      BY <2>11, <3>1
    <3>5. IsRun(flatten[i + 1] \o s[(i + 1) + 1], a, C[(i + 1) + 1])
      BY <3>2, <3>3, RunConcat
    <3> QED BY <3>4, <3>5
  <2>14. Nat \subseteq T
    <3> HIDE DEF T
    <3> QED BY <2>12, <2>13, SetInduction
  <2>15. Good(n)
    <3> HIDE DEF Good
    <3>1. n - 1 \in Nat /\ (n - 1) + 1 = n
      BY <1>3
    <3>2. n - 1 \in T
      BY <2>14, <3>1
    <3> QED BY <3>1, <3>2
  <2> QED BY <1>1, <2>1, <2>15
<1> QED BY <1>2, <1>3

(* The blocks of a block of L1 with at most one transaction.               *)
LEMMA OneTransaction ==
    /\ OfTransactions(<< >>) = << >>
    /\ \A e : OfTransactions(<<e>>) = Carried(e.number, e.blocks)
<1>1. OfTransactions(<< >>) = << >>
  <2> DEFINE p == [i \in DOMAIN << >> |-> Carried(<< >>[i].number, << >>[i].blocks)]
  <2>1. p = << >> /\ Len(p) = 0
    OBVIOUS
  <2> HIDE DEF p
  <2>2. FlattenSeq(p) = << >>
    BY <2>1 DEF FlattenSeq
  <2> QED BY <2>2 DEF OfTransactions, p
<1>2. ASSUME NEW e PROVE OfTransactions(<<e>>) = Carried(e.number, e.blocks)
  <2> DEFINE c == Carried(e.number, e.blocks)
             p == [i \in DOMAIN <<e>> |-> Carried(<<e>>[i].number, <<e>>[i].blocks)]
  <2>1. p = <<c>> /\ Len(p) = 1 /\ p[1] = c
    <3> HIDE DEF c
    <3>1. DOMAIN <<e>> = 1..1 /\ <<e>>[1] = e
      OBVIOUS
    <3>2. p[1] = c /\ DOMAIN p = 1..1
      BY <3>1 DEF c
    <3>3. p = [i \in 1..1 |-> c]
      BY <3>1 DEF c
    <3>4. <<c>> = [i \in 1..1 |-> c] /\ Len(<<c>>) = 1
      OBVIOUS
    <3> QED BY <3>2, <3>3, <3>4
  <2> HIDE DEF p, c
  <2> DEFINE flatten[i \in 1..Len(p)] == IF i = 1 THEN p[i] ELSE flatten[i - 1] \o p[i]
  <2>2. OfTransactions(<<e>>) = flatten[Len(p)]
    BY <2>1 DEF OfTransactions, FlattenSeq, p
  <2>3. \E h : h = [i \in 1..Len(p) |-> IF i = 1 THEN p[i] ELSE h[i - 1] \o p[i]]
    <3> DEFINE g == [i \in 1..1 |-> c]
    <3>1. g = [i \in 1..Len(p) |-> IF i = 1 THEN p[i] ELSE g[i - 1] \o p[i]]
      BY <2>1
    <3> QED BY <3>1, Zenon
  <2>4. flatten = [i \in 1..Len(p) |-> IF i = 1 THEN p[i] ELSE flatten[i - 1] \o p[i]]
    BY <2>3, Zenon
  <2> HIDE DEF flatten
  <2>5. flatten[1] = c
    BY <2>1, <2>4
  <2> QED BY <2>1, <2>2, <2>5 DEF c
<1> QED BY <1>1, <1>2

-----------------------------------------------------------------------------
(* The ways of the modes.                                                  *)

(* A chain of pieces that is appended to.                                  *)
LEMMA ChainAppend ==
    ASSUME NEW s, NEW t, NEW m \in Nat, NEW n \in Nat, m <= n, NEW a, NEW b, NEW c,
           Chain(s, m, n, a, b), \A k \in (m + 1)..n : t[k] = s[k], IsRun(t[n + 1], b, c)
    PROVE  Chain(t, m, n + 1, a, c)
<1>1. Chain(t, m, n, a, b)
  BY ChainSame
<1> QED BY <1>1, ChainExtend

(* The sinks, one fact each.                                               *)
LEMMA WayFacts ==
    ASSUME SinkTypes, WayInv
    PROVE  /\ Len(queue) \in Nat /\ DOMAIN queue = 1..Len(queue)
           /\ Len(delivered) \in Nat /\ DOMAIN delivered = 1..Len(delivered)
           /\ Len(l1) \in Nat /\ DOMAIN l1 = 1..Len(l1)
           /\ source.scanned \in 0..Len(l1) /\ source.number \in Nat
           /\ \A i \in 1..Len(queue) : queue[i] \in Batch
           /\ \A i \in 1..Len(delivered) :
                 delivered[i].number \in Nat /\ delivered[i].sent \in Nat
<1>1. queue \in Seq(Batch) /\ delivered \in Seq(Delivery) /\ l1 \in Seq(Seq(Entry))
  BY DEF WayInv, SinkTypes
<1>2. source.scanned \in 0..Len(l1) /\ source.number \in Nat
  BY DEF SinkTypes
<1>3. /\ Len(queue) \in Nat /\ DOMAIN queue = 1..Len(queue)
      /\ Len(delivered) \in Nat /\ DOMAIN delivered = 1..Len(delivered)
      /\ Len(l1) \in Nat /\ DOMAIN l1 = 1..Len(l1)
  BY <1>1, LenProperties
<1>4. \A i \in 1..Len(queue) : queue[i] \in Batch
  BY <1>1, ElementOfSeq
<1>5. \A i \in 1..Len(delivered) : delivered[i] \in Delivery
  BY <1>1, ElementOfSeq
<1>6. \A i \in 1..Len(delivered) :
                 delivered[i].number \in Nat /\ delivered[i].sent \in Nat
  BY <1>5 DEF Delivery
<1> QED BY <1>2, <1>3, <1>4, <1>6

(* A block of L1 that holds a transaction, and what it carries.            *)
LEMMA L1Facts ==
    ASSUME SinkTypes, WayInv, NEW k \in 1..Len(l1)
    PROVE  /\ l1[k] = << >> => PieceOnL1[k] = << >>
           /\ l1[k] # << >> => /\ l1[k][1].number \in Nat /\ l1[k][1].blocks \in Seq(Nat)
                               /\ PieceOnL1[k] = Carried(l1[k][1].number, l1[k][1].blocks)
<1>1. l1[k] \in Seq(Entry) /\ k \in DOMAIN l1
  BY WayFacts, ElementOfSeq DEF SinkTypes
<1>2. PieceOnL1[k] = OfTransactions(l1[k])
  BY <1>1 DEF PieceOnL1
<1>3. CASE l1[k] = << >>
  BY <1>2, <1>3, OneTransaction
<1>4. CASE l1[k] # << >>
  <2> DEFINE x == l1[k]
             e == x[1]
  <2>1. x \in Seq(Entry) /\ x # << >>
    BY <1>1, <1>4
  <2>2. x = <<e>>
    BY <1>4 DEF WayInv
  <2>3. e \in Entry
    <3> HIDE DEF x, Entry
    <3>1. Len(x) \in Nat /\ Len(x) # 0
      BY <2>1, EmptySeq, LenProperties
    <3>2. 1 \in 1..Len(x)
      BY <3>1
    <3> QED BY <2>1, <3>2, ElementOfSeq
  <2>4. e.number \in Nat /\ e.blocks \in Seq(Nat)
    BY <2>3 DEF Entry
  <2>5. OfTransactions(<<e>>) = Carried(e.number, e.blocks)
    BY OneTransaction
  <2> QED BY <1>2, <1>4, <2>2, <2>4, <2>5
<1> QED BY <1>3, <1>4

(* Blocks are numbers.                                                     *)
LEMMA BlocksAreNumbers == Seq(Blocks) \subseteq Seq(Nat)
  BY SeqDef, ConstantTypes DEF Blocks

(* A batch the caller hands on has a number, and L1 takes one a block.     *)
LEMMA DepositWay ==
    ASSUME Inv, WayInv, NEW w, Deposit(hand.batch, w), hand.step = "built", mode' = mode
    PROVE  /\ queue' \in Seq(Batch)
           /\ mode' # "in-memory" => queue' = << >>
           /\ mode' # "anvil" => l1' = << >>
           /\ \A i \in 1..Len(queue') : queue'[i].number > 0
           /\ \A k \in 1..Len(l1') : l1'[k] = << >> \/ l1'[k] = <<l1'[k][1]>>
<1> DEFINE x == hand.batch
<1>0. /\ StageTypes /\ SinkTypes /\ x \in Batch /\ x.number > 0
      /\ queue \in Seq(Batch) /\ l1 \in Seq(Seq(Entry)) /\ Len(queue) \in Nat /\ Len(l1) \in Nat
  BY StageFacts, WayFacts DEF Inv, WayInv, SinkTypes
<1>1. /\ queue' = IF mode = "in-memory" THEN Append(queue, x) ELSE queue
      /\ l1' = IF mode = "anvil" THEN Append(l1, <<x>>) ELSE l1
  BY DEF Deposit
<1> HIDE DEF x
<1> DEFINE q == Append(queue, x)
           c == Append(l1, <<x>>)
<1>2. /\ q \in Seq(Batch) /\ Len(q) = Len(queue) + 1 /\ q[Len(queue) + 1] = x
      /\ \A i \in 1..Len(queue) : q[i] = queue[i]
  BY <1>0, AppendProperties
<1>3. /\ Len(c) = Len(l1) + 1 /\ c[Len(l1) + 1] = <<x>>
      /\ \A i \in 1..Len(l1) : c[i] = l1[i]
  <2>1. x \in Entry
    <3>1. x.number \in Nat /\ x.blocks \in Seq(Nat) /\ x = [number |-> x.number, blocks |-> x.blocks]
      BY <1>0, BlocksAreNumbers, ConstantTypes DEF Batch, Numbers
    <3> QED BY <3>1 DEF Entry
  <2>2. <<x>> \in Seq(Entry)
    <3> HIDE DEF Entry
    <3> QED BY <2>1
  <2> QED BY <1>0, <2>2, AppendProperties
<1> HIDE DEF q, c
<1>4. \A i \in 1..Len(q) : q[i].number > 0
  <2> TAKE i \in 1..Len(q)
  <2>1. i \in 1..Len(queue) \/ i = Len(queue) + 1
    BY <1>0, <1>2
  <2> QED BY <1>0, <1>2, <2>1 DEF WayInv
<1>5. \A i \in 1..Len(c) : c[i] = << >> \/ c[i] = <<c[i][1]>>
  <2> TAKE i \in 1..Len(c)
  <2>1. i \in 1..Len(l1) \/ i = Len(l1) + 1
    BY <1>0, <1>3
  <2>2. CASE i \in 1..Len(l1)
    BY <1>3, <2>2 DEF WayInv
  <2>3. CASE i = Len(l1) + 1
    <3>1. c[i] = <<x>> /\ <<x>>[1] = x
      BY <1>3, <2>3
    <3> QED BY <3>1
  <2> QED BY <2>1, <2>2, <2>3
<1>6. CASE mode = "in-memory"
  <2>1. queue' = q /\ l1' = l1 /\ mode # "anvil"
    BY <1>1, <1>6 DEF q
  <2> QED BY <1>2, <1>4, <1>6, <2>1 DEF WayInv
<1>7. CASE mode = "anvil"
  <2>1. queue' = queue /\ l1' = c /\ mode # "in-memory"
    BY <1>1, <1>7 DEF c
  <2> QED BY <1>5, <1>7, <2>1 DEF WayInv
<1>8. CASE mode # "in-memory" /\ mode # "anvil"
  <2>1. queue' = queue /\ l1' = l1
    BY <1>1, <1>8
  <2> QED BY <1>8, <2>1 DEF WayInv
<1> QED BY <1>6, <1>7, <1>8

(* The ways are kept.                                                      *)
LEMMA WayStep ==
    ASSUME Inv, WayInv, [Next]_vars
    PROVE  WayInv'
<1>0. StageTypes /\ SinkTypes
  BY DEF Inv
<1>1. ASSUME UNCHANGED <<mode, queue, l1, delivered>>,
             hand'.step = "built" => hand'.batch.number > 0 /\ hand'.batch.number + 1 = driver'.number
      PROVE  WayInv'
  BY <1>1 DEF WayInv
<1>2. ASSUME NewContext \/ Push \/ PushWaits \/ IntervalPasses \/ Collect \/ SubmitFails
             \/ UNCHANGED vars
      PROVE  WayInv'
  <2>1. UNCHANGED <<mode, queue, l1, delivered, hand>>
    BY <1>2 DEF NewContext, Push, PushWaits, IntervalPasses, Collect, SubmitFails, vars, sinks
  <2>2. driver'.number = driver.number
    BY <1>0, <1>2 DEF NewContext, Push, PushWaits, IntervalPasses, Collect, AddBlocks,
       SubmitFails, vars, StageTypes, DriverType
  <2> QED BY <1>1, <2>1, <2>2 DEF WayInv
<1>3. ASSUME BuildBatch PROVE WayInv'
  <2>1. hand'.batch.number = driver.number /\ driver'.number = driver.number + 1
    BY <1>0, <1>3, BuildFacts DEF Drained
  <2>2. driver.number > 0
    BY <1>0, <1>3, BuildFacts, ConstantTypes
  <2> QED BY <1>1, <1>3, <2>1, <2>2 DEF BuildBatch, sinks
<1>4. ASSUME SkipBatch \/ RecordBatchSubmitted PROVE WayInv'
  <2>1. hand'.step = "idle" /\ UNCHANGED <<mode, queue, l1, delivered>>
    BY <1>4 DEF SkipBatch, RecordBatchSubmitted, sinks, Idle
  <2> QED BY <1>1, <2>1
<1>5. ASSUME Submit PROVE WayInv'
  <2>1. Deposit(hand.batch, "all") /\ hand.step = "built" /\ UNCHANGED <<mode, delivered>>
    BY <1>5 DEF Submit, ReadyToSubmit
  <2>2. hand'.step = "submitted"
    BY <1>0, <1>5 DEF Submit, StageTypes, HandType
  <2> QED BY <2>1, <2>2, DepositWay DEF WayInv
<1>6. ASSUME SubmitUnconfirmed PROVE WayInv'
  <2>1. hand.step = "built" /\ UNCHANGED <<mode, delivered, hand, driver>>
    BY <1>6 DEF SubmitUnconfirmed, ReadyToSubmit
  <2>2. PICK w \in {"none", "part"} : Deposit(hand.batch, w)
    BY <1>6 DEF SubmitUnconfirmed
  <2> QED BY <2>1, <2>2, DepositWay DEF WayInv
<1>7. ASSUME OtherBlock PROVE WayInv'
  <2>1. PICK txs \in {<<>>, <<Foreign>>} : l1' = Append(l1, txs)
    BY <1>7 DEF OtherBlock
  <2>2. l1 \in Seq(Seq(Entry)) /\ Len(l1) \in Nat
    BY <1>0, WayFacts DEF SinkTypes
  <2>3. txs = << >> \/ txs = <<txs[1]>>
    OBVIOUS
  <2>4. /\ Len(l1') = Len(l1) + 1 /\ l1'[Len(l1) + 1] = txs
        /\ \A i \in 1..Len(l1) : l1'[i] = l1[i]
    <3> DEFINE T == Seq(Entry) \cup {txs}
    <3>1. l1 \in Seq(T)
      BY <2>2, SeqDef
    <3> QED BY <2>1, <3>1, AppendProperties
  <2>5. \A k \in 1..Len(l1') : l1'[k] = << >> \/ l1'[k] = <<l1'[k][1]>>
    <3> TAKE k \in 1..Len(l1')
    <3>1. k \in 1..Len(l1) \/ k = Len(l1) + 1
      BY <2>2, <2>4
    <3>2. CASE k \in 1..Len(l1)
      BY <2>4, <3>2 DEF WayInv
    <3>3. CASE k = Len(l1) + 1
      BY <2>3, <2>4, <3>3
    <3> QED BY <3>1, <3>2, <3>3
  <2>6. mode = "anvil" /\ UNCHANGED <<mode, queue, delivered, hand, driver>>
    BY <1>7 DEF OtherBlock
  <2> QED BY <2>5, <2>6 DEF WayInv
<1>8. ASSUME NextBatchInMemory PROVE WayInv'
  <2>1. /\ queue \in Seq(Batch) /\ queue # << >> /\ Len(queue) \in Nat
        /\ \A i \in 1..Len(queue) : queue[i].number > 0
    BY <1>0, <1>8, WayFacts DEF NextBatchInMemory, WayInv
  <2>2. /\ queue' \in Seq(Batch) /\ Head(queue) \in Batch
        /\ Len(queue') = Len(queue) - 1
        /\ \A i \in 1..Len(queue') : queue'[i] = queue[i + 1]
    BY <1>8, <2>1, HeadTailProperties DEF NextBatchInMemory
  <2>3. \A i \in 1..Len(queue') : queue'[i].number > 0
    <3> TAKE i \in 1..Len(queue')
    <3>1. i + 1 \in 1..Len(queue)
      BY <2>1, <2>2
    <3> QED BY <2>1, <2>2, <3>1
  <2>4. delivered' \in Seq(Delivery)
    <3> DEFINE x == Head(queue)
               r == [number |-> x.number, sent |-> x.number, blocks |-> x.blocks]
    <3>1. x.number \in Nat /\ x.blocks \in Seq(Nat)
      BY <2>2, ConstantTypes, BlocksAreNumbers DEF Batch, Numbers
    <3>2. r \in Delivery
      BY <3>1 DEF Delivery
    <3>3. delivered' = Append(delivered, r)
      BY <1>8 DEF NextBatchInMemory
    <3> HIDE DEF r
    <3> QED BY <3>2, <3>3, AppendProperties DEF WayInv
  <2>5. mode = "in-memory" /\ UNCHANGED <<mode, l1, hand, driver>>
    BY <1>8 DEF NextBatchInMemory
  <2> QED BY <2>2, <2>3, <2>4, <2>5 DEF WayInv
<1>9. ASSUME NextBatchAnvil PROVE WayInv'
  <2>1. UNCHANGED <<mode, queue, l1, hand, driver>>
    BY <1>9 DEF NextBatchAnvil, sinks
  <2>2. \/ delivered' = delivered
        \/ \E b \in 1..Len(l1) :
              /\ l1[b] # << >>
              /\ delivered' = Append(delivered,
                    [number |-> source.number, sent |-> l1[b][1].number, blocks |-> l1[b][1].blocks])
    <3>1. \A b \in source.scanned + 1 .. Len(l1) : b \in 1..Len(l1)
      BY <1>0, WayFacts
    <3> QED BY <1>9, <3>1 DEF NextBatchAnvil
  <2>3. delivered' \in Seq(Delivery)
    <3>1. CASE delivered' = delivered
      BY <3>1 DEF WayInv
    <3>2. ASSUME NEW b \in 1..Len(l1), l1[b] # << >>,
                 delivered' = Append(delivered,
                    [number |-> source.number, sent |-> l1[b][1].number, blocks |-> l1[b][1].blocks])
          PROVE  delivered' \in Seq(Delivery)
      <4> DEFINE r == [number |-> source.number, sent |-> l1[b][1].number, blocks |-> l1[b][1].blocks]
      <4>1. r \in Delivery
        BY <1>0, <3>2, WayFacts, L1Facts DEF Delivery
      <4> HIDE DEF r
      <4> QED BY <3>2, <4>1, AppendProperties DEF WayInv, r
    <3> QED BY <2>2, <3>1, <3>2
  <2> QED BY <2>1, <2>3 DEF WayInv
<1>10. ASSUME Crash PROVE WayInv'
  <2>1. /\ queue' = << >> /\ l1' = << >> /\ delivered' = << >> /\ hand'.step = "idle"
    BY <1>10 DEF Crash, Idle
  <2>2. Len(queue') = 0 /\ Len(l1') = 0 /\ queue' \in Seq(Batch) /\ delivered' \in Seq(Delivery)
    BY <2>1, EmptySeq
  <2>3. 1..Len(queue') = {} /\ 1..Len(l1') = {}
    BY <2>2
  <2> QED BY <2>1, <2>2, <2>3 DEF WayInv
<1> QED BY <1>2, <1>3, <1>4, <1>5, <1>6, <1>7, <1>8, <1>9, <1>10 DEF Next, Caller, Source

-----------------------------------------------------------------------------
(* The flow, step by step.                                                 *)

(* A batch of no blocks.                                                   *)
LEMMA EmptyRange ==
    ASSUME NEW T, NEW s \in Seq(T), Range(s) = {}
    PROVE  s = << >>
<1>1. Len(s) \in Nat /\ DOMAIN s = 1..Len(s)
  BY LenProperties
<1>2. Len(s) = 0
  <2> SUFFICES ASSUME Len(s) # 0 PROVE FALSE
    OBVIOUS
  <2>1. 1 \in DOMAIN s
    BY <1>1
  <2> QED BY <2>1 DEF Range
<1> QED BY <1>2, EmptySeq

(* What the caller hands to the sink follows what went before it.          *)
LEMMA FlowSubmit ==
    ASSUME Inv, WayInv, WayInv', SinkTypes', Submit, mode \in {"in-memory", "anvil"},
           NEW a \in Nat, NEW b \in Nat, NEW c \in Nat, NEW d \in Nat, NEW e \in Nat, NEW f \in Nat,
           FlowAt(a, b, c, d, e, f)
    PROVE  \E g, h \in Nat : FlowAt(a, b, g, h, e, f)'
<1> DEFINE x == hand.batch
<1>0. /\ StageTypes /\ SinkTypes /\ hand.step = "built"
      /\ queue \in Seq(Batch) /\ l1 \in Seq(Seq(Entry)) /\ Len(queue) \in Nat /\ Len(l1) \in Nat
      /\ source.scanned \in 0..Len(l1) /\ DOMAIN queue = 1..Len(queue) /\ DOMAIN l1 = 1..Len(l1)
      /\ x \in Batch /\ x.number > 0
  BY StageFacts, WayFacts DEF Inv, WayInv, SinkTypes, Submit, ReadyToSubmit
<1>1. UNCHANGED <<mode, made, buffer, driver, source, delivered>>
  BY DEF Submit
<1>2. /\ queue' = IF mode = "in-memory" THEN Append(queue, x) ELSE queue
      /\ l1' = IF mode = "anvil" THEN Append(l1, <<x>>) ELSE l1
  BY DEF Submit, Deposit
<1>3. hand'.step = "submitted"
  BY <1>0 DEF Submit, StageTypes, HandType
<1>4. Held = x.blocks /\ Held' = << >>
  BY <1>0, <1>3 DEF Held
<1>5. IsRun(x.blocks, d, e) /\ IsRun(Held', e, e)
  BY <1>4, RunEmpty DEF FlowAt
<1>6. /\ Chain(PieceDelivered', 0, Len(delivered'), a, b)
      /\ IsRun(driver'.pending, e, f) /\ IsRun(buffer'.pending, f, made')
  BY <1>1 DEF FlowAt, PieceDelivered
<1> HIDE DEF x
<1>7. CASE mode = "in-memory"
  <2>1. l1 = << >> /\ l1' = l1 /\ Len(l1) = 0 /\ source.scanned = 0 /\ queue' = Append(queue, x)
    BY <1>0, <1>2, <1>7, EmptySeq DEF WayInv
  <2>2. Chain(PieceOnL1, 0, 0, c, d)
    BY <2>1 DEF FlowAt
  <2>3. c = d
    BY <2>2, ChainNone
  <2>4. /\ Len(queue') = Len(queue) + 1 /\ queue'[Len(queue) + 1] = x
        /\ DOMAIN queue' = 1..(Len(queue) + 1)
        /\ \A i \in 1..Len(queue) : queue'[i] = queue[i]
    <3> HIDE DEF Batch
    <3> QED BY <1>0, <2>1, AppendProperties, LenProperties
  <2> DEFINE n == Len(queue)
             s == PieceQueued
             t == PieceQueued'
  <2>5. \A k \in (0 + 1)..n : t[k] = s[k]
    <3> TAKE k \in (0 + 1)..n
    <3>1. k \in 1..Len(queue) /\ k \in 1..(Len(queue) + 1)
      BY <1>0
    <3> QED BY <1>0, <2>4, <3>1 DEF PieceQueued
  <2>6. t[n + 1] = x.blocks
    <3>1. n + 1 \in 1..(Len(queue) + 1)
      BY <1>0
    <3> QED BY <2>4, <3>1 DEF PieceQueued
  <2>7. Chain(s, 0, n, b, d)
    BY <2>3 DEF FlowAt
  <2> HIDE DEF s, t, n
  <2>8. n \in Nat /\ 0 <= n
    BY <1>0 DEF n
  <2>9. Chain(t, 0, n + 1, b, e)
    BY <1>5, <2>5, <2>6, <2>7, <2>8, ChainAppend
  <2>10. Chain(PieceOnL1', source'.scanned, Len(l1'), e, e)
    BY <1>1, <2>1, ChainNone
  <2>11. Chain(PieceQueued', 0, Len(queue'), b, e)
    BY <2>4, <2>9 DEF t, n
  <2>12. FlowAt(a, b, e, e, e, f)'
    BY <1>5, <1>6, <2>10, <2>11 DEF FlowAt
  <2> QED BY <2>12
<1>8. CASE mode = "anvil"
  <2>1. queue' = queue /\ l1' = Append(l1, <<x>>)
    BY <1>2, <1>8
  <2>2. <<x>> \in Seq(Entry)
    <3>1. x \in Entry
      <4>1. x.number \in Nat /\ x.blocks \in Seq(Nat) /\ x = [number |-> x.number, blocks |-> x.blocks]
        BY <1>0, BlocksAreNumbers, ConstantTypes DEF Batch, Numbers
      <4> QED BY <4>1 DEF Entry
    <3> HIDE DEF Entry
    <3> QED BY <3>1
  <2>3. /\ Len(l1') = Len(l1) + 1 /\ l1'[Len(l1) + 1] = <<x>>
        /\ DOMAIN l1' = 1..(Len(l1) + 1)
        /\ \A i \in 1..Len(l1) : l1'[i] = l1[i]
    <3> HIDE DEF Entry
    <3> QED BY <1>0, <2>1, <2>2, AppendProperties, LenProperties
  <2> DEFINE n == Len(l1)
             s == PieceOnL1
             t == PieceOnL1'
             m == source.scanned
  <2>4. \A k \in (m + 1)..n : t[k] = s[k]
    <3> TAKE k \in (m + 1)..n
    <3>1. k \in 1..Len(l1) /\ k \in 1..(Len(l1) + 1)
      BY <1>0
    <3> QED BY <1>0, <2>3, <3>1 DEF PieceOnL1
  <2>5. t[n + 1] = x.blocks
    <3>1. n + 1 \in 1..(Len(l1) + 1)
      BY <1>0
    <3>2. t[n + 1] = OfTransactions(<<x>>)
      BY <2>3, <3>1 DEF PieceOnL1
    <3> QED BY <1>0, <3>2, OneTransaction DEF Carried
  <2>6. Chain(s, m, n, c, d)
    BY DEF FlowAt
  <2> HIDE DEF s, t, n, m
  <2>7. n \in Nat /\ m \in Nat /\ m <= n
    BY <1>0 DEF n, m
  <2>8. Chain(t, m, n + 1, c, e)
    BY <1>5, <2>4, <2>5, <2>6, <2>7, ChainAppend
  <2>9. Chain(PieceOnL1', source'.scanned, Len(l1'), c, e)
    BY <1>1, <2>3, <2>8 DEF t, n, m
  <2>10. Chain(PieceQueued', 0, Len(queue'), b, c)
    BY <2>1 DEF PieceQueued, FlowAt
  <2>11. FlowAt(a, b, c, e, e, f)'
    BY <1>5, <1>6, <2>9, <2>10 DEF FlowAt
  <2> QED BY <2>11
<1> QED BY <1>7, <1>8

(* A block of L1 without a batch of ours carries nothing.                  *)
LEMMA FlowOther ==
    ASSUME Inv, WayInv, OtherBlock,
           NEW a \in Nat, NEW b \in Nat, NEW c \in Nat, NEW d \in Nat, NEW e \in Nat, NEW f \in Nat,
           FlowAt(a, b, c, d, e, f)
    PROVE  FlowAt(a, b, c, d, e, f)'
<1>0. /\ SinkTypes /\ l1 \in Seq(Seq(Entry)) /\ Len(l1) \in Nat
      /\ source.scanned \in 0..Len(l1) /\ DOMAIN l1 = 1..Len(l1)
  BY WayFacts DEF Inv, SinkTypes
<1>1. UNCHANGED <<made, buffer, driver, hand, queue, source, delivered>>
  BY DEF OtherBlock
<1>2. PICK txs \in {<<>>, <<Foreign>>} : l1' = Append(l1, txs)
  BY DEF OtherBlock
<1>3. OfTransactions(txs) = << >>
  <2>1. OfTransactions(<<Foreign>>) = << >>
    BY OneTransaction DEF Carried, Foreign
  <2> QED BY <2>1, OneTransaction
<1>4. /\ Len(l1') = Len(l1) + 1 /\ l1'[Len(l1) + 1] = txs
      /\ DOMAIN l1' = 1..(Len(l1) + 1)
      /\ \A i \in 1..Len(l1) : l1'[i] = l1[i]
  <2> DEFINE T == Seq(Entry) \cup {txs}
  <2>1. l1 \in Seq(T)
    BY <1>0, SeqDef
  <2> HIDE DEF T
  <2>2. txs \in T
    BY DEF T
  <2> QED BY <1>2, <2>1, <2>2, AppendProperties, LenProperties
<1> DEFINE n == Len(l1)
           s == PieceOnL1
           t == PieceOnL1'
           m == source.scanned
<1>5. \A k \in (m + 1)..n : t[k] = s[k]
  <2> TAKE k \in (m + 1)..n
  <2>1. k \in 1..Len(l1) /\ k \in 1..(Len(l1) + 1)
    BY <1>0
  <2> QED BY <1>0, <1>4, <2>1 DEF PieceOnL1
<1>6. IsRun(t[n + 1], d, d)
  <2>1. n + 1 \in 1..(Len(l1) + 1)
    BY <1>0
  <2>2. t[n + 1] = OfTransactions(txs)
    BY <1>4, <2>1 DEF PieceOnL1
  <2> QED BY <1>3, <2>2, RunEmpty
<1>7. Chain(s, m, n, c, d)
  BY DEF FlowAt
<1> HIDE DEF s, t, n, m
<1>8. n \in Nat /\ m \in Nat /\ m <= n
  BY <1>0 DEF n, m
<1>9. Chain(t, m, n + 1, c, d)
  BY <1>5, <1>6, <1>7, <1>8, ChainAppend
<1>10. Chain(PieceOnL1', source'.scanned, Len(l1'), c, d)
  BY <1>1, <1>4, <1>9 DEF t, n, m
<1> QED BY <1>1, <1>10 DEF FlowAt, PieceDelivered, PieceQueued, Held

(* What the source takes off the queue is what it delivers next.           *)
LEMMA FlowInMemory ==
    ASSUME Inv, WayInv, NextBatchInMemory,
           NEW a \in Nat, NEW b \in Nat, NEW c \in Nat, NEW d \in Nat, NEW e \in Nat, NEW f \in Nat,
           FlowAt(a, b, c, d, e, f)
    PROVE  \E g \in Nat : FlowAt(a, g, c, d, e, f)'
<1> DEFINE x == Head(queue)
           r == [number |-> x.number, sent |-> x.number, blocks |-> x.blocks]
<1>0. /\ SinkTypes /\ queue \in Seq(Batch) /\ queue # << >> /\ delivered \in Seq(Delivery)
      /\ Len(queue) \in Nat /\ DOMAIN queue = 1..Len(queue)
      /\ Len(delivered) \in Nat /\ DOMAIN delivered = 1..Len(delivered)
  BY WayFacts DEF Inv, WayInv, NextBatchInMemory
<1>1. /\ UNCHANGED <<made, buffer, driver, hand, l1, source>>
      /\ queue' = Tail(queue) /\ delivered' = Append(delivered, r)
  BY DEF NextBatchInMemory
<1>2. Len(queue) # 0 /\ x = queue[1]
  BY <1>0, EmptySeq
<1>3. x.number > 0 /\ x.number \in Nat /\ x.blocks \in Seq(Nat)
  <2>1. 1 \in 1..Len(queue)
    BY <1>0, <1>2
  <2>2. queue[1].number > 0 /\ queue[1] \in Batch
    BY <1>0, <2>1, WayFacts DEF WayInv
  <2> QED BY <1>2, <2>2, ConstantTypes, BlocksAreNumbers DEF Batch, Numbers
<1>4. r \in Delivery /\ r.sent = x.number /\ r.blocks = x.blocks
  BY <1>3 DEF Delivery
<1> HIDE DEF x, r
<1>5. /\ Len(delivered') = Len(delivered) + 1 /\ delivered'[Len(delivered) + 1] = r
      /\ DOMAIN delivered' = 1..(Len(delivered) + 1)
      /\ \A i \in 1..Len(delivered) : delivered'[i] = delivered[i]
  <2> HIDE DEF Delivery
  <2> QED BY <1>0, <1>1, <1>4, AppendProperties, LenProperties
<1>6. /\ Len(queue') = Len(queue) - 1 /\ DOMAIN queue' = 1..Len(queue')
      /\ \A i \in 1..Len(queue') : queue'[i] = queue[i + 1]
  <2> HIDE DEF Batch
  <2> QED BY <1>0, <1>1, HeadTailProperties, LenProperties
<1> DEFINE q == Len(queue) - 1
           n == Len(delivered)
           s == PieceQueued
           t == PieceQueued'
           u == PieceDelivered
           v == PieceDelivered'
<1>7. q \in Nat /\ q + 1 = Len(queue) /\ n \in Nat /\ 0 < q + 1 /\ q + 1 \in Nat
  BY <1>0, <1>2
<1>8. Chain(u, 0, n, a, b) /\ Chain(s, 0, q + 1, b, c)
  BY <1>7 DEF FlowAt
<1>9. s[1] = x.blocks
  <2>1. 1 \in 1..Len(queue)
    BY <1>7
  <2> QED BY <1>0, <1>2, <2>1 DEF PieceQueued
<1>10. \A k \in 1..q : t[k] = s[1 + k]
  <2> TAKE k \in 1..q
  <2>1. k \in 1..Len(queue') /\ k + 1 \in 1..Len(queue) /\ 1 + k = k + 1
    BY <1>6, <1>7
  <2> QED BY <1>0, <1>6, <2>1 DEF PieceQueued
<1>11. \A k \in (0 + 1)..n : v[k] = u[k]
  <2> TAKE k \in (0 + 1)..n
  <2>1. k \in 1..Len(delivered) /\ k \in 1..(Len(delivered) + 1)
    BY <1>0
  <2> QED BY <1>0, <1>5, <2>1 DEF PieceDelivered
<1>12. v[n + 1] = x.blocks
  <2>1. n + 1 \in 1..(Len(delivered) + 1)
    BY <1>0
  <2>2. v[n + 1] = Carried(r.sent, r.blocks)
    BY <1>5, <2>1 DEF PieceDelivered
  <2> QED BY <1>3, <1>4, <2>2 DEF Carried
<1> HIDE DEF q, n, s, t, u, v
<1>13. PICK g \in Nat : IsRun(s[0 + 1], b, g) /\ Chain(s, 0 + 1, q + 1, g, c)
  BY <1>7, <1>8, ChainFirst
<1>14. IsRun(x.blocks, b, g) /\ Chain(s, 1, 1 + q, g, c)
  BY <1>7, <1>9, <1>13
<1>15. Chain(t, 0, q, g, c)
  BY <1>7, <1>10, <1>14, ChainShift
<1>16. Chain(v, 0, n + 1, a, g)
  BY <1>7, <1>8, <1>11, <1>12, <1>14, ChainAppend
<1>17. Chain(PieceQueued', 0, Len(queue'), g, c) /\ Chain(PieceDelivered', 0, Len(delivered'), a, g)
  BY <1>5, <1>6, <1>15, <1>16 DEF q, n, t, v
<1>18. FlowAt(a, g, c, d, e, f)'
  BY <1>1, <1>17 DEF FlowAt, PieceOnL1, Held
<1> QED BY <1>18

(* The first transaction to the inbox the source has not seen is what      *)
(* follows what it has delivered.                                          *)
LEMMA FlowAnvil ==
    ASSUME Inv, WayInv, NextBatchAnvil,
           NEW a \in Nat, NEW b \in Nat, NEW c \in Nat, NEW d \in Nat, NEW e \in Nat, NEW f \in Nat,
           FlowAt(a, b, c, d, e, f)
    PROVE  \E g, h \in Nat : FlowAt(a, g, h, d, e, f)'
<1> DEFINE n == Len(l1)
           m == source.scanned
           s == PieceOnL1
<1>0. /\ SinkTypes /\ delivered \in Seq(Delivery) /\ n \in Nat /\ m \in 0..n /\ m < n
      /\ Len(delivered) \in Nat /\ DOMAIN delivered = 1..Len(delivered)
      /\ source \in [scanned : 0..Len(l1), number : Nat] /\ queue = << >> /\ source.number \in Nat
  BY WayFacts DEF Inv, WayInv, SinkTypes, NextBatchAnvil
<1>1. UNCHANGED <<made, buffer, driver, hand, l1, queue>>
  BY DEF NextBatchAnvil, sinks
<1>2. Chain(s, m, n, c, d) /\ Chain(PieceDelivered, 0, Len(delivered), a, b)
  BY DEF FlowAt
<1>3. b = c /\ \A g \in Nat : Chain(PieceQueued', 0, Len(queue'), g, g)
  <2>1. Len(queue) = 0 /\ Len(queue') = 0
    BY <1>0, <1>1, EmptySeq
  <2>2. Chain(PieceQueued, 0, 0, b, c)
    BY <2>1 DEF FlowAt
  <2>3. b = c
    BY <2>2, ChainNone
  <2>4. \A g \in Nat : Chain(PieceQueued', 0, 0, g, g)
    BY ChainNone
  <2> QED BY <2>1, <2>3, <2>4
<1>4. s = PieceOnL1'
  BY <1>1 DEF PieceOnL1
<1>5. \A k \in (m + 1)..n : l1[k] = << >> => s[k] = << >>
  <2> TAKE k \in (m + 1)..n
  <2>1. k \in 1..Len(l1)
    BY <1>0
  <2> QED BY <1>0, <2>1, L1Facts
<1>6. /\ Held' = Held /\ IsRun(Held, d, e) /\ IsRun(driver'.pending, e, f)
      /\ IsRun(buffer'.pending, f, made')
  BY <1>1 DEF FlowAt, Held
<1>7. CASE /\ \A k \in (m + 1)..n : l1[k] = << >>
           /\ source' = [source EXCEPT !.scanned = Len(l1)]
           /\ delivered' = delivered
  <2>1. source'.scanned = n
    BY <1>0, <1>7
  <2>2. n \in m..n /\ m \in Nat
    BY <1>0
  <2>3. Chain(s, n, n, c, d)
    <3> HIDE DEF s, n, m
    <3> QED BY <1>0, <1>2, <1>5, <1>7, <2>2, ChainSkip
  <2>4. Chain(PieceOnL1', source'.scanned, Len(l1'), c, d)
    BY <1>1, <1>4, <2>1, <2>3
  <2>5. Chain(PieceDelivered', 0, Len(delivered'), a, b)
    BY <1>2, <1>7 DEF PieceDelivered
  <2>6. FlowAt(a, b, c, d, e, f)'
    BY <1>3, <1>6, <2>4, <2>5 DEF FlowAt
  <2> QED BY <2>6
<1>8. ASSUME NEW p \in (m + 1)..n, l1[p] # << >>,
             \A k \in (m + 1)..n : l1[k] # << >> => p <= k,
             source' = [scanned |-> p, number |-> source.number + 1],
             delivered' = Append(delivered,
                [number |-> source.number, sent |-> l1[p][1].number, blocks |-> l1[p][1].blocks])
      PROVE  \E g, h \in Nat : FlowAt(a, g, h, d, e, f)'
  <2> DEFINE r == [number |-> source.number, sent |-> l1[p][1].number, blocks |-> l1[p][1].blocks]
             w == Len(delivered)
             u == PieceDelivered
             v == PieceDelivered'
  <2>1. p \in 1..n /\ p - 1 \in m..n /\ (p - 1) + 1 = p /\ p - 1 < n /\ p - 1 \in Nat /\ m \in Nat
    BY <1>0
  <2>2. r \in Delivery /\ s[p] = Carried(r.sent, r.blocks)
    BY <1>0, <1>8, <2>1, L1Facts DEF Delivery
  <2> HIDE DEF r
  <2>3. /\ Len(delivered') = w + 1 /\ delivered'[w + 1] = r
        /\ DOMAIN delivered' = 1..(w + 1)
        /\ \A i \in 1..w : delivered'[i] = delivered[i]
    <3> HIDE DEF Delivery
    <3> QED BY <1>0, <1>8, <2>2, AppendProperties, LenProperties DEF r
  <2>4. \A k \in (0 + 1)..w : v[k] = u[k]
    <3> TAKE k \in (0 + 1)..w
    <3>1. k \in 1..w /\ k \in 1..(w + 1)
      BY <1>0
    <3> QED BY <1>0, <2>3, <3>1 DEF PieceDelivered
  <2>5. v[w + 1] = s[p]
    <3>1. w + 1 \in 1..(w + 1)
      BY <1>0
    <3>2. v[w + 1] = Carried(r.sent, r.blocks)
      BY <2>3, <3>1 DEF PieceDelivered
    <3> QED BY <2>2, <3>2
  <2>6. \A k \in (m + 1)..(p - 1) : s[k] = << >>
    <3> TAKE k \in (m + 1)..(p - 1)
    <3>1. k \in (m + 1)..n /\ ~(p <= k)
      BY <1>0, <2>1
    <3> QED BY <1>5, <1>8, <3>1
  <2>7. w \in Nat /\ 0 <= w /\ Chain(u, 0, w, a, c)
    BY <1>0, <1>2, <1>3
  <2>8. source'.scanned = p
    BY <1>8
  <2> HIDE DEF s, n, m, u, v, w
  <2>9. Chain(s, p - 1, n, c, d)
    BY <1>0, <1>2, <2>1, <2>6, ChainSkip
  <2>10. PICK g \in Nat : IsRun(s[(p - 1) + 1], c, g) /\ Chain(s, (p - 1) + 1, n, g, d)
    BY <1>0, <2>1, <2>9, ChainFirst
  <2>11. IsRun(s[p], c, g) /\ Chain(s, p, n, g, d)
    BY <2>1, <2>10
  <2>12. Chain(v, 0, w + 1, a, g)
    BY <2>4, <2>5, <2>7, <2>11, ChainAppend
  <2>13. Chain(PieceDelivered', 0, Len(delivered'), a, g)
    BY <2>3, <2>12 DEF v
  <2>14. Chain(PieceOnL1', source'.scanned, Len(l1'), g, d)
    BY <1>1, <1>4, <2>8, <2>11 DEF n
  <2>15. FlowAt(a, g, g, d, e, f)'
    BY <1>3, <1>6, <2>13, <2>14 DEF FlowAt
  <2> QED BY <2>15
<1>9. \/ /\ \A k \in (m + 1)..n : l1[k] = << >>
         /\ source' = [source EXCEPT !.scanned = Len(l1)]
         /\ delivered' = delivered
      \/ \E p \in (m + 1)..n :
            /\ l1[p] # << >>
            /\ \A k \in (m + 1)..n : l1[k] # << >> => p <= k
            /\ source' = [scanned |-> p, number |-> source.number + 1]
            /\ delivered' = Append(delivered,
                  [number |-> source.number, sent |-> l1[p][1].number, blocks |-> l1[p][1].blocks])
  BY DEF NextBatchAnvil
<1> QED BY <1>7, <1>8, <1>9

(* A process that starts holds nothing: the run is empty, at the last      *)
(* block made, and the numbers begin at one.                               *)
Fresh ==
    /\ queue = << >> /\ l1 = << >> /\ delivered = << >> /\ made \in Nat
    /\ source = NewSource /\ hand = Idle /\ driver = NewDriver /\ buffer = NewBuffer
    /\ hist.repeats = 0 /\ hist.foreign = 0

(* A fresh process is in order.                                            *)
LEMMA FreshInOrder == Fresh => WayInv /\ FlowInv /\ ShiftInv /\ NumbersShift
<1> SUFFICES ASSUME Fresh PROVE WayInv /\ FlowInv /\ ShiftInv /\ NumbersShift
  OBVIOUS
<1>1. /\ Len(queue) = 0 /\ Len(l1) = 0 /\ Len(delivered) = 0 /\ DOMAIN delivered = {}
      /\ queue \in Seq(Batch) /\ delivered \in Seq(Delivery)
      /\ source.scanned = 0 /\ source.number = 1 /\ hand.step = "idle" /\ driver.number = 1
      /\ driver.pending = << >> /\ buffer.pending = << >> /\ made \in Nat
  BY EmptySeq DEF Fresh, NewSource, Idle, NewDriver, NewBuffer
<1>2. 1..0 = {}
  OBVIOUS
<1>3. WayInv
  BY <1>1, <1>2 DEF Fresh, WayInv
<1>4. FlowInv
  <2>1. Held = << >>
    BY <1>1 DEF Held
  <2>2. FlowAt(made, made, made, made, made, made)
    BY <1>1, <2>1, RunEmpty, ChainNone DEF FlowAt
  <2> QED BY <1>1, <2>2 DEF FlowInv
<1>5. ShiftInv
  <2> DEFINE R == [k \in 0..Len(l1) |-> 0]
  <2>1. R \in [0..Len(l1) -> Nat] /\ R[0] = 0
    BY <1>1
  <2> HIDE DEF R
  <2>2. IsCount(R)
    BY <1>1, <1>2, <2>1 DEF IsCount
  <2>3. Shift = 0 /\ InBuilding = 0
    BY <1>1 DEF Fresh, Shift, InBuilding
  <2>4. CountsAt(R)
    BY <1>1, <1>2, <2>1, <2>2, <2>3 DEF CountsAt
  <2> QED BY <2>4 DEF ShiftInv
<1>6. NumbersShift
  BY <1>1 DEF NumbersShift
<1> QED BY <1>3, <1>4, <1>5, <1>6

(* A process that ends leaves a fresh one.                                 *)
LEMMA CrashIsFresh ==
    ASSUME Inv, Crash
    PROVE  WayInv' /\ FlowInv' /\ ShiftInv' /\ NumbersShift'
<1>1. Fresh'
  <2>1. StageTypes /\ hist \in HistType /\ made \in Nat
    BY ConstantTypes DEF Inv, StageTypes
  <2>2. hist'.repeats = 0 /\ hist'.foreign = 0
    BY <2>1 DEF Crash, HistType
  <2>3. NewSource' = NewSource /\ Idle' = Idle /\ NewDriver' = NewDriver /\ NewBuffer' = NewBuffer
    BY DEF NewSource, Idle, NoBatch, NewDriver, NewBuffer
  <2> QED BY <2>1, <2>2, <2>3 DEF Crash, Fresh
<1>2. Fresh' => WayInv' /\ FlowInv' /\ ShiftInv' /\ NumbersShift'
  BY FreshInOrder, PTL
<1> QED BY <1>1, <1>2

(* No stage loses or reorders what it hands on.                            *)
LEMMA FlowMoves ==
    ASSUME Inv, WayInv, WayInv', SinkTypes', [Next]_vars, ~Crash,
           mode \in {"in-memory", "anvil"}, hist'.skipped = {}, hist'.repeats = 0,
           NEW a \in Nat, NEW b \in Nat, NEW c \in Nat, NEW d \in Nat, NEW e \in Nat, NEW f \in Nat,
           FlowAt(a, b, c, d, e, f)
    PROVE  \E g, h, i, j, k, l \in Nat : FlowAt(g, h, i, j, k, l)'
<1>0. /\ StageTypes /\ SinkTypes /\ made \in Nat
      /\ buffer \in BufferType /\ driver \in DriverType /\ hand \in HandType /\ hist \in HistType
  BY ConstantTypes DEF Inv, StageTypes
<1>1. /\ IsRun(Held, d, e) /\ IsRun(driver.pending, e, f) /\ IsRun(buffer.pending, f, made)
  BY DEF FlowAt
<1> DEFINE Still == UNCHANGED <<queue, l1, source, delivered>>
<1>2. ASSUME Still, NEW i \in Nat, NEW j \in Nat, IsRun(Held', d, i),
             IsRun(driver'.pending, i, j), IsRun(buffer'.pending, j, made')
      PROVE  FlowAt(a, b, c, d, i, j)'
  BY <1>2 DEF FlowAt, PieceDelivered, PieceQueued, PieceOnL1
<1>3. ASSUME NewContext \/ PushWaits \/ IntervalPasses \/ SubmitFails \/ UNCHANGED vars
      PROVE  FlowAt(a, b, c, d, e, f)'
  <2>1. Still /\ hand' = hand /\ made' = made
    BY <1>3 DEF NewContext, PushWaits, IntervalPasses, SubmitFails, vars, sinks
  <2>2. driver'.pending = driver.pending /\ buffer'.pending = buffer.pending
    BY <1>0, <1>3 DEF NewContext, PushWaits, IntervalPasses, SubmitFails, vars, DriverType, BufferType
  <2>3. Held' = Held
    BY <2>1 DEF Held
  <2> QED BY <1>1, <1>2, <2>1, <2>2, <2>3
<1>4. ASSUME Push PROVE FlowAt(a, b, c, d, e, f)'
  <2>1. buffer'.pending = Append(buffer.pending, made + 1) /\ made' = made + 1
    BY <1>0, <1>4 DEF Push, BufferType
  <2>2. Still /\ hand' = hand /\ driver' = driver
    BY <1>4 DEF Push, sinks
  <2>3. IsRun(buffer'.pending, f, made')
    BY <1>1, <2>1, RunAppend
  <2>4. Held' = Held
    BY <2>2 DEF Held
  <2> QED BY <1>1, <1>2, <2>2, <2>3, <2>4
<1>5. ASSUME Collect PROVE \E i \in Nat : FlowAt(a, b, c, d, e, i)'
  <2>0. PICK i \in Nat : i = made
    BY <1>0
  <2>1. driver'.pending = driver.pending \o buffer.pending /\ buffer'.pending = << >>
    BY <1>0, <1>5 DEF Collect, AddBlocks, DriverType, BufferType
  <2>2. Still /\ hand' = hand /\ made' = made
    BY <1>5 DEF Collect, sinks
  <2>3. IsRun(driver'.pending, e, made)
    BY <1>1, <2>1, RunConcat
  <2>4. IsRun(buffer'.pending, made, made')
    BY <1>0, <2>1, <2>2, RunEmpty
  <2>5. Held' = Held
    BY <2>2 DEF Held
  <2>6. FlowAt(a, b, c, d, e, i)'
    BY <1>1, <1>2, <2>0, <2>2, <2>3, <2>4, <2>5
  <2> QED BY <2>6
<1>6. ASSUME BuildBatch PROVE \E i \in Nat : FlowAt(a, b, c, d, i, f)'
  <2>1. /\ hand.step = "idle" /\ hand'.step = "built"
        /\ hand'.batch.blocks = SubSeq(driver.pending, 1, Taken)
        /\ driver'.pending = SubSeq(driver.pending, Taken + 1, Len(driver.pending))
        /\ Taken \in 0..Len(driver.pending)
    BY <1>0, <1>6, BuildFacts DEF Drained
  <2>2. d = e
    <3>1. Held = << >>
      BY <2>1 DEF Held
    <3> QED BY <1>1, <3>1, RunEmpty
  <2>3. Held' = SubSeq(driver.pending, 1, Taken)
    BY <2>1 DEF Held
  <2>4. IsRun(Held', d, d + Taken) /\ IsRun(driver'.pending, d + Taken, f)
    BY <1>1, <2>1, <2>2, <2>3, RunCut
  <2>5. PICK i \in Nat : i = d + Taken
    BY <1>0, <2>1, StageFacts
  <2>6. Still /\ buffer' = buffer /\ made' = made
    BY <1>6 DEF BuildBatch, sinks
  <2>7. FlowAt(a, b, c, d, i, f)'
    BY <1>1, <1>2, <2>4, <2>5, <2>6
  <2> QED BY <2>7
<1>7. ASSUME SkipBatch \/ RecordBatchSubmitted PROVE FlowAt(a, b, c, d, e, f)'
  <2>1. Held = << >>
    <3>1. CASE SkipBatch
      <4>1. hist'.skipped = hist.skipped \cup Range(hand.batch.blocks)
        BY <1>0, <3>1 DEF SkipBatch, HistType
      <4>2. Range(hand.batch.blocks) = {}
        BY <4>1
      <4>3. hand.batch.blocks = << >>
        BY <1>0, <4>2, StageFacts, EmptyRange
      <4> QED BY <4>3 DEF Held
    <3>2. CASE RecordBatchSubmitted
      BY <3>2 DEF RecordBatchSubmitted, Held
    <3> QED BY <1>7, <3>1, <3>2
  <2>2. Held' = << >>
    BY <1>7 DEF SkipBatch, RecordBatchSubmitted, Held, Idle
  <2>3. Still /\ driver' = driver /\ buffer' = buffer /\ made' = made
    BY <1>7 DEF SkipBatch, RecordBatchSubmitted, sinks
  <2> QED BY <1>1, <1>2, <2>1, <2>2, <2>3
<1>8. ~SubmitUnconfirmed
  <2> SUFFICES ASSUME SubmitUnconfirmed PROVE FALSE
    OBVIOUS
  <2>1. hist'.repeats = hist.repeats + 1
    BY <1>0 DEF SubmitUnconfirmed, HistType
  <2> QED BY <1>0, <2>1, HistFacts
<1>9. ASSUME Submit PROVE \E i, j \in Nat : FlowAt(a, b, i, j, e, f)'
  BY <1>9, FlowSubmit
<1>10. ASSUME OtherBlock PROVE FlowAt(a, b, c, d, e, f)'
  BY <1>10, FlowOther
<1>11. ASSUME NextBatchInMemory PROVE \E i \in Nat : FlowAt(a, i, c, d, e, f)'
  BY <1>11, FlowInMemory
<1>12. ASSUME NextBatchAnvil PROVE \E i, j \in Nat : FlowAt(a, i, j, d, e, f)'
  BY <1>12, FlowAnvil
<1> DEFINE Goal == \E g, h, i, j, k, l \in Nat : FlowAt(g, h, i, j, k, l)'
<1>13. ASSUME FlowAt(a, b, c, d, e, f)' PROVE Goal
  BY <1>13
<1>14. ASSUME \E i \in Nat : FlowAt(a, b, c, d, e, i)' PROVE Goal
  BY <1>14
<1>15. ASSUME \E i \in Nat : FlowAt(a, b, c, d, i, f)' PROVE Goal
  BY <1>15
<1>16. ASSUME \E i, j \in Nat : FlowAt(a, b, i, j, e, f)' PROVE Goal
  BY <1>16
<1>17. ASSUME \E i \in Nat : FlowAt(a, i, c, d, e, f)' PROVE Goal
  BY <1>17
<1>18. ASSUME \E i, j \in Nat : FlowAt(a, i, j, d, e, f)' PROVE Goal
  BY <1>18
<1> HIDE DEF Goal
<1>19. Goal
  BY <1>3, <1>4, <1>5, <1>6, <1>7, <1>8, <1>9, <1>10, <1>11, <1>12, <1>13, <1>14, <1>15,
     <1>16, <1>17, <1>18 DEF Next, Caller, Source
<1> QED BY <1>19 DEF Goal

(* Only the end of a process clears the history.                           *)
LEMMA HistGrows ==
    ASSUME Inv, [Next]_vars, ~Crash
    PROVE  /\ mode' = mode /\ hist.skipped \subseteq hist'.skipped
           /\ hist'.repeats \in Nat /\ hist'.foreign \in Nat /\ hist'.skips \in Nat
           /\ hist.repeats <= hist'.repeats /\ hist.foreign <= hist'.foreign
           /\ hist.skips <= hist'.skips
<1>0. StageTypes /\ hist \in HistType /\ hist.repeats \in Nat /\ hist.foreign \in Nat /\ hist.skips \in Nat
  BY HistFacts DEF Inv
<1> DEFINE Goal == /\ mode' = mode /\ hist.skipped \subseteq hist'.skipped
                   /\ hist'.repeats \in Nat /\ hist'.foreign \in Nat /\ hist'.skips \in Nat
                   /\ hist.repeats <= hist'.repeats /\ hist.foreign <= hist'.foreign
                   /\ hist.skips <= hist'.skips
<1>1. ASSUME mode' = mode, hist' = hist PROVE Goal
  BY <1>0, <1>1
<1>2. ASSUME \/ NewContext \/ Push \/ PushWaits \/ IntervalPasses \/ Collect \/ BuildBatch
             \/ Source \/ UNCHANGED vars
      PROVE  Goal
  <2>1. mode' = mode /\ hist' = hist
    BY <1>2 DEF NewContext, Push, PushWaits, IntervalPasses, Collect, BuildBatch, Source,
       NextBatchInMemory, NextBatchAnvil, vars
  <2> QED BY <1>1, <2>1
<1>3. ASSUME SkipBatch PROVE Goal
  <2>1. /\ hist'.skipped = hist.skipped \cup Range(hand.batch.blocks) /\ hist'.skips = hist.skips + 1
        /\ hist'.repeats = hist.repeats /\ hist'.foreign = hist.foreign /\ mode' = mode
    BY <1>0, <1>3 DEF SkipBatch, HistType
  <2> QED BY <1>0, <2>1
<1>4. ASSUME Submit \/ SubmitFails \/ RecordBatchSubmitted PROVE Goal
  <2>1. /\ hist'.skipped = hist.skipped /\ hist'.skips = hist.skips
        /\ hist'.repeats = hist.repeats /\ hist'.foreign = hist.foreign /\ mode' = mode
    BY <1>0, <1>4 DEF Submit, SubmitFails, RecordBatchSubmitted, HistType
  <2> QED BY <1>0, <2>1
<1>5. ASSUME SubmitUnconfirmed PROVE Goal
  <2>1. /\ hist'.skipped = hist.skipped /\ hist'.skips = hist.skips
        /\ hist'.repeats = hist.repeats + 1 /\ hist'.foreign = hist.foreign /\ mode' = mode
    BY <1>0, <1>5 DEF SubmitUnconfirmed, HistType
  <2> QED BY <1>0, <2>1
<1>6. ASSUME OtherBlock PROVE Goal
  <2>1. PICK txs \in {<<>>, <<Foreign>>} :
           hist' = [hist EXCEPT !.other = @ + 1, !.foreign = @ + Len(txs)]
    BY <1>6 DEF OtherBlock
  <2>2. Len(txs) \in Nat
    OBVIOUS
  <2>3. /\ hist'.skipped = hist.skipped /\ hist'.skips = hist.skips /\ mode' = mode
        /\ hist'.repeats = hist.repeats /\ hist'.foreign = hist.foreign + Len(txs)
    BY <1>0, <1>6, <2>1 DEF OtherBlock, HistType
  <2> QED BY <1>0, <2>2, <2>3
<1> HIDE DEF Goal
<1>7. Goal
  BY <1>2, <1>3, <1>4, <1>5, <1>6 DEF Next, Caller
<1> QED BY <1>7 DEF Goal

(* The flow stays in order.                                                *)
LEMMA FlowStep ==
    ASSUME Inv, WayInv, FlowInv, [Next]_vars
    PROVE  FlowInv'
<1>1. CASE Crash
  BY <1>1, CrashIsFresh
<1>2. CASE ~Crash
  <2> SUFFICES ASSUME hist'.skipped = {}, hist'.repeats = 0, mode' \in {"in-memory", "anvil"}
               PROVE  \E g, h, i, j, k, l \in Nat : FlowAt(g, h, i, j, k, l)'
    BY DEF FlowInv
  <2>1. hist.skipped = {} /\ hist.repeats = 0 /\ mode \in {"in-memory", "anvil"}
    <3>1. hist.repeats \in Nat
      BY HistFacts DEF Inv
    <3> QED BY <1>2, <3>1, HistGrows
  <2>2. PICK a \in Nat, b \in Nat, c \in Nat, d \in Nat, e \in Nat, f \in Nat :
           FlowAt(a, b, c, d, e, f)
    BY <2>1 DEF FlowInv
  <2>3. WayInv' /\ SinkTypes'
    BY WayStep, SinkStep
  <2> QED BY <1>2, <2>1, <2>2, <2>3, FlowMoves
<1> QED BY <1>1, <1>2

-----------------------------------------------------------------------------
(* The numbers.                                                            *)

(* A sequence that grows by anything.                                      *)
LEMMA AppendAny ==
    ASSUME NEW T, NEW s \in Seq(T), NEW x
    PROVE  /\ Len(Append(s, x)) = Len(s) + 1 /\ Append(s, x)[Len(s) + 1] = x
           /\ DOMAIN Append(s, x) = 1..(Len(s) + 1)
           /\ \A i \in 1..Len(s) : Append(s, x)[i] = s[i]
<1> DEFINE U == T \cup {x}
<1>1. s \in Seq(U) /\ x \in U
  BY SeqDef
<1> HIDE DEF U
<1> QED BY <1>1, AppendProperties, LenProperties

(* The count goes on over one more block of L1.                            *)
LEMMA CountAppend ==
    ASSUME NEW T, l1 \in Seq(T), NEW R, IsCount(R), NEW txs, l1' = Append(l1, txs)
    PROVE  \E Q : /\ IsCount(Q)'
                  /\ \A k \in 0..Len(l1) : Q[k] = R[k]
                  /\ Q[Len(l1) + 1] = R[Len(l1)] + (IF txs = << >> THEN 0 ELSE 1)
<1> DEFINE n == Len(l1)
           z == R[n] + (IF txs = << >> THEN 0 ELSE 1)
           Z == [k \in 0..(n + 1) |-> IF k = n + 1 THEN z ELSE R[k]]
<1>1. /\ n \in Nat /\ Len(l1') = n + 1 /\ l1'[n + 1] = txs
      /\ \A i \in 1..n : l1'[i] = l1[i]
  BY AppendAny, LenProperties
<1>2. /\ R \in [0..n -> Nat] /\ R[0] = 0
      /\ \A k \in 1..n : R[k] = R[k - 1] + (IF l1[k] = << >> THEN 0 ELSE 1)
  BY DEF IsCount
<1> HIDE DEF n
<1>3. z \in Nat
  <2>1. R[n] \in Nat
    BY <1>1, <1>2
  <2> QED BY <2>1
<1>4. Z \in [0..(n + 1) -> Nat]
  <2>1. \A k \in 0..(n + 1) : k # n + 1 => k \in 0..n
    BY <1>1
  <2> HIDE DEF z
  <2> QED BY <1>2, <1>3, <2>1
<1>5. (\A k \in 0..n : Z[k] = R[k]) /\ Z[n + 1] = z
  BY <1>1
<1> HIDE DEF Z
<1>6. PICK Q : Q = Z
  OBVIOUS
<1>7. Q \in [0..(n + 1) -> Nat]
  BY <1>4, <1>6
<1>8. (\A k \in 0..n : Q[k] = R[k]) /\ Q[n + 1] = z
  BY <1>5, <1>6
<1>9. Q[0] = 0
  BY <1>1, <1>2, <1>8
<1>10. ASSUME NEW k \in 1..(n + 1)
       PROVE  Q[k] = Q[k - 1] + (IF l1'[k] = << >> THEN 0 ELSE 1)
  <2>1. CASE k = n + 1
    <3>1. k - 1 = n /\ n \in 0..n
      BY <1>1, <2>1
    <3> QED BY <1>1, <1>8, <2>1, <3>1
  <2>2. CASE k # n + 1
    <3>1. k \in 1..n /\ k \in 0..n /\ k - 1 \in 0..n
      BY <1>1, <2>2
    <3> QED BY <1>1, <1>2, <1>8, <3>1
  <2> QED BY <2>1, <2>2
<1>11. IsCount(Q)'
  BY <1>1, <1>7, <1>9, <1>10 DEF IsCount
<1> QED BY <1>8, <1>11 DEF n

(* The count stands still over blocks without a transaction.               *)
LEMMA CountSkip ==
    ASSUME Len(l1) \in Nat, NEW R, IsCount(R), NEW m \in 0..Len(l1), NEW p \in m..Len(l1),
           \A k \in (m + 1)..p : l1[k] = << >>
    PROVE  R[p] = R[m]
<1> DEFINE S == {i \in Nat : m + i <= p => R[m + i] = R[m]}
<1>1. 0 \in S
  OBVIOUS
<1>2. ASSUME NEW i \in Nat, i \in S PROVE i + 1 \in S
  <2> SUFFICES ASSUME m + (i + 1) <= p PROVE R[m + (i + 1)] = R[m]
    OBVIOUS
  <2>1. /\ m + i <= p /\ m + (i + 1) \in (m + 1)..p /\ m + (i + 1) \in 1..Len(l1)
        /\ (m + (i + 1)) - 1 = m + i /\ m + i \in 0..Len(l1)
    OBVIOUS
  <2>2. R[m + (i + 1)] = R[m + i] + 0
    BY <2>1 DEF IsCount
  <2>3. R[m + i] \in Nat
    BY <2>1 DEF IsCount
  <2> QED BY <1>2, <2>1, <2>2, <2>3
<1> HIDE DEF S
<1>3. Nat \subseteq S
  BY <1>1, <1>2, SetInduction
<1>4. p - m \in Nat /\ m + (p - m) = p
  OBVIOUS
<1>5. p - m \in S
  BY <1>3, <1>4
<1> QED BY <1>4, <1>5 DEF S

(* The source's own number is the count at the transaction it finds.       *)
LEMMA SourceCounts ==
    ASSUME SinkTypes, WayInv, NEW R, CountsAt(R), NEW p \in (source.scanned + 1)..Len(l1),
           l1[p] # << >>, \A k \in (source.scanned + 1)..Len(l1) : l1[k] # << >> => p <= k
    PROVE  R[p] = source.number /\ R[p] \in Nat
<1> DEFINE n == Len(l1)
           m == source.scanned
<1>1. n \in Nat /\ m \in 0..n /\ source.number \in Nat
  BY WayFacts
<1>2. IsCount(R) /\ source.number = R[m] + 1
  BY DEF CountsAt
<1>3. p \in 1..n /\ p - 1 \in m..n /\ p - 1 \in 0..n /\ m \in Nat
  BY <1>1
<1>4. \A k \in (m + 1)..(p - 1) : l1[k] = << >>
  <2> TAKE k \in (m + 1)..(p - 1)
  <2>1. k \in (m + 1)..n /\ ~(p <= k)
    BY <1>1, <1>3
  <2> QED BY <2>1
<1>5. R[p - 1] = R[m]
  BY <1>1, <1>2, <1>3, <1>4, CountSkip
<1>6. R[p] = R[p - 1] + 1
  BY <1>2, <1>3 DEF IsCount
<1> QED BY <1>1, <1>2, <1>5, <1>6

(* Numbers and counts grow together.                                       *)
LEMMA ShiftMoves ==
    ASSUME Inv, WayInv, [Next]_vars, ~Crash, mode = "anvil", hist'.skips = 0,
           NEW R, CountsAt(R)
    PROVE  \E Q : CountsAt(Q)'
<1> DEFINE n == Len(l1)
           Goal == \E Q : CountsAt(Q)'
<1>0. /\ StageTypes /\ SinkTypes /\ l1 \in Seq(Seq(Entry)) /\ n \in Nat
      /\ source.scanned \in 0..n /\ source.number \in Nat
      /\ driver \in DriverType /\ hand \in HandType /\ hist \in HistType
      /\ driver.number \in Nat /\ driver.number > 0 /\ Shift \in Nat
      /\ hist.repeats \in Nat /\ hist.foreign \in Nat /\ hist.skips \in Nat
  <2>1. StageTypes /\ SinkTypes
    BY DEF Inv
  <2>2. /\ n \in Nat /\ source.scanned \in 0..n /\ source.number \in Nat
    BY <2>1, WayFacts
  <2>3. driver.number \in Nat /\ driver.number > 0
    BY <2>1, StageFacts, ConstantTypes
  <2>4. hist.repeats \in Nat /\ hist.foreign \in Nat /\ hist.skips \in Nat
    BY <2>1, HistFacts
  <2>5. Shift \in Nat
    BY <2>4 DEF Shift
  <2> QED BY <2>1, <2>2, <2>3, <2>4, <2>5 DEF StageTypes, SinkTypes
<1>1. /\ IsCount(R) /\ source.number = R[source.scanned] + 1
      /\ R[n] + 1 + InBuilding = driver.number + Shift
      /\ \A k \in 1..n : l1[k] # << >> /\ l1[k][1].number > 0 =>
            l1[k][1].number <= R[k] /\ R[k] <= l1[k][1].number + Shift
  BY DEF CountsAt
<1>2. \A k \in 0..n : R[k] \in Nat
  BY <1>1 DEF IsCount
<1>3. ASSUME UNCHANGED l1, source'.number = R[source'.scanned] + 1, Shift' = Shift,
             R[n] + 1 + InBuilding' = driver'.number + Shift
      PROVE  Goal
  <2>1. CountsAt(R)'
    BY <1>1, <1>3 DEF CountsAt, IsCount
  <2> QED BY <2>1
<1>4. ASSUME NEW txs, l1' = Append(l1, txs), source' = source, Shift <= Shift', Shift' \in Nat,
             txs # << >> /\ txs[1].number > 0 =>
                txs[1].number <= R[n] + 1 /\ R[n] + 1 <= txs[1].number + Shift',
             R[n] + (IF txs = << >> THEN 0 ELSE 1) + 1 + InBuilding' = driver'.number + Shift'
      PROVE  Goal
  <2>1. PICK Q : /\ IsCount(Q)'
                 /\ \A k \in 0..n : Q[k] = R[k]
                 /\ Q[n + 1] = R[n] + (IF txs = << >> THEN 0 ELSE 1)
    BY <1>0, <1>1, <1>4, CountAppend
  <2>2. /\ Len(l1') = n + 1 /\ l1'[n + 1] = txs
        /\ \A i \in 1..n : l1'[i] = l1[i]
    <3> HIDE DEF Entry
    <3> QED BY <1>0, <1>4, AppendAny
  <2>3. source'.number = Q[source'.scanned] + 1
    BY <1>0, <1>1, <1>4, <2>1
  <2>4. Q[Len(l1')] + 1 + InBuilding' = driver'.number + Shift'
    BY <1>4, <2>1, <2>2
  <2>5. ASSUME NEW k \in 1..(n + 1), l1'[k] # << >>, l1'[k][1].number > 0
        PROVE  l1'[k][1].number <= Q[k] /\ Q[k] <= l1'[k][1].number + Shift'
    <3>1. CASE k = n + 1
      <4>1. l1'[k] = txs /\ Q[k] = R[n] + 1
        BY <2>1, <2>2, <2>5, <3>1
      <4> QED BY <1>4, <2>5, <4>1
    <3>2. CASE k # n + 1
      <4>1. k \in 1..n /\ k \in 0..n
        <5>1. n \in Nat /\ k \in 1..(n + 1) /\ k # n + 1
          BY <1>0, <3>2
        <5> HIDE DEF n
        <5> QED BY <5>1
      <4>2. l1'[k] = l1[k] /\ Q[k] = R[k] /\ R[k] \in Nat
        BY <1>2, <2>1, <2>2, <4>1
      <4>3. l1[k][1].number <= R[k] /\ R[k] <= l1[k][1].number + Shift /\ l1[k][1].number \in Nat
        BY <1>0, <1>1, <2>5, <4>1, <4>2, L1Facts
      <4>4. R[k] <= l1[k][1].number + Shift'
        <5> DEFINE y == l1[k][1].number
                   z == R[k]
                   g == Shift
                   h == Shift'
        <5>1. y \in Nat /\ z \in Nat /\ g \in Nat /\ h \in Nat /\ g <= h /\ z <= y + g
          BY <1>0, <1>4, <4>2, <4>3
        <5> HIDE DEF y, z, g, h
        <5>2. z <= y + h
          BY <5>1
        <5> QED BY <5>2 DEF y, z, h
      <4> QED BY <4>2, <4>3, <4>4
    <3> QED BY <3>1, <3>2
  <2>6. CountsAt(Q)'
    BY <2>1, <2>2, <2>3, <2>4, <2>5 DEF CountsAt
  <2> QED BY <2>6
<1> HIDE DEF Goal
<1>5. ASSUME NewContext \/ Push \/ PushWaits \/ IntervalPasses \/ Collect \/ SubmitFails
             \/ RecordBatchSubmitted \/ UNCHANGED vars
      PROVE  Goal
  <2>1. UNCHANGED <<l1, source>>
    BY <1>5 DEF NewContext, Push, PushWaits, IntervalPasses, Collect, SubmitFails,
       RecordBatchSubmitted, vars, sinks
  <2>2. driver'.number = driver.number
    BY <1>0, <1>5 DEF NewContext, Push, PushWaits, IntervalPasses, Collect, AddBlocks, SubmitFails,
       RecordBatchSubmitted, vars, DriverType
  <2>3. hist'.repeats = hist.repeats /\ hist'.foreign = hist.foreign
    BY <1>0, <1>5 DEF NewContext, Push, PushWaits, IntervalPasses, Collect, SubmitFails,
       RecordBatchSubmitted, vars, HistType
  <2>4. InBuilding' = InBuilding
    BY <1>5 DEF NewContext, Push, PushWaits, IntervalPasses, Collect, SubmitFails,
       RecordBatchSubmitted, vars, InBuilding, Idle
  <2> QED BY <1>1, <1>3, <2>1, <2>2, <2>3, <2>4 DEF Shift
<1>6. ASSUME BuildBatch PROVE Goal
  <2>1. hand.step = "idle" /\ hand'.step = "built" /\ driver'.number = driver.number + 1
    BY <1>0, <1>6, BuildFacts DEF Drained
  <2>2. UNCHANGED <<l1, source, hist>>
    BY <1>6 DEF BuildBatch, sinks
  <2>3. InBuilding = 0 /\ InBuilding' = 1
    BY <2>1 DEF InBuilding
  <2>4. R[n] + 1 + InBuilding' = driver'.number + Shift
    <3>1. R[n] \in Nat
      BY <1>0, <1>2
    <3> QED BY <1>0, <1>1, <2>1, <2>3, <3>1
  <2> QED BY <1>1, <1>3, <2>2, <2>4 DEF Shift
<1>7. ~SkipBatch
  <2> SUFFICES ASSUME SkipBatch PROVE FALSE
    OBVIOUS
  <2>1. hist'.skips = hist.skips + 1
    BY <1>0 DEF SkipBatch, HistType
  <2> QED BY <1>0, <2>1
<1>8. ASSUME Submit \/ SubmitUnconfirmed PROVE Goal
  <2> DEFINE x == hand.batch
             txs == <<x>>
  <2>1. /\ hand.step = "built" /\ l1' = Append(l1, txs) /\ UNCHANGED <<source, driver>>
    BY <1>8 DEF Submit, SubmitUnconfirmed, ReadyToSubmit, Deposit
  <2>2. x.number \in Nat /\ x.number > 0 /\ x.number + 1 = driver.number
    <3>1. x.number \in Numbers
      BY <1>0, StageFacts
    <3> QED BY <2>1, <3>1, ConstantTypes DEF WayInv, Numbers
  <2>3. txs # << >> /\ txs[1] = x
    OBVIOUS
  <2>4. InBuilding = 1 /\ R[n] \in Nat
    BY <1>0, <1>2, <2>1 DEF InBuilding
  <2> HIDE DEF txs, x
  <2> DEFINE y == R[n]
             g == Shift
             z == driver.number
  <2>9. /\ y \in Nat /\ g \in Nat /\ z \in Nat /\ y + 1 + 1 = z + g
        /\ x.number \in Nat /\ x.number + 1 = z
    BY <1>0, <1>1, <2>2, <2>4
  <2>5. y + 1 = x.number + g
    <3> HIDE DEF y, g, z
    <3> QED BY <2>9
  <2>6. CASE Submit
    <3>1. hand'.step = "submitted"
      BY <1>0, <2>6 DEF Submit, HandType
    <3>2. hist'.repeats = hist.repeats /\ hist'.foreign = hist.foreign
      BY <1>0, <2>6 DEF Submit, HistType
    <3>3. Shift' = Shift /\ InBuilding' = 0
      BY <3>1, <3>2 DEF Shift, InBuilding
    <3>4. y + 1 + 1 + 0 = z + g
      <4> HIDE DEF y, g, z
      <4> QED BY <2>9
    <3>5. x.number <= R[n] + 1 /\ R[n] + 1 <= x.number + Shift'
      BY <1>0, <2>2, <2>4, <2>5, <3>3
    <3>6. Shift <= Shift' /\ Shift' \in Nat
      BY <1>0, <3>3
    <3> QED BY <1>4, <2>1, <2>3, <3>3, <3>4, <3>5, <3>6
  <2>7. CASE SubmitUnconfirmed
    <3>1. hand' = hand
      BY <2>7 DEF SubmitUnconfirmed
    <3>2. hist'.repeats = hist.repeats + 1 /\ hist'.foreign = hist.foreign
      BY <1>0, <2>7 DEF SubmitUnconfirmed, HistType
    <3>3. Shift' = Shift + 1 /\ InBuilding' = 1
      BY <1>0, <2>4, <3>1, <3>2 DEF Shift, InBuilding
    <3>4. y + 1 + 1 + 1 = z + (g + 1)
      <4> HIDE DEF y, g, z
      <4> QED BY <2>9
    <3>5. x.number <= R[n] + 1 /\ R[n] + 1 <= x.number + Shift'
      BY <1>0, <2>2, <2>4, <2>5, <3>3
    <3>6. Shift <= Shift' /\ Shift' \in Nat
      BY <1>0, <3>3
    <3> QED BY <1>4, <2>1, <2>3, <3>3, <3>4, <3>5, <3>6
  <2> QED BY <1>8, <2>6, <2>7
<1>9. ASSUME OtherBlock PROVE Goal
  <2>1. PICK txs \in {<<>>, <<Foreign>>} :
           /\ l1' = Append(l1, txs)
           /\ hist' = [hist EXCEPT !.other = @ + 1, !.foreign = @ + Len(txs)]
    BY <1>9 DEF OtherBlock
  <2>2. /\ Len(txs) = (IF txs = << >> THEN 0 ELSE 1) /\ Len(txs) \in Nat
        /\ ~(txs # << >> /\ txs[1].number > 0)
    BY DEF Foreign
  <2>3. hist'.repeats = hist.repeats /\ hist'.foreign = hist.foreign + Len(txs)
    BY <1>0, <2>1 DEF HistType
  <2>4. UNCHANGED <<source, driver, hand>>
    BY <1>9 DEF OtherBlock
  <2>5. Shift' = Shift + Len(txs) /\ InBuilding' = InBuilding
    BY <1>0, <2>2, <2>3, <2>4 DEF Shift, InBuilding
  <2>6. R[n] \in Nat /\ InBuilding \in Nat
    BY <1>0, <1>2 DEF InBuilding
  <2>7. R[n] + Len(txs) + 1 + InBuilding = driver.number + (Shift + Len(txs))
    <3> DEFINE y == Len(txs)
               i == InBuilding
               g == Shift
               u == R[n]
               z == driver.number
    <3>1. y \in Nat /\ i \in Nat /\ g \in Nat /\ u \in Nat /\ z \in Nat /\ u + 1 + i = z + g
      BY <1>0, <1>1, <2>2, <2>6
    <3> HIDE DEF y, i, g, u, z
    <3>2. u + y + 1 + i = z + (g + y)
      BY <3>1
    <3> QED BY <3>2 DEF y, i, g, u, z
  <2>8. R[n] + (IF txs = << >> THEN 0 ELSE 1) + 1 + InBuilding' = driver'.number + Shift'
    BY <2>2, <2>4, <2>5, <2>7
  <2>9. Shift <= Shift' /\ Shift' \in Nat
    BY <1>0, <2>2, <2>5
  <2> QED BY <1>4, <2>1, <2>2, <2>4, <2>8, <2>9
<1>10. ~NextBatchInMemory
  BY DEF NextBatchInMemory
<1>11. ASSUME NextBatchAnvil PROVE Goal
  <2> DEFINE m == source.scanned
  <2>1. UNCHANGED <<l1, driver, hand, hist>>
    BY <1>11 DEF NextBatchAnvil, sinks
  <2>2. source'.number = R[source'.scanned] + 1
    <3>1. CASE /\ \A k \in (m + 1)..n : l1[k] = << >>
               /\ source' = [source EXCEPT !.scanned = n]
      <4>1. n \in m..n
        BY <1>0
      <4>2. R[n] = R[m]
        BY <1>0, <1>1, <3>1, <4>1, CountSkip
      <4>3. source'.number = source.number /\ source'.scanned = n
        BY <1>0, <3>1 DEF SinkTypes
      <4> QED BY <1>1, <4>2, <4>3
    <3>2. ASSUME NEW p \in (m + 1)..n, l1[p] # << >>,
                 \A k \in (m + 1)..n : l1[k] # << >> => p <= k,
                 source' = [scanned |-> p, number |-> source.number + 1]
          PROVE  source'.number = R[source'.scanned] + 1
      <4>1. R[p] = source.number
        BY <1>0, <3>2, SourceCounts
      <4>2. source'.number = source.number + 1 /\ source'.scanned = p
        BY <3>2
      <4> QED BY <4>1, <4>2
    <3> QED BY <1>11, <3>1, <3>2 DEF NextBatchAnvil
  <2> QED BY <1>1, <1>3, <2>1, <2>2 DEF Shift, InBuilding
<1>12. Goal
  BY <1>5, <1>6, <1>7, <1>8, <1>9, <1>10, <1>11 DEF Next, Caller, Source
<1> QED BY <1>12 DEF Goal

(* The counts stay.                                                        *)
LEMMA ShiftStep ==
    ASSUME Inv, WayInv, ShiftInv, [Next]_vars
    PROVE  ShiftInv'
<1>1. CASE Crash
  BY <1>1, CrashIsFresh
<1>2. CASE ~Crash
  <2> SUFFICES ASSUME hist'.skips = 0, mode' = "anvil" PROVE \E Q : CountsAt(Q)'
    BY DEF ShiftInv
  <2>1. hist.skips = 0 /\ mode = "anvil"
    <3>1. hist.skips \in Nat
      BY HistFacts DEF Inv
    <3> QED BY <1>2, <3>1, HistGrows
  <2>2. PICK R : CountsAt(R)
    BY <2>1 DEF ShiftInv
  <2> QED BY <1>2, <2>1, <2>2, ShiftMoves
<1> QED BY <1>1, <1>2

(* A number the source gives is off by what reached the inbox besides.     *)
LEMMA NumbersStep ==
    ASSUME Inv, WayInv, ShiftInv, NumbersShift, [Next]_vars
    PROVE  NumbersShift'
<1>0. /\ StageTypes /\ SinkTypes /\ hist.repeats \in Nat /\ hist.foreign \in Nat /\ hist.skips \in Nat
      /\ delivered \in Seq(Delivery) /\ Len(delivered) \in Nat /\ DOMAIN delivered = 1..Len(delivered)
  BY HistFacts, WayFacts DEF Inv, WayInv
<1> DEFINE Ok(r, h) == r.sent > 0 /\ h.skips = 0 =>
                          /\ r.number >= r.sent
                          /\ r.number - r.sent <= h.repeats + h.foreign
<1>1. \A i \in DOMAIN delivered : Ok(delivered[i], hist)
  BY DEF NumbersShift
<1>2. CASE Crash
  BY <1>2, CrashIsFresh
<1>3. CASE ~Crash
  <2>1. \A i \in DOMAIN delivered : Ok(delivered[i], hist')
    <3> TAKE i \in DOMAIN delivered
    <3> SUFFICES ASSUME delivered[i].sent > 0, hist'.skips = 0
                 PROVE  /\ delivered[i].number >= delivered[i].sent
                        /\ delivered[i].number - delivered[i].sent <= hist'.repeats + hist'.foreign
      OBVIOUS
    <3>1. hist.skips = 0
      BY <1>0, <1>3, HistGrows
    <3>2. /\ delivered[i].number >= delivered[i].sent
          /\ delivered[i].number - delivered[i].sent <= hist.repeats + hist.foreign
      BY <1>1, <3>1
    <3>3. delivered[i].number \in Nat /\ delivered[i].sent \in Nat
      BY <1>0, WayFacts
    <3>4. /\ hist'.repeats \in Nat /\ hist'.foreign \in Nat
          /\ hist.repeats <= hist'.repeats /\ hist.foreign <= hist'.foreign
      BY <1>3, HistGrows
    <3> QED BY <1>0, <3>2, <3>3, <3>4
  <2> HIDE DEF Ok
  <2>2. CASE delivered' = delivered
    <3>1. \A i \in DOMAIN delivered' : Ok(delivered'[i], hist')
      BY <2>1, <2>2
    <3> QED BY <3>1 DEF NumbersShift, Ok
  <2>3. ASSUME NEW r, delivered' = Append(delivered, r), Ok(r, hist') PROVE NumbersShift'
    <3>1. /\ delivered'[Len(delivered) + 1] = r /\ DOMAIN delivered' = 1..(Len(delivered) + 1)
          /\ \A i \in 1..Len(delivered) : delivered'[i] = delivered[i]
      <4> HIDE DEF Delivery
      <4> QED BY <1>0, <2>3, AppendAny
    <3>2. \A i \in DOMAIN delivered' : Ok(delivered'[i], hist')
      <4> TAKE i \in DOMAIN delivered'
      <4>1. i \in 1..Len(delivered) \/ i = Len(delivered) + 1
        BY <1>0, <3>1
      <4> QED BY <1>0, <2>1, <2>3, <3>1, <4>1
    <3> QED BY <3>2 DEF NumbersShift, Ok
  <2>4. ASSUME NextBatchInMemory PROVE NumbersShift'
    <3> DEFINE x == Head(queue)
               r == [number |-> x.number, sent |-> x.number, blocks |-> x.blocks]
    <3>1. delivered' = Append(delivered, r) /\ hist' = hist
      BY <2>4 DEF NextBatchInMemory
    <3>2. x.number \in Nat
      <4>1. x \in Batch
        BY <2>4, HeadTailProperties DEF NextBatchInMemory, WayInv
      <4> QED BY <4>1, ConstantTypes DEF Batch, Numbers
    <3>3. Ok(r, hist')
      <4> HIDE DEF x
      <4>1. r.number = x.number /\ r.sent = x.number
        OBVIOUS
      <4> QED BY <1>0, <3>1, <3>2, <4>1 DEF Ok
    <3> HIDE DEF r
    <3> QED BY <2>3, <3>1, <3>3
  <2>5. ASSUME NextBatchAnvil PROVE NumbersShift'
    <3> DEFINE m == source.scanned
               n == Len(l1)
    <3>1. hist' = hist /\ mode = "anvil"
      BY <2>5 DEF NextBatchAnvil
    <3>2. ASSUME NEW p \in (m + 1)..n, l1[p] # << >>,
                 \A k \in (m + 1)..n : l1[k] # << >> => p <= k,
                 delivered' = Append(delivered,
                    [number |-> source.number, sent |-> l1[p][1].number, blocks |-> l1[p][1].blocks])
          PROVE  NumbersShift'
      <4> DEFINE r == [number |-> source.number, sent |-> l1[p][1].number, blocks |-> l1[p][1].blocks]
      <4>1. r.number = source.number /\ r.sent = l1[p][1].number
        OBVIOUS
      <4> HIDE DEF r
      <4>2. Ok(r, hist')
        <5> SUFFICES ASSUME r.sent > 0, hist'.skips = 0
                     PROVE  r.number >= r.sent /\ r.number - r.sent <= hist'.repeats + hist'.foreign
          BY DEF Ok
        <5>1. PICK R : CountsAt(R)
          BY <3>1 DEF ShiftInv
        <5>2. R[p] = source.number /\ R[p] \in Nat
          BY <1>0, <3>2, <5>1, SourceCounts
        <5>3. p \in 1..n
          BY <1>0, WayFacts
        <5>4. r.sent <= R[p] /\ R[p] <= r.sent + Shift /\ r.sent \in Nat
          BY <1>0, <3>2, <4>1, <5>1, <5>3, L1Facts DEF CountsAt
        <5> QED BY <1>0, <3>1, <4>1, <5>2, <5>4 DEF Shift
      <4> QED BY <2>3, <3>2, <4>2 DEF r
    <3> QED BY <2>2, <2>5, <3>2 DEF NextBatchAnvil
  <2>6. ASSUME \/ NewContext \/ Push \/ PushWaits \/ IntervalPasses \/ Collect \/ BuildBatch
               \/ SkipBatch \/ Submit \/ SubmitFails \/ SubmitUnconfirmed \/ RecordBatchSubmitted
               \/ OtherBlock \/ UNCHANGED vars
        PROVE  NumbersShift'
    <3>1. delivered' = delivered
      BY <2>6 DEF NewContext, Push, PushWaits, IntervalPasses, Collect, BuildBatch, SkipBatch,
         Submit, SubmitFails, SubmitUnconfirmed, RecordBatchSubmitted, OtherBlock, vars
    <3> QED BY <2>2, <3>1
  <2> QED BY <1>3, <2>4, <2>5, <2>6 DEF Next, Caller, Source
<1> QED BY <1>2, <1>3

(* The pieces of the flow, each in one sequence, are one run.              *)
LEMMA RunInOrder ==
    ASSUME Inv, WayInv, FlowInv
    PROVE  BlocksInOrder
<1> DEFINE flow == Received \o Queued \o InFlight \o Held \o driver.pending \o buffer.pending
<1> SUFFICES ASSUME mode \in {"in-memory", "anvil"}, hist.skipped = {}, hist.repeats = 0
             PROVE  \A i \in 1..(Len(flow) - 1) : flow[i + 1] = flow[i] + 1
  BY DEF BlocksInOrder
<1>0. /\ Len(queue) \in Nat /\ DOMAIN queue = 1..Len(queue)
      /\ Len(delivered) \in Nat /\ DOMAIN delivered = 1..Len(delivered)
      /\ Len(l1) \in Nat /\ DOMAIN l1 = 1..Len(l1) /\ source.scanned \in 0..Len(l1)
  BY WayFacts DEF Inv
<1>1. PICK a \in Nat, b \in Nat, c \in Nat, d \in Nat, e \in Nat, f \in Nat :
         FlowAt(a, b, c, d, e, f)
  BY DEF FlowInv
<1>2. ASSUME NEW n \in Nat, NEW s, DOMAIN s = 1..n, s = [i \in 1..n |-> s[i]]
      PROVE  Len(s) = n /\ (n = 0 => s = << >>)
  BY <1>2
<1>3. IsRun(Received, a, b)
  <2> DEFINE s == PieceDelivered
  <2>1. DOMAIN s = 1..Len(delivered) /\ s = [i \in 1..Len(delivered) |-> s[i]]
    BY <1>0 DEF PieceDelivered
  <2>2. Received = FlattenSeq(s) /\ Chain(s, 0, Len(delivered), a, b)
    BY <1>1 DEF Received, PieceDelivered, FlowAt
  <2> HIDE DEF s
  <2> QED BY <1>0, <1>2, <2>1, <2>2, ChainFlat
<1>4. IsRun(Queued, b, c)
  <2> DEFINE s == PieceQueued
  <2>1. DOMAIN s = 1..Len(queue) /\ s = [i \in 1..Len(queue) |-> s[i]]
    BY <1>0 DEF PieceQueued
  <2>2. Queued = FlattenSeq(s) /\ Chain(s, 0, Len(queue), b, c)
    BY <1>1 DEF Queued, PieceQueued, FlowAt
  <2> HIDE DEF s
  <2> QED BY <1>0, <1>2, <2>1, <2>2, ChainFlat
<1>5. IsRun(InFlight, c, d)
  <2> DEFINE m == source.scanned
             n == Len(l1) - m
             s == PieceOnL1
             t == [i \in 1..n |-> OfTransactions(l1[m + i])]
  <2>1. n \in Nat /\ m \in Nat /\ m + n = Len(l1)
    BY <1>0
  <2>2. InFlight = FlattenSeq(t)
    BY DEF InFlight
  <2>3. Chain(s, m, m + n, c, d)
    BY <1>1, <2>1 DEF FlowAt
  <2>4. \A k \in 1..n : t[k] = s[m + k]
    <3> TAKE k \in 1..n
    <3>1. m + k \in 1..Len(l1)
      BY <1>0, <2>1
    <3> QED BY <1>0, <3>1 DEF PieceOnL1
  <2>5. DOMAIN t = 1..n /\ t = [i \in 1..n |-> t[i]]
    OBVIOUS
  <2> HIDE DEF s, t, n, m
  <2>6. Chain(t, 0, n, c, d)
    BY <2>1, <2>3, <2>4, ChainShift
  <2> QED BY <1>2, <2>1, <2>2, <2>5, <2>6, ChainFlat
<1>6. IsRun(Held, d, e) /\ IsRun(driver.pending, e, f) /\ IsRun(buffer.pending, f, made)
  BY <1>1 DEF FlowAt
<1>7. IsRun(Received \o Queued, a, c)
  BY <1>3, <1>4, RunConcat
<1>8. IsRun(Received \o Queued \o InFlight, a, d)
  BY <1>5, <1>7, RunConcat
<1>9. IsRun(Received \o Queued \o InFlight \o Held, a, e)
  BY <1>6, <1>8, RunConcat
<1>10. IsRun(Received \o Queued \o InFlight \o Held \o driver.pending, a, f)
  BY <1>6, <1>9, RunConcat
<1>11. IsRun(flow, a, made)
  BY <1>6, <1>10, RunConcat
<1> HIDE DEF flow
<1> QED BY <1>11, RunSteps

(* The batching library from the executed block buffer to the source, for  *)
(* every capacity, configuration, sequence of block sizes and length of    *)
(* chain: what a process has delivered, is delivering and holds is a run   *)
(* of consecutive blocks, but for batches the checkpoint made it skip and  *)
(* submissions repeated after a failed confirmation; and the number the    *)
(* Anvil source gives a batch is off by at most the repeats and the other  *)
(* transactions to the inbox.                                              *)
THEOREM FlowStaysInOrder == Spec => []FlowInOrder
<1>1. Inv /\ OrderInv /\ [Next]_vars => Inv' /\ OrderInv'
  <2>1. Inv /\ [Next]_vars => Inv'
    BY InvStep
  <2> QED BY <2>1, WayStep, FlowStep, ShiftStep, NumbersStep DEF OrderInv
<1>2. Init => Inv /\ OrderInv
  <2>1. Init => Fresh
    BY DEF Init, Fresh
  <2> QED BY <2>1, InitInv, FreshInOrder DEF OrderInv
<1>3. Inv /\ OrderInv => FlowInOrder
  BY RunInOrder DEF OrderInv, FlowInOrder
<1> QED BY <1>1, <1>2, <1>3, PTL DEF Spec
=============================================================================
