------------------------- MODULE BatchRunnerProofs -------------------------
(***************************************************************************)
(* Proofs about the batch submission runner, for every chain, start block, *)
(* batch size and number of failures: no batch is empty or too large, no   *)
(* block is missing or doubled, and what the runner hands to the sink is   *)
(* the abstract ordered batch log.                                         *)
(***************************************************************************)
EXTENDS BatchRunner, TLAPS, SequenceTheorems

-----------------------------------------------------------------------------
(* The inductive invariant.                                                *)

Batch == [num : Nat, blocks : Seq(Nat) \ {<< >>}]

First(b) == b.blocks[1]
Last(b)  == b.blocks[Len(b.blocks)]

Consecutive(b) ==
    \A j \in 1..Len(b.blocks) : b.blocks[j] + 1 = First(b) + j

(* What was handed to the sink, included on L1 or not.                     *)
Batches == {l1[k] : k \in DOMAIN l1} \union {lost[k] : k \in DOMAIN lost}

(* The first block that is in no batch yet.                                *)
From == Fetched - Len(pending)

(* The batches of B carry the numbers below n, one each, and cut the       *)
(* blocks below f into consecutive ranges in the order of the numbers.     *)
Tiling(B, n, f) ==
    /\ \A b \in B : Consecutive(b) /\ b.num < n /\ StartBlock <= First(b) /\ Last(b) < f
    /\ \A b, c \in B : b.num = c.num => b = c
    /\ \A b, c \in B : b.num < c.num => Last(b) < First(c)
    /\ \A b, c \in B : c.num = b.num + 1 => First(c) = Last(b) + 1
    /\ \A b \in B : b.num + 1 = n => Last(b) + 1 = f
    /\ \A i \in Nat : i < n => \E b \in B : b.num = i
    /\ \A m \in Nat : StartBlock <= m /\ m < f =>
          \E b \in B : First(b) <= m /\ m <= Last(b)

(* The pending blocks are the ones fetched last, without a gap.            *)
PendingInv ==
    /\ StartBlock + Len(pending) <= Fetched
    /\ \A j \in 1..Len(pending) : pending[j] + Len(pending) + 1 = Fetched + j

(* Where the loop of run() is, and how much a round may still take.        *)
RoundInv ==
    /\ Len(pending) + left <= MaxBlocksPerBatch
    /\ pc # "fetch" => left = 0
    /\ pc \in {"ready", "top"} => Len(pending) < MaxBlocksPerBatch
    /\ pc = "submit" => pending # << >>

TilingInv == Tiling(Batches, num, From)

(* L1 is in the order of the batch numbers; no batch is too large.         *)
L1Inv ==
    /\ \A i \in DOMAIN l1 : Len(l1[i].blocks) <= MaxBlocksPerBatch
    /\ \A i, j \in DOMAIN l1 : i < j => l1[i].num < l1[j].num

Inv == TypeOK /\ PendingInv /\ RoundInv /\ TilingInv /\ L1Inv

-----------------------------------------------------------------------------
(* Lemmas on batches.                                                      *)

(* The ends of a batch of consecutive blocks.                              *)
LEMMA BatchEnds ==
    ASSUME NEW b \in Batch, Consecutive(b)
    PROVE  /\ b.num \in Nat /\ Len(b.blocks) \in Nat \ {0}
           /\ First(b) \in Nat /\ Last(b) \in Nat
           /\ Last(b) + 1 = First(b) + Len(b.blocks)
           /\ First(b) <= Last(b)
           /\ \A j \in 1..Len(b.blocks) : b.blocks[j] \in Nat
<1>1. b.num \in Nat /\ b.blocks \in Seq(Nat) /\ b.blocks # << >>
  BY DEF Batch
<1>2. Len(b.blocks) \in Nat \ {0}
  BY <1>1, EmptySeq, LenProperties
<1>3. \A j \in 1..Len(b.blocks) : b.blocks[j] \in Nat
  BY <1>1, ElementOfSeq
<1>4. 1 \in 1..Len(b.blocks) /\ Len(b.blocks) \in 1..Len(b.blocks)
  BY <1>2
<1>5. First(b) \in Nat /\ Last(b) \in Nat
  BY <1>3, <1>4 DEF First, Last
<1>6. Last(b) + 1 = First(b) + Len(b.blocks)
  BY <1>4 DEF Consecutive, Last
<1>7. First(b) <= Last(b)
  BY <1>2, <1>5, <1>6
<1> QED BY <1>1, <1>2, <1>3, <1>5, <1>6, <1>7

(* The blocks of a batch are the numbers between its ends.                 *)
LEMMA BatchRange ==
    ASSUME NEW b \in Batch, Consecutive(b)
    PROVE  {b.blocks[j] : j \in DOMAIN b.blocks} = First(b)..Last(b)
<1>1. /\ Len(b.blocks) \in Nat \ {0}
      /\ First(b) \in Nat /\ Last(b) \in Nat
      /\ Last(b) + 1 = First(b) + Len(b.blocks)
      /\ \A j \in 1..Len(b.blocks) : b.blocks[j] \in Nat
  BY BatchEnds
<1>2. DOMAIN b.blocks = 1..Len(b.blocks)
  BY LenProperties DEF Batch
<1>3. ASSUME NEW j \in 1..Len(b.blocks)
      PROVE  b.blocks[j] \in First(b)..Last(b)
  <2>1. b.blocks[j] \in Nat /\ b.blocks[j] + 1 = First(b) + j
    BY <1>1 DEF Consecutive
  <2> QED BY <1>1, <2>1
<1>4. ASSUME NEW m \in First(b)..Last(b)
      PROVE  \E j \in 1..Len(b.blocks) : b.blocks[j] = m
  <2>1. m + 1 - First(b) \in 1..Len(b.blocks)
    BY <1>1
  <2>2. b.blocks[m + 1 - First(b)] + 1 = First(b) + (m + 1 - First(b))
    BY <2>1 DEF Consecutive
  <2>3. b.blocks[m + 1 - First(b)] \in Nat
    BY <1>1, <2>1
  <2>4. b.blocks[m + 1 - First(b)] = m
    BY <1>1, <2>2, <2>3
  <2> QED BY <2>1, <2>4
<1> QED BY <1>2, <1>3, <1>4

(* A batch that takes the next number and starts at the next block keeps   *)
(* the tiling.                                                             *)
LEMMA TilingExtends ==
    ASSUME NEW B \in SUBSET Batch, NEW n \in Nat, NEW f \in Nat, Tiling(B, n, f),
           NEW b \in Batch, Consecutive(b), b.num = n, First(b) = f, StartBlock <= f
    PROVE  Tiling(B \union {b}, n + 1, Last(b) + 1)
<1>1. First(b) \in Nat /\ Last(b) \in Nat /\ f <= Last(b)
  BY BatchEnds
<1>2. \A c \in B : /\ Consecutive(c) /\ c.num < n
                   /\ StartBlock <= First(c) /\ Last(c) < f
  BY DEF Tiling
<1>3. \A c \in B : c.num \in Nat /\ First(c) \in Nat /\ Last(c) \in Nat
  BY <1>2, BatchEnds
<1>4. ASSUME NEW c \in B \union {b}
      PROVE  /\ Consecutive(c) /\ c.num < n + 1
             /\ StartBlock <= First(c) /\ Last(c) < Last(b) + 1
  BY <1>1, <1>2, <1>3
<1>5. ASSUME NEW c \in B \union {b}, NEW d \in B \union {b}, c.num = d.num
      PROVE  c = d
  <2>1. CASE c \in B /\ d \in B
    BY <1>5, <2>1 DEF Tiling
  <2>2. CASE ~(c \in B /\ d \in B)
    BY <1>2, <1>3, <1>5, <2>2
  <2> QED BY <2>1, <2>2
<1>6. ASSUME NEW c \in B \union {b}, NEW d \in B \union {b}, c.num < d.num
      PROVE  Last(c) < First(d)
  <2>1. CASE c \in B /\ d \in B
    BY <1>6, <2>1 DEF Tiling
  <2>2. CASE c \in B /\ d = b
    BY <1>2, <2>2
  <2>3. CASE c = b
    BY <1>2, <1>3, <1>6, <2>3
  <2> QED BY <2>1, <2>2, <2>3
<1>7. ASSUME NEW c \in B \union {b}, NEW d \in B \union {b}, d.num = c.num + 1
      PROVE  First(d) = Last(c) + 1
  <2>1. CASE c \in B /\ d \in B
    BY <1>7, <2>1 DEF Tiling
  <2>2. CASE c \in B /\ d = b
    BY <1>7, <2>2 DEF Tiling
  <2>3. CASE c = b
    BY <1>2, <1>3, <1>7, <2>3
  <2> QED BY <2>1, <2>2, <2>3
<1>8. ASSUME NEW c \in B \union {b}, c.num + 1 = n + 1
      PROVE  Last(c) + 1 = Last(b) + 1
  BY <1>2, <1>3, <1>8
<1>9. ASSUME NEW i \in Nat, i < n + 1
      PROVE  \E c \in B \union {b} : c.num = i
  <2>1. CASE i = n
    BY <2>1
  <2>2. CASE i < n
    BY <2>2 DEF Tiling
  <2> QED BY <1>9, <2>1, <2>2
<1>10. ASSUME NEW m \in Nat, StartBlock <= m, m < Last(b) + 1
       PROVE  \E c \in B \union {b} : First(c) <= m /\ m <= Last(c)
  <2>1. CASE m < f
    BY <1>10, <2>1 DEF Tiling
  <2>2. CASE f <= m
    BY <1>1, <1>10, <2>2
  <2> QED BY <2>1, <2>2
<1> QED
  BY <1>4, <1>5, <1>6, <1>7, <1>8, <1>9, <1>10 DEF Tiling

-----------------------------------------------------------------------------
(* Type correctness.                                                       *)

(* The bound of a round is a number.                                       *)
LEMMA RoundSize ==
    ASSUME NEW h \in Nat, cur \in Nat, Len(pending) \in Nat,
           Len(pending) < MaxBlocksPerBatch
    PROVE  /\ BlocksToFetch(h) \in Nat
           /\ Len(pending) + BlocksToFetch(h) <= MaxBlocksPerBatch
<1>1. MaxBlocksPerBatch \in Nat
  BY RunnerAssumption
<1>2. CASE h > cur
  <2> DEFINE a == MaxBlocksPerBatch - Len(pending)
             b == h - cur + 1
  <2>1. a \in Nat /\ b \in Nat /\ Len(pending) + a = MaxBlocksPerBatch
    BY <1>1, <1>2
  <2>2. BlocksToFetch(h) = Smaller(a, b)
    BY <1>2 DEF BlocksToFetch
  <2> HIDE DEF a, b
  <2> QED BY <1>1, <2>1, <2>2 DEF Smaller
<1>3. CASE ~(h > cur)
  BY <1>1, <1>3 DEF BlocksToFetch
<1> QED BY <1>2, <1>3

(* A submitted batch is a batch.                                           *)
LEMMA ThisBatchType ==
    ASSUME TypeOK, pending # << >>
    PROVE  ThisBatch \in Batch
  BY DEF TypeOK, ThisBatch, Batch

(* Every step keeps the types.                                             *)
LEMMA TypeNext == TypeOK /\ RoundInv /\ [Next]_vars => TypeOK'
<1> SUFFICES ASSUME TypeOK, RoundInv, [Next]_vars PROVE TypeOK'
  OBVIOUS
<1> USE DEF roundVars, batchVars
<1>0. /\ cur \in Nat /\ got \in Nat /\ num \in Nat /\ left \in Nat /\ head \in Nat
      /\ pending \in Seq(Nat) /\ Len(pending) \in Nat
  BY RunnerAssumption, LenProperties DEF TypeOK
<1>1. CASE ChainGrows
  <2>1. head' \in StartBlock..LastBlock
    BY <1>1, RunnerAssumption DEF ChainGrows, TypeOK
  <2> QED BY <1>1, <2>1 DEF ChainGrows, TypeOK
<1>2. ASSUME NEW p \in BOOLEAN, SetPaused(p) PROVE TypeOK'
  BY <1>2 DEF SetPaused, TypeOK
<1>3. CASE Run \/ UNCHANGED vars
  BY <1>3 DEF Run, vars, TypeOK
<1>4. CASE BeginRound
  <2>1. PICK h \in {head, cur} : backlogged' = (h > cur) /\ left' = BlocksToFetch(h)
    BY <1>4 DEF BeginRound
  <2>2. left' \in Nat
    BY <1>0, <1>4, <2>1, RoundSize DEF BeginRound, RoundInv
  <2>3. backlogged' \in BOOLEAN
    BY <2>1
  <2>4. got' \in Nat
    BY <1>4 DEF BeginRound
  <2> QED BY <1>4, <2>2, <2>3, <2>4, Zenon DEF BeginRound, TypeOK
<1>5. CASE FetchBlock
  <2>1. pending' \in Seq(Nat)
    BY <1>0, <1>5, AppendProperties DEF FetchBlock
  <2>2. got' \in Nat /\ left' \in Nat
    BY <1>0, <1>5 DEF FetchBlock
  <2>3. full' \in BOOLEAN
    BY <1>5 DEF FetchBlock, TypeOK
  <2> QED BY <1>5, <2>1, <2>2, <2>3, Zenon DEF FetchBlock, TypeOK
<1>6. CASE FetchFails
  <2>1. left' \in Nat
    BY <1>6 DEF FetchFails
  <2> QED BY <1>6, <2>1, Zenon DEF FetchFails, TypeOK
<1>7. CASE FetchDone
  <2>1. cur' \in Nat
    BY <1>0, <1>7 DEF FetchDone, NextBlock
  <2>2. pc' \in {"ready", "top", "fetch", "submit"}
    BY <1>7 DEF FetchDone
  <2> QED BY <1>7, <2>1, <2>2, Zenon DEF FetchDone, TypeOK
<1>8. CASE SubmitBatch \/ SubmitFails
  <2>1. ThisBatch \in Batch /\ l1 \in Seq(Batch) /\ lost \in Seq(Batch)
    BY <1>8, ThisBatchType DEF SubmitBatch, SubmitFails, RoundInv, TypeOK, Batch
  <2>2. /\ l1' \in {l1, Append(l1, ThisBatch)}
        /\ lost' \in {lost, Append(lost, ThisBatch)}
        /\ ClearPending
    BY <1>8 DEF SubmitBatch, SubmitFails
  <2>3. l1' \in Seq(Batch) /\ lost' \in Seq(Batch)
    <3>1. Append(l1, ThisBatch) \in Seq(Batch) /\ Append(lost, ThisBatch) \in Seq(Batch)
      BY <2>1, AppendProperties
    <3> QED BY <2>1, <2>2, <3>1
  <2>4. num' \in Nat /\ pending' \in Seq(Nat)
    BY <1>0, <2>2, EmptySeq DEF ClearPending
  <2>5. pc' \in {"ready", "top", "fetch", "submit"} /\ full' \in BOOLEAN
    BY <2>2 DEF ClearPending
  <2> QED BY <2>2, <2>3, <2>4, <2>5, Zenon DEF ClearPending, TypeOK, Batch
<1> QED
  BY <1>1, <1>2, <1>3, <1>4, <1>5, <1>6, <1>7, <1>8 DEF Next, RunStep, RunFault

-----------------------------------------------------------------------------
(* The parts of the invariant, step by step.                               *)

(* A round takes what it may and leaves room for the next one.             *)
LEMMA RoundStep ==
    ASSUME TypeOK, RoundInv, [Next]_vars PROVE RoundInv'
<1> USE DEF roundVars, batchVars
<1>1. /\ cur \in Nat /\ left \in Nat /\ head \in Nat /\ pending \in Seq(Nat)
      /\ Len(pending) \in Nat /\ MaxBlocksPerBatch \in Nat \ {0}
  BY RunnerAssumption, LenProperties DEF TypeOK
<1>2. ASSUME NEW p \in BOOLEAN, SetPaused(p) PROVE RoundInv'
  BY <1>2 DEF SetPaused, RoundInv
<1>3. CASE ChainGrows \/ Run \/ UNCHANGED vars
  BY <1>3 DEF ChainGrows, Run, vars, RoundInv
<1>4. CASE BeginRound
  <2>1. PICK h \in {head, cur} : left' = BlocksToFetch(h)
    BY <1>4 DEF BeginRound
  <2>2. Len(pending) < MaxBlocksPerBatch
    BY <1>4 DEF BeginRound, RoundInv
  <2>3. Len(pending) + left' <= MaxBlocksPerBatch
    BY <1>1, <2>1, <2>2, RoundSize
  <2> QED BY <1>4, <2>3 DEF BeginRound, RoundInv
<1>5. CASE FetchBlock
  <2>1. Len(pending') = Len(pending) + 1 /\ cur + got \in Nat
    BY <1>1, <1>5, AppendProperties DEF FetchBlock, TypeOK
  <2>2. pc' = "fetch" /\ left > 0 /\ (left' = 0 \/ left' = left - 1)
    BY <1>5 DEF FetchBlock
  <2>3. Len(pending) + left <= MaxBlocksPerBatch
    BY DEF RoundInv
  <2>4. Len(pending') + left' <= MaxBlocksPerBatch
    <3>1. CASE left' = 0
      BY <1>1, <2>1, <2>2, <2>3, <3>1
    <3>2. CASE left' = left - 1
      BY <1>1, <2>1, <2>2, <2>3, <3>2
    <3> QED BY <2>2, <3>1, <3>2
  <2> QED BY <2>2, <2>4 DEF RoundInv
<1>6. CASE FetchFails
  BY <1>1, <1>6 DEF FetchFails, RoundInv
<1>7. CASE FetchDone
  <2>1. /\ left' = 0 /\ pending' = pending /\ left = 0
        /\ pc' = IF ShouldSubmit THEN "submit" ELSE "top"
    BY <1>7 DEF FetchDone
  <2>2. ShouldSubmit => pending # << >>
    BY DEF ShouldSubmit
  <2>3. ~ShouldSubmit => Len(pending) < MaxBlocksPerBatch
    BY <1>1, EmptySeq DEF ShouldSubmit
  <2> QED BY <1>1, <2>1, <2>2, <2>3 DEF RoundInv
<1>8. CASE SubmitBatch \/ SubmitFails
  <2>1. pc = "submit" /\ ClearPending
    BY <1>8 DEF SubmitBatch, SubmitFails
  <2>2. pending' = << >> /\ left' = left /\ pc' = "top" /\ left = 0
    BY <2>1 DEF ClearPending, RoundInv
  <2>3. Len(pending') = 0
    BY <2>2
  <2> QED BY <1>1, <2>2, <2>3 DEF RoundInv
<1> QED
  BY <1>2, <1>3, <1>4, <1>5, <1>6, <1>7, <1>8 DEF Next, RunStep, RunFault

(* A step fetches one more block, clears the pending ones, or neither.     *)
LEMMA FetchCases ==
    ASSUME TypeOK, RoundInv, PendingInv, [Next]_vars
    PROVE  \/ /\ pending' = pending /\ Fetched' = Fetched
              /\ num' = num /\ l1' = l1 /\ lost' = lost
           \/ /\ pending' = Append(pending, Fetched) /\ Fetched' = Fetched + 1
              /\ num' = num /\ l1' = l1 /\ lost' = lost
           \/ /\ pending # << >> /\ pending' = << >> /\ Fetched' = Fetched
              /\ num' = num + 1
              /\ \/ l1' = Append(l1, ThisBatch) /\ lost' = lost
                 \/ l1' = Append(l1, ThisBatch) /\ lost' = Append(lost, ThisBatch)
                 \/ l1' = l1 /\ lost' = Append(lost, ThisBatch)
<1> USE DEF roundVars, batchVars, Fetched
<1>1. cur \in Nat /\ got \in Nat
  BY DEF TypeOK
<1>2. ASSUME NEW p \in BOOLEAN, SetPaused(p)
      PROVE  /\ pending' = pending /\ Fetched' = Fetched
             /\ num' = num /\ l1' = l1 /\ lost' = lost
  BY <1>2 DEF SetPaused
<1>3. CASE ChainGrows \/ Run \/ UNCHANGED vars \/ FetchFails
  BY <1>3 DEF ChainGrows, Run, vars, FetchFails
<1>4. CASE BeginRound
  BY <1>1, <1>4 DEF BeginRound
<1>5. CASE FetchBlock
  BY <1>1, <1>5 DEF FetchBlock
<1>6. CASE FetchDone
  BY <1>1, <1>6 DEF FetchDone, NextBlock
<1>7. CASE SubmitBatch
  BY <1>7 DEF SubmitBatch, ClearPending, RoundInv
<1>8. CASE SubmitFails
  BY <1>8 DEF SubmitFails, ClearPending, RoundInv
<1> QED
  BY <1>2, <1>3, <1>4, <1>5, <1>6, <1>7, <1>8 DEF Next, RunStep, RunFault

(* The pending blocks stay the last ones fetched.                          *)
LEMMA PendingStep ==
    ASSUME TypeOK, RoundInv, PendingInv, [Next]_vars PROVE PendingInv'
<1>1. /\ pending \in Seq(Nat) /\ Len(pending) \in Nat /\ Fetched \in Nat
      /\ StartBlock \in Nat
  BY RunnerAssumption, LenProperties DEF TypeOK, Fetched
<1>2. /\ StartBlock + Len(pending) <= Fetched
      /\ \A j \in 1..Len(pending) : pending[j] + Len(pending) + 1 = Fetched + j
  BY DEF PendingInv
<1>3. CASE pending' = pending /\ Fetched' = Fetched
  BY <1>3 DEF PendingInv
<1>4. CASE pending' = Append(pending, Fetched) /\ Fetched' = Fetched + 1
  <2>1. /\ Len(pending') = Len(pending) + 1
        /\ \A j \in 1..Len(pending) : pending'[j] = pending[j]
        /\ pending'[Len(pending) + 1] = Fetched
    BY <1>1, <1>4, AppendProperties
  <2>2. StartBlock + Len(pending') <= Fetched'
    BY <1>1, <1>2, <1>4, <2>1
  <2>3. ASSUME NEW j \in 1..Len(pending')
        PROVE  pending'[j] + Len(pending') + 1 = Fetched' + j
    <3>1. CASE j = Len(pending) + 1
      BY <1>1, <1>4, <2>1, <3>1
    <3>2. CASE j # Len(pending) + 1
      <4>1. j \in 1..Len(pending)
        BY <1>1, <2>1, <3>2
      <4>2. pending'[j] = pending[j] /\ pending[j] + Len(pending) + 1 = Fetched + j
        BY <1>2, <2>1, <4>1
      <4>3. pending[j] \in Nat
        BY <1>1, <4>1, ElementOfSeq
      <4> QED BY <1>1, <1>4, <2>1, <4>1, <4>2, <4>3
    <3> QED BY <3>1, <3>2
  <2> QED BY <2>2, <2>3 DEF PendingInv
<1>5. CASE pending' = << >> /\ Fetched' = Fetched
  <2>1. Len(pending') = 0
    BY <1>5
  <2> QED BY <1>1, <1>2, <1>5, <2>1 DEF PendingInv
<1> QED BY <1>3, <1>4, <1>5, FetchCases

(* The batch about to be submitted continues the tiling.                   *)
LEMMA ThisBatchNext ==
    ASSUME TypeOK, PendingInv, pending # << >>
    PROVE  /\ ThisBatch \in Batch /\ Consecutive(ThisBatch)
           /\ ThisBatch.num = num
           /\ First(ThisBatch) = From /\ Last(ThisBatch) + 1 = Fetched
           /\ From \in Nat /\ StartBlock <= From
<1>1. /\ pending \in Seq(Nat) /\ Len(pending) \in Nat \ {0} /\ Fetched \in Nat
      /\ StartBlock \in Nat
  BY RunnerAssumption, EmptySeq, LenProperties DEF TypeOK, Fetched
<1>2. /\ StartBlock + Len(pending) <= Fetched
      /\ \A j \in 1..Len(pending) : pending[j] + Len(pending) + 1 = Fetched + j
  BY DEF PendingInv
<1>3. ThisBatch \in Batch /\ ThisBatch.num = num /\ ThisBatch.blocks = pending
  BY ThisBatchType DEF ThisBatch
<1>4. \A j \in 1..Len(pending) : pending[j] \in Nat
  BY <1>1, ElementOfSeq
<1>5. From \in Nat /\ From + Len(pending) = Fetched /\ StartBlock <= From
  BY <1>1, <1>2 DEF From
<1>6. 1 \in 1..Len(pending) /\ Len(pending) \in 1..Len(pending)
  BY <1>1
<1>7. pending[1] = From
  <2>1. pending[1] + Len(pending) + 1 = Fetched + 1 /\ pending[1] \in Nat
    BY <1>2, <1>4, <1>6
  <2> QED BY <1>1, <1>5, <2>1
<1>8. pending[Len(pending)] + 1 = Fetched
  <2>1. /\ pending[Len(pending)] + Len(pending) + 1 = Fetched + Len(pending)
        /\ pending[Len(pending)] \in Nat
    BY <1>2, <1>4, <1>6
  <2> QED BY <1>1, <2>1
<1>9. \A j \in 1..Len(pending) : pending[j] + 1 = From + j
  <2> TAKE j \in 1..Len(pending)
  <2>1. pending[j] + Len(pending) + 1 = Fetched + j /\ pending[j] \in Nat
    BY <1>2, <1>4
  <2> QED BY <1>1, <1>5, <2>1
<1> QED BY <1>3, <1>5, <1>7, <1>8, <1>9 DEF Consecutive, First, Last

(* Submitting adds one batch, on L1 or not.                                *)
LEMMA BatchesGrow ==
    ASSUME l1 \in Seq(Batch), lost \in Seq(Batch), NEW b \in Batch,
           \/ l1' = Append(l1, b) /\ lost' = lost
           \/ l1' = Append(l1, b) /\ lost' = Append(lost, b)
           \/ l1' = l1 /\ lost' = Append(lost, b)
    PROVE  Batches' = Batches \union {b}
<1>1. ASSUME NEW s \in Seq(Batch)
      PROVE  {Append(s, b)[k] : k \in DOMAIN Append(s, b)} =
                {s[k] : k \in DOMAIN s} \union {b}
  <2>1. /\ Len(s) \in Nat /\ DOMAIN s = 1..Len(s)
        /\ Append(s, b) \in Seq(Batch) /\ Len(Append(s, b)) = Len(s) + 1
        /\ \A k \in 1..Len(s) : Append(s, b)[k] = s[k]
        /\ Append(s, b)[Len(s) + 1] = b
    BY AppendProperties, LenProperties
  <2>2. DOMAIN Append(s, b) = 1..(Len(s) + 1)
    BY <2>1, LenProperties
  <2>3. DOMAIN Append(s, b) = (DOMAIN s) \union {Len(s) + 1}
    BY <2>1, <2>2
  <2> QED BY <2>1, <2>3
<1> DEFINE R(s) == {s[k] : k \in DOMAIN s}
<1>2. R(Append(l1, b)) = R(l1) \union {b} /\ R(Append(lost, b)) = R(lost) \union {b}
  BY <1>1, Zenon
<1>3. Batches = R(l1) \union R(lost)
  BY DEF Batches
<1>4. Batches' = R(l1') \union R(lost')
  BY DEF Batches
<1> HIDE DEF R
<1> QED BY <1>2, <1>3, <1>4

(* The batches stay a tiling of the blocks taken.                          *)
LEMMA TilingStep ==
    ASSUME TypeOK, RoundInv, PendingInv, TilingInv, [Next]_vars PROVE TilingInv'
<1>1. /\ pending \in Seq(Nat) /\ Len(pending) \in Nat /\ Fetched \in Nat
      /\ l1 \in Seq(Batch) /\ lost \in Seq(Batch) /\ num \in Nat
  BY RunnerAssumption, LenProperties DEF TypeOK, Fetched, Batch
<1>2. CASE /\ pending' = pending /\ Fetched' = Fetched
           /\ num' = num /\ l1' = l1 /\ lost' = lost
  <2>1. From' = From /\ Batches' = Batches
    BY <1>2, Zenon DEF From, Batches
  <2> QED BY <1>2, <2>1, Zenon DEF TilingInv
<1>3. CASE /\ pending' = Append(pending, Fetched) /\ Fetched' = Fetched + 1
           /\ num' = num /\ l1' = l1 /\ lost' = lost
  <2>1. Len(pending') = Len(pending) + 1
    BY <1>1, <1>3, AppendProperties
  <2>2. \A a, b \in Nat : (a + 1) - (b + 1) = a - b
    OBVIOUS
  <2>3. From' = From
    <3>1. From' = Fetched' - Len(pending')
      BY Zenon DEF From
    <3> QED BY <1>1, <1>3, <2>1, <2>2, <3>1, Zenon DEF From
  <2>4. Batches' = Batches
    BY <1>3, Zenon DEF Batches
  <2> QED BY <1>3, <2>3, <2>4, Zenon DEF TilingInv
<1>4. CASE /\ pending # << >> /\ pending' = << >> /\ Fetched' = Fetched
           /\ num' = num + 1
           /\ \/ l1' = Append(l1, ThisBatch) /\ lost' = lost
              \/ l1' = Append(l1, ThisBatch) /\ lost' = Append(lost, ThisBatch)
              \/ l1' = l1 /\ lost' = Append(lost, ThisBatch)
  <2>1. /\ ThisBatch \in Batch /\ Consecutive(ThisBatch)
        /\ ThisBatch.num = num
        /\ First(ThisBatch) = From /\ Last(ThisBatch) + 1 = Fetched
        /\ From \in Nat /\ StartBlock <= From
    BY <1>4, ThisBatchNext
  <2>2. Batches' = Batches \union {ThisBatch}
    BY <1>1, <1>4, <2>1, BatchesGrow, Zenon
  <2>3. Batches \in SUBSET Batch
    <3>1. \A k \in DOMAIN l1 : l1[k] \in Batch
      BY <1>1
    <3>2. \A k \in DOMAIN lost : lost[k] \in Batch
      BY <1>1
    <3> QED BY <3>1, <3>2 DEF Batches
  <2>4. From' = Fetched
    <3>1. From' = Fetched' - Len(pending')
      BY Zenon DEF From
    <3>2. Len(pending') = 0
      BY <1>4
    <3>3. \A a \in Nat : a - 0 = a
      OBVIOUS
    <3> QED BY <1>1, <1>4, <3>1, <3>2, <3>3, Zenon
  <2>5. Tiling(Batches \union {ThisBatch}, num + 1, Fetched)
    <3>1. Tiling(Batches \union {ThisBatch}, num + 1, Last(ThisBatch) + 1)
      BY <1>1, <2>1, <2>3, TilingExtends, Zenon DEF TilingInv
    <3> QED BY <2>1, <3>1, Zenon
  <2> QED BY <1>4, <2>2, <2>4, <2>5, Zenon DEF TilingInv
<1> QED BY <1>2, <1>3, <1>4, FetchCases, Zenon

(* L1 grows at its end, by the batch with the largest number so far.       *)
LEMMA L1Step ==
    ASSUME TypeOK, RoundInv, PendingInv, TilingInv, L1Inv, [Next]_vars PROVE L1Inv'
<1>1. CASE l1' = l1
  BY <1>1 DEF L1Inv
<1>2. CASE pending # << >> /\ l1' = Append(l1, ThisBatch)
  <2>1. /\ l1 \in Seq(Batch) /\ ThisBatch \in Batch /\ ThisBatch.num = num
        /\ ThisBatch.blocks = pending /\ num \in Nat
    BY <1>2, ThisBatchType DEF TypeOK, Batch, ThisBatch
  <2>2. /\ Len(l1) \in Nat /\ DOMAIN l1 = 1..Len(l1)
        /\ DOMAIN l1' = 1..(Len(l1) + 1)
        /\ \A k \in 1..Len(l1) : l1'[k] = l1[k]
        /\ l1'[Len(l1) + 1] = ThisBatch
    <3>1. Append(l1, ThisBatch) \in Seq(Batch)
      BY <2>1, AppendProperties
    <3>2. Len(Append(l1, ThisBatch)) = Len(l1) + 1
      BY <2>1, AppendProperties
    <3> QED BY <1>2, <2>1, <3>1, <3>2, AppendProperties, LenProperties
  <2>3. Len(pending) <= MaxBlocksPerBatch
    <3>1. Len(pending) \in Nat /\ left \in Nat /\ MaxBlocksPerBatch \in Nat
      BY RunnerAssumption, LenProperties DEF TypeOK
    <3> QED BY <3>1 DEF RoundInv
  <2>4. \A k \in 1..Len(l1) : l1[k] \in Batches /\ l1[k].num < num
    BY <2>2 DEF Batches, TilingInv, Tiling
  <2>5. ASSUME NEW i \in 1..(Len(l1) + 1)
        PROVE  Len(l1'[i].blocks) <= MaxBlocksPerBatch
    <3>1. CASE i = Len(l1) + 1
      BY <2>1, <2>2, <2>3, <3>1
    <3>2. CASE i # Len(l1) + 1
      <4>1. i \in 1..Len(l1)
        BY <2>2, <3>2
      <4> QED BY <2>2, <4>1 DEF L1Inv
    <3> QED BY <3>1, <3>2
  <2>6. ASSUME NEW i \in 1..(Len(l1) + 1), NEW j \in 1..(Len(l1) + 1), i < j
        PROVE  l1'[i].num < l1'[j].num
    <3>1. i \in 1..Len(l1) /\ l1'[i] = l1[i]
      BY <2>2, <2>6
    <3>2. CASE j = Len(l1) + 1
      BY <2>1, <2>2, <2>4, <3>1, <3>2
    <3>3. CASE j # Len(l1) + 1
      <4>1. j \in 1..Len(l1)
        BY <2>2, <3>3
      <4> QED BY <2>2, <2>6, <3>1, <4>1 DEF L1Inv
    <3> QED BY <3>2, <3>3
  <2> QED BY <2>2, <2>5, <2>6 DEF L1Inv
<1> QED BY <1>1, <1>2, FetchCases, Zenon

(* Initially the invariant holds.                                          *)
LEMMA InvInit == Init => Inv
<1> SUFFICES ASSUME Init PROVE Inv
  OBVIOUS
<1>1. TypeOK
  <2>1. /\ << >> \in Seq(Nat)
        /\ << >> \in Seq([num : Nat, blocks : Seq(Nat) \ {<< >>}])
    BY EmptySeq
  <2>2. cur \in Nat /\ num \in Nat /\ left \in Nat /\ got \in Nat
    BY RunnerAssumption DEF Init
  <2>3. pc \in {"ready", "top", "fetch", "submit"}
    BY DEF Init
  <2> QED BY <2>1, <2>2, <2>3, Zenon DEF Init, TypeOK
<1>2. Len(pending) = 0 /\ left = 0 /\ Fetched = StartBlock /\ num = 0
  BY DEF Init, Fetched
<1>3. From = StartBlock
  BY <1>2, RunnerAssumption DEF From
<1>4. Batches = {}
  BY DEF Init, Batches
<1>5. TilingInv
  BY <1>2, <1>3, <1>4, RunnerAssumption DEF TilingInv, Tiling
<1>6. PendingInv /\ RoundInv /\ L1Inv
  BY <1>2, RunnerAssumption DEF Init, PendingInv, RoundInv, L1Inv
<1> QED BY <1>1, <1>5, <1>6 DEF Inv

(* The parts together are inductive.                                       *)
LEMMA RunnerInvariant == Spec => []Inv
<1>1. Inv /\ [Next]_vars => Inv'
  BY TypeNext, RoundStep, PendingStep, TilingStep, L1Step DEF Inv
<1> QED BY InvInit, <1>1, PTL DEF Spec

-----------------------------------------------------------------------------
(* The theorems.                                                           *)

(* The blocks of a sequence of batches.                                    *)
LEMMA BlocksOfBatches ==
    ASSUME NEW s \in Seq(Batch), \A k \in DOMAIN s : Consecutive(s[k]), NEW m
    PROVE  m \in BlocksOf(s) <=> \E k \in DOMAIN s : m \in First(s[k])..Last(s[k])
<1>1. \A k \in DOMAIN s : s[k] \in Batch
  OBVIOUS
<1>2. \A k \in DOMAIN s :
         {s[k].blocks[j] : j \in DOMAIN s[k].blocks} = First(s[k])..Last(s[k])
  BY <1>1, BatchRange
<1> QED BY <1>2 DEF BlocksOf

(* The pending blocks are the numbers from From on.                        *)
LEMMA PendingRange ==
    ASSUME TypeOK, PendingInv
    PROVE  /\ From \in Nat /\ StartBlock <= From /\ From <= Fetched
           /\ {pending[i] : i \in DOMAIN pending} = From..(Fetched - 1)
<1>1. /\ pending \in Seq(Nat) /\ Len(pending) \in Nat /\ Fetched \in Nat
      /\ StartBlock \in Nat /\ DOMAIN pending = 1..Len(pending)
  BY RunnerAssumption, LenProperties DEF TypeOK, Fetched
<1>2. /\ StartBlock + Len(pending) <= Fetched
      /\ \A j \in 1..Len(pending) : pending[j] + Len(pending) + 1 = Fetched + j
  BY DEF PendingInv
<1>3. \A j \in 1..Len(pending) : pending[j] \in Nat
  BY <1>1, ElementOfSeq
<1>4. From \in Nat /\ From + Len(pending) = Fetched /\ StartBlock <= From
  BY <1>1, <1>2 DEF From
<1>5. ASSUME NEW j \in 1..Len(pending)
      PROVE  pending[j] \in From..(Fetched - 1)
  <2>1. pending[j] + Len(pending) + 1 = Fetched + j /\ pending[j] \in Nat
    BY <1>2, <1>3
  <2> QED BY <1>1, <1>4, <2>1
<1>6. ASSUME NEW m \in From..(Fetched - 1)
      PROVE  \E j \in 1..Len(pending) : pending[j] = m
  <2>1. m + 1 - From \in 1..Len(pending)
    BY <1>1, <1>4
  <2>2. /\ pending[m + 1 - From] + Len(pending) + 1 = Fetched + (m + 1 - From)
        /\ pending[m + 1 - From] \in Nat
    BY <1>2, <1>3, <2>1
  <2>3. pending[m + 1 - From] = m
    BY <1>1, <1>4, <2>2
  <2> QED BY <2>1, <2>3
<1>7. From <= Fetched
  BY <1>1, <1>4
<1> QED BY <1>1, <1>4, <1>5, <1>6, <1>7

(* No batch is empty or too large, and on L1, in the batches that failed   *)
(* and in the pending blocks no block is missing, doubled or out of order. *)
THEOREM BatchesAreSound == Spec => []BatchesSound
<1>1. Inv => BatchesSound
  <2> SUFFICES ASSUME Inv PROVE BatchesSound
    OBVIOUS
  <2>1. TypeOK /\ PendingInv /\ RoundInv /\ Tiling(Batches, num, From) /\ L1Inv
    BY DEF Inv, TilingInv
  <2>2. /\ l1 \in Seq(Batch) /\ lost \in Seq(Batch)
        /\ \A k \in DOMAIN l1 : l1[k] \in Batch /\ l1[k] \in Batches
        /\ \A k \in DOMAIN lost : lost[k] \in Batch /\ lost[k] \in Batches
        /\ StartBlock \in Nat
    <3>1. l1 \in Seq(Batch) /\ lost \in Seq(Batch) /\ StartBlock \in Nat
      BY <2>1, RunnerAssumption DEF TypeOK, Batch
    <3> QED BY <3>1 DEF Batches
  <2>3. \A b \in Batches : b \in Batch /\ Consecutive(b)
    BY <2>1, <2>2 DEF Batches, Tiling
  <2>4. /\ From \in Nat /\ StartBlock <= From /\ From <= Fetched /\ Fetched \in Nat
        /\ {pending[i] : i \in DOMAIN pending} = From..(Fetched - 1)
    BY <2>1, PendingRange DEF TypeOK, Fetched
  <2>5. \A m : m \in BlocksOf(l1) \union BlocksOf(lost)
                  <=> \E b \in Batches : m \in First(b)..Last(b)
    <3>1. \A k \in DOMAIN l1 : Consecutive(l1[k])
      BY <2>2, <2>3
    <3>2. \A k \in DOMAIN lost : Consecutive(lost[k])
      BY <2>2, <2>3
    <3>3. \A m : m \in BlocksOf(l1) <=> \E k \in DOMAIN l1 : m \in First(l1[k])..Last(l1[k])
      BY <2>2, <3>1, BlocksOfBatches
    <3>4. \A m : m \in BlocksOf(lost) <=> \E k \in DOMAIN lost : m \in First(lost[k])..Last(lost[k])
      BY <2>2, <3>2, BlocksOfBatches
    <3> QED BY <3>3, <3>4, Zenon DEF Batches
  <2>6. BlocksOf(l1) \union BlocksOf(lost) = StartBlock..(From - 1)
    <3>1. ASSUME NEW b \in Batches, NEW m \in First(b)..Last(b)
          PROVE  m \in StartBlock..(From - 1)
      <4>1. First(b) \in Nat /\ Last(b) \in Nat
        BY <2>3, BatchEnds
      <4>2. StartBlock <= First(b) /\ Last(b) < From
        BY <2>1 DEF Tiling
      <4> QED BY <2>2, <2>4, <4>1, <4>2
    <3>2. ASSUME NEW m \in StartBlock..(From - 1)
          PROVE  \E b \in Batches : m \in First(b)..Last(b)
      <4>1. m \in Nat /\ StartBlock <= m /\ m < From
        BY <2>2, <2>4
      <4>2. PICK b \in Batches : First(b) <= m /\ m <= Last(b)
        BY <2>1, <4>1 DEF Tiling
      <4>3. First(b) \in Nat /\ Last(b) \in Nat
        BY <2>3, BatchEnds
      <4> QED BY <4>1, <4>2, <4>3
    <3> QED BY <2>5, <3>1, <3>2
  <2>7. BlocksOf(l1) \union BlocksOf(lost)
          \union {pending[i] : i \in DOMAIN pending} = StartBlock..(Fetched - 1)
    <3>1. (StartBlock..(From - 1)) \union (From..(Fetched - 1)) = StartBlock..(Fetched - 1)
      BY <2>2, <2>4
    <3> QED BY <2>4, <2>6, <3>1
  <2>8. ASSUME NEW i \in DOMAIN l1, NEW j \in DOMAIN l1[i].blocks,
               NEW k \in DOMAIN l1[i].blocks, j < k
        PROVE  l1[i].blocks[j] < l1[i].blocks[k]
    <3>1. l1[i] \in Batch /\ Consecutive(l1[i])
      BY <2>2, <2>3
    <3>2. DOMAIN l1[i].blocks = 1..Len(l1[i].blocks)
      BY <3>1, LenProperties DEF Batch
    <3>3. /\ l1[i].blocks[j] + 1 = First(l1[i]) + j /\ l1[i].blocks[j] \in Nat
          /\ l1[i].blocks[k] + 1 = First(l1[i]) + k /\ l1[i].blocks[k] \in Nat
          /\ First(l1[i]) \in Nat /\ j \in Nat /\ k \in Nat
      BY <3>1, <3>2, BatchEnds DEF Consecutive
    <3> QED BY <2>8, <3>3
  <2>9. ASSUME NEW i \in DOMAIN l1, NEW j \in DOMAIN l1, i < j
        PROVE  /\ l1[i].num < l1[j].num
               /\ l1[i].blocks[Len(l1[i].blocks)] < l1[j].blocks[1]
    <3>1. l1[i].num < l1[j].num
      BY <2>1, <2>9 DEF L1Inv
    <3>2. Last(l1[i]) < First(l1[j])
      BY <2>1, <2>2, <3>1 DEF Tiling
    <3> QED BY <3>1, <3>2 DEF First, Last
  <2>10. BatchSizeBounded
    BY <2>1 DEF RoundInv, L1Inv, BatchSizeBounded
  <2>11. BlockAccounting
    BY <2>7, <2>8, <2>9, Zenon DEF BlockAccounting
  <2> QED BY <2>1, <2>10, <2>11 DEF BatchesSound
<1> QED BY RunnerInvariant, <1>1, PTL

-----------------------------------------------------------------------------
(* The refinement.                                                         *)

(* The batch of B with the number before i.                                *)
Numbered(B, i) == CHOOSE b \in B : b.num = i - 1

EntryOf(b) == [num |-> b.num, first |-> First(b), last |-> Last(b)]

LogOf(B, n) == [i \in 1..n |-> EntryOf(Numbered(B, i))]

(* In a tiling every number below n names exactly one batch.               *)
LEMMA NumberedUnique ==
    ASSUME NEW B \in SUBSET Batch, NEW n \in Nat, NEW f, Tiling(B, n, f),
           NEW i \in 1..n
    PROVE  /\ Numbered(B, i) \in B /\ Numbered(B, i).num = i - 1
           /\ \A b \in B : b.num = i - 1 => b = Numbered(B, i)
<1>1. i - 1 \in Nat /\ i - 1 < n
  OBVIOUS
<1>2. \E b \in B : b.num = i - 1
  BY <1>1 DEF Tiling
<1>3. Numbered(B, i) \in B /\ Numbered(B, i).num = i - 1
  BY <1>2 DEF Numbered
<1> QED BY <1>3 DEF Tiling

(* The log of a tiling is a sequence of n entries.                         *)
LEMMA LogIsSeq ==
    ASSUME NEW B, NEW n \in Nat
    PROVE  /\ LogOf(B, n) \in Seq({EntryOf(Numbered(B, i)) : i \in 1..n})
           /\ Len(LogOf(B, n)) = n
           /\ \A i \in 1..n : LogOf(B, n)[i] = EntryOf(Numbered(B, i))
<1> DEFINE E == {EntryOf(Numbered(B, i)) : i \in 1..n}
<1>1. LogOf(B, n) \in [1..n -> E]
  BY DEF LogOf
<1>2. LogOf(B, n) \in Seq(E)
  BY <1>1, SeqDef
<1>3. Len(LogOf(B, n)) = n
  BY <1>1, <1>2, LenProperties DEF LogOf
<1> QED BY <1>2, <1>3 DEF LogOf

(* t is s with one entry more, which continues s.                          *)
OneMore(s, t) ==
    /\ Len(t) = Len(s) + 1
    /\ SubSeq(t, 1, Len(s)) = s
    /\ t[Len(t)].first <= t[Len(t)].last
    /\ s # << >> => /\ t[Len(t)].num = s[Len(s)].num + 1
                    /\ t[Len(t)].first = s[Len(s)].last + 1

(* Adding the batch with the next number appends its entry to the log.     *)
LEMMA LogExtends ==
    ASSUME NEW B \in SUBSET Batch, NEW n \in Nat, NEW f \in Nat, Tiling(B, n, f),
           NEW b \in Batch, Consecutive(b), b.num = n, First(b) = f, StartBlock <= f,
           NEW s, s = LogOf(B, n), NEW t, t = LogOf(B \union {b}, n + 1)
    PROVE  OneMore(s, t)
<1> DEFINE C == B \union {b}
<1>1. C \in SUBSET Batch /\ Tiling(C, n + 1, Last(b) + 1)
  BY TilingExtends
<1>2. \A i \in 1..n : Numbered(C, i) = Numbered(B, i)
  <2> TAKE i \in 1..n
  <2>1. Numbered(B, i) \in B /\ Numbered(B, i).num = i - 1
    BY NumberedUnique
  <2>2. i \in 1..(n + 1)
    OBVIOUS
  <2>3. \A c \in C : c.num = i - 1 => c = Numbered(C, i)
    BY <1>1, <2>2, NumberedUnique
  <2> QED BY <2>1, <2>3
<1>3. Numbered(C, n + 1) = b
  <2>1. n + 1 \in 1..(n + 1) /\ (n + 1) - 1 = n
    OBVIOUS
  <2>2. \A c \in C : c.num = (n + 1) - 1 => c = Numbered(C, n + 1)
    BY <1>1, <2>1, NumberedUnique
  <2> QED BY <2>1, <2>2
<1>4. /\ Len(s) = n /\ \A i \in 1..n : s[i] = EntryOf(Numbered(B, i))
  BY LogIsSeq
<1>5. /\ Len(t) = n + 1 /\ \A i \in 1..(n + 1) : t[i] = EntryOf(Numbered(C, i))
      /\ t \in Seq({EntryOf(Numbered(C, i)) : i \in 1..(n + 1)})
  <2>1. n + 1 \in Nat /\ t = LogOf(C, n + 1)
    OBVIOUS
  <2> HIDE DEF C
  <2> QED BY <2>1, LogIsSeq
<1> HIDE DEF C
<1>13. \A i \in 1..n : i \in 1..(n + 1)
  OBVIOUS
<1>6. \A i \in 1..n : t[i] = s[i]
  BY <1>2, <1>4, <1>5, <1>13, Zenon
<1>7. SubSeq(t, 1, Len(s)) = s
  <2> DEFINE E == {EntryOf(Numbered(C, i)) : i \in 1..(n + 1)}
  <2>1. \A i \in 1..n : t[i] \in E
    BY <1>5, <1>13, Zenon
  <2>2. s \in Seq(E)
    <3>1. \A i \in 1..n : EntryOf(Numbered(B, i)) \in E
      BY <1>2
    <3>2. s \in [1..n -> E]
      BY <3>1 DEF LogOf
    <3> QED BY <3>2, SeqDef
  <2>3. t \in Seq(E)
    BY <1>5
  <2> HIDE DEF E
  <2>4. /\ SubSeq(t, 1, n) \in Seq(E)
        /\ Len(SubSeq(t, 1, n)) = IF 1 <= n THEN n - 1 + 1 ELSE 0
        /\ \A i \in 1..(n - 1 + 1) : SubSeq(t, 1, n)[i] = t[1 + i - 1]
    <3>1. 1 \in Int /\ n \in Int
      OBVIOUS
    <3> QED BY <2>1, <3>1, SubSeqProperties
  <2>5. /\ Len(SubSeq(t, 1, n)) = n
        /\ \A i \in 1..n : SubSeq(t, 1, n)[i] = s[i]
    BY <1>6, <2>4
  <2> QED BY <1>4, <2>2, <2>4, <2>5, SeqEqual
<1>8. t[Len(t)] = EntryOf(b)
  <2>1. n + 1 \in 1..(n + 1)
    OBVIOUS
  <2> QED BY <1>3, <1>5, <2>1
<1>9. First(b) <= Last(b)
  BY BatchEnds
<1>10. ASSUME s # << >>
       PROVE  b.num = s[Len(s)].num + 1 /\ First(b) = s[Len(s)].last + 1
  <2>1. n \in 1..n
    <3>1. Len(s) # 0
      BY <1>4, <1>10, EmptySeq
    <3> QED BY <1>4, <3>1
  <2> DEFINE c == Numbered(B, n)
  <2>2. c \in B /\ c.num = n - 1
    BY <2>1, NumberedUnique
  <2>3. s[Len(s)] = EntryOf(c)
    BY <1>4, <2>1
  <2> HIDE DEF c
  <2>4. c.num + 1 = n
    BY <2>1, <2>2
  <2>5. Last(c) + 1 = f
    BY <2>2, <2>4 DEF Tiling
  <2> QED BY <2>3, <2>4, <2>5 DEF EntryOf
<1>11. /\ t[Len(t)].first <= t[Len(t)].last
       /\ s # << >> => /\ t[Len(t)].num = s[Len(s)].num + 1
                       /\ t[Len(t)].first = s[Len(s)].last + 1
  BY <1>8, <1>9, <1>10 DEF EntryOf
<1>12. Len(t) = Len(s) + 1
  BY <1>4, <1>5
<1> QED BY <1>7, <1>11, <1>12 DEF OneMore

(* What the runner hands to the sink is the abstract ordered batch log,    *)
(* whether or not a submission fails and whether or not it was included.   *)
THEOREM BatchLogRefinement == Spec => ImplementsBatchLog
<1> DEFINE log == [i \in 1..num |-> LET blocks == Submission(i).blocks
                             IN  [num   |-> Submission(i).num,
                                  first |-> blocks[1],
                                  last  |-> blocks[Len(blocks)]]]
<1>1. log = LogOf(Batches, num)
  BY DEF LogOf, EntryOf, Numbered, Submission, Batches, First, Last
<1>2. log' = LogOf(Batches, num)'
  BY DEF LogOf, EntryOf, Numbered, Submission, Batches, First, Last
<1>3. Init => BatchLog!Init
  <2> SUFFICES ASSUME Init PROVE log = << >>
    BY DEF BatchLog!Init
  <2> QED BY DEF Init
<1>4. Inv /\ [Next]_vars => [BatchLog!Post]_log
  <2> SUFFICES ASSUME Inv, [Next]_vars PROVE [BatchLog!Post]_log
    OBVIOUS
  <2>1. TypeOK /\ PendingInv /\ RoundInv /\ Tiling(Batches, num, From)
    BY DEF Inv, TilingInv
  <2>2. l1 \in Seq(Batch) /\ lost \in Seq(Batch) /\ num \in Nat
    BY <2>1 DEF TypeOK, Batch
  <2>3. CASE num' = num /\ l1' = l1 /\ lost' = lost
    BY <2>3 DEF Submission
  <2>4. CASE /\ pending # << >> /\ num' = num + 1
             /\ \/ l1' = Append(l1, ThisBatch) /\ lost' = lost
                \/ l1' = Append(l1, ThisBatch) /\ lost' = Append(lost, ThisBatch)
                \/ l1' = l1 /\ lost' = Append(lost, ThisBatch)
    <3>1. /\ ThisBatch \in Batch /\ Consecutive(ThisBatch)
          /\ ThisBatch.num = num /\ First(ThisBatch) = From
          /\ From \in Nat /\ StartBlock <= From
      BY <2>1, <2>4, ThisBatchNext
    <3>2. Batches' = Batches \union {ThisBatch}
      BY <2>2, <2>4, <3>1, BatchesGrow, Zenon
    <3>3. Batches \in SUBSET Batch
      BY <2>2 DEF Batches
    <3>4. log' = LogOf(Batches \union {ThisBatch}, num + 1)
      <4>1. LogOf(Batches, num)' = LogOf(Batches', num')
        BY DEF LogOf, EntryOf, Numbered, First, Last
      <4> QED BY <1>2, <2>4, <3>2, <4>1, Zenon
    <3> HIDE DEF log
    <3>5. OneMore(log, log')
      <4>1. \A B \in SUBSET Batch, b \in Batch, n, f \in Nat :
               /\ Tiling(B, n, f) /\ Consecutive(b) /\ b.num = n
               /\ First(b) = f /\ StartBlock <= f
               => OneMore(LogOf(B, n), LogOf(B \union {b}, n + 1))
        BY LogExtends
      <4>2. OneMore(LogOf(Batches, num), LogOf(Batches \union {ThisBatch}, num + 1))
        BY <2>1, <2>2, <3>1, <3>3, <4>1
      <4> QED BY <1>1, <3>4, <4>2, Zenon
    <3>6. BatchLog!Continues(log, log'[Len(log')])
      BY <3>5, Zenon DEF BatchLog!Continues, OneMore
    <3>7. BatchLog!Post
      BY <3>5, <3>6, Zenon DEF BatchLog!Post, OneMore, log
    <3> QED BY <3>7
  <2> QED BY <2>1, <2>3, <2>4, FetchCases, Zenon
<1> QED BY RunnerInvariant, <1>3, <1>4, PTL
        DEF Spec, ImplementsBatchLog, BatchLog!Spec
=============================================================================
