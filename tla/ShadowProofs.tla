---------------------------- MODULE ShadowProofs ----------------------------
(***************************************************************************)
(* Proofs about the shadow binary, for every chain, batch size and number  *)
(* of failures and keys: what its derivation task executes is what its     *)
(* batch task posted, in order, and the screen shows what the two did.     *)
(***************************************************************************)
EXTENDS Shadow, TLAPS, SequenceTheorems, FiniteSetTheorems

-----------------------------------------------------------------------------
(* The inductive invariant.                                                *)

Batch == [num : Nat, blocks : Seq(Nat) \ {<< >>}]

First(b) == b.blocks[1]
Last(b)  == b.blocks[Len(b.blocks)]

Consecutive(b) ==
    \A j \in 1..Len(b.blocks) : b.blocks[j] + 1 = First(b) + j

(* The batches of L carry numbers below n and blocks below f, both in      *)
(* order.                                                                  *)
Ordered(L, n, f) ==
    /\ \A i \in 1..Len(L) : /\ Consecutive(L[i]) /\ L[i].num < n
                            /\ 1 <= First(L[i]) /\ Last(L[i]) < f
    /\ \A i, j \in 1..Len(L) : i < j =>
          L[i].num < L[j].num /\ Last(L[i]) < First(L[j])

(* The last block of the first k batches of L.                             *)
End(L, k) == IF k = 0 THEN 0 ELSE Last(L[k])

(* The batches of L cut the blocks from 1 to f - 1 into ranges.            *)
Gapless(L, f) ==
    /\ \A k \in 1..Len(L) : First(L[k]) = End(L, k - 1) + 1
    /\ End(L, Len(L)) + 1 = f

(* The first block that is in no batch yet.                                *)
From == B!Fetched - Len(pending)

Types ==
    /\ cur \in Nat /\ got \in Nat /\ num \in Nat /\ pending \in Seq(Nat)
    /\ pc = "submit" => pending # << >>
    /\ l1 \in Seq(Batch) /\ lost \in Seq(Batch)
    /\ read \in 0..Len(l1) /\ dpc \in {"idle", "execute"} /\ done \in Nat
    /\ lastDerived \in Nat /\ executed \in Seq(Nat) /\ recorded \subseteq Nat

(* The batch task: the pending blocks are the ones fetched last, and the   *)
(* batches on L1 are in order, without a gap unless a submission failed.   *)
PostInv ==
    /\ 1 + Len(pending) <= B!Fetched
    /\ \A j \in 1..Len(pending) : pending[j] + Len(pending) + 1 = B!Fetched + j
    /\ Ordered(l1, num, From)
    /\ lost = << >> => Gapless(l1, From)

(* The derivation task: what is recorded was read, and is not the batch it *)
(* is at; so no batch on L1 is ever skipped.                               *)
ReadInv ==
    /\ dpc = "execute" => read > 0 /\ done <= Len(l1[read].blocks)
    /\ \A n \in recorded : \E k \in 1..read : l1[k].num = n
    /\ dpc = "execute" => l1[read].num \notin recorded
    /\ lastDerived # 0 => read > 0 /\ lastDerived <= l1[read].num

(* Every batch before the current one was derived.                         *)
NoneGivenUp == \A k \in 1..(read - 1) : l1[k].num \in recorded

(* What is executed is below what comes next, and exactly that as long as  *)
(* nothing failed.                                                         *)
ExecInv ==
    /\ \A i \in 1..(Len(executed) - 1) : executed[i] < executed[i + 1]
    /\ \A i \in 1..Len(executed) : \E k \in 1..Len(l1) :
          \E j \in 1..Len(l1[k].blocks) : executed[i] = l1[k].blocks[j]
    /\ dpc = "execute" =>
          \A i \in 1..Len(executed) : executed[i] < First(l1[read]) + done
    /\ dpc = "idle" => \A i \in 1..Len(executed) : executed[i] <= End(l1, read)
    /\ lost = << >> /\ NoneGivenUp =>
          /\ \A i \in 1..Len(executed) : executed[i] = i
          /\ dpc = "execute" => Len(executed) + 1 = First(l1[read]) + done
          /\ dpc = "idle" /\ (read > 0 => l1[read].num \in recorded) =>
                Len(executed) = End(l1, read)

Inv == Types /\ PostInv /\ ReadInv /\ ExecInv

-----------------------------------------------------------------------------
(* Lemmas on batches and on what a step does.                              *)

(* The ends of a batch of consecutive blocks.                              *)
LEMMA BatchEnds ==
    ASSUME NEW b \in Batch, Consecutive(b)
    PROVE  /\ b.num \in Nat /\ Len(b.blocks) \in Nat \ {0}
           /\ First(b) \in Nat /\ Last(b) \in Nat
           /\ Last(b) + 1 = First(b) + Len(b.blocks)
           /\ First(b) <= Last(b)
           /\ \A j \in 1..Len(b.blocks) : b.blocks[j] \in Nat
<1>1. b.num \in Nat /\ b.blocks \in Seq(Nat) /\ b.blocks # << >>
  BY DEF Batch
<1>2. Len(b.blocks) \in Nat \ {0}
  BY <1>1, EmptySeq, LenProperties
<1>3. \A j \in 1..Len(b.blocks) : b.blocks[j] \in Nat
  BY <1>1, ElementOfSeq
<1>4. 1 \in 1..Len(b.blocks) /\ Len(b.blocks) \in 1..Len(b.blocks)
  BY <1>2
<1>5. First(b) \in Nat /\ Last(b) \in Nat
  BY <1>3, <1>4 DEF First, Last
<1>6. Last(b) + 1 = First(b) + Len(b.blocks)
  BY <1>4 DEF Consecutive, Last
<1>7. First(b) <= Last(b)
  BY <1>2, <1>5, <1>6
<1> QED BY <1>1, <1>2, <1>3, <1>5, <1>6, <1>7

(* The batches on L1 have what BatchEnds says of them.                     *)
LEMMA L1Batches ==
    ASSUME Types, PostInv
    PROVE  /\ Len(l1) \in Nat /\ DOMAIN l1 = 1..Len(l1)
           /\ \A k \in 1..Len(l1) :
                /\ l1[k] \in Batch /\ l1[k].num \in Nat
                /\ Len(l1[k].blocks) \in Nat \ {0}
                /\ First(l1[k]) \in Nat /\ Last(l1[k]) \in Nat
                /\ Last(l1[k]) + 1 = First(l1[k]) + Len(l1[k].blocks)
                /\ 1 <= First(l1[k]) /\ First(l1[k]) <= Last(l1[k])
                /\ \A j \in 1..Len(l1[k].blocks) :
                      l1[k].blocks[j] \in Nat /\ l1[k].blocks[j] + 1 = First(l1[k]) + j
           /\ \A i, k \in 1..Len(l1) : i < k =>
                l1[i].num < l1[k].num /\ Last(l1[i]) < First(l1[k])
<1>1. l1 \in Seq(Batch) /\ Len(l1) \in Nat /\ DOMAIN l1 = 1..Len(l1)
  BY LenProperties DEF Types
<1>2. \A k \in 1..Len(l1) : l1[k] \in Batch
  BY <1>1, ElementOfSeq
<1>3. /\ \A k \in 1..Len(l1) : Consecutive(l1[k]) /\ 1 <= First(l1[k])
      /\ \A i, k \in 1..Len(l1) : i < k =>
            l1[i].num < l1[k].num /\ Last(l1[i]) < First(l1[k])
  BY DEF PostInv, Ordered
<1>4. ASSUME NEW k \in 1..Len(l1)
      PROVE  /\ l1[k] \in Batch /\ l1[k].num \in Nat
             /\ Len(l1[k].blocks) \in Nat \ {0}
             /\ First(l1[k]) \in Nat /\ Last(l1[k]) \in Nat
             /\ Last(l1[k]) + 1 = First(l1[k]) + Len(l1[k].blocks)
             /\ 1 <= First(l1[k]) /\ First(l1[k]) <= Last(l1[k])
             /\ \A j \in 1..Len(l1[k].blocks) :
                   l1[k].blocks[j] \in Nat /\ l1[k].blocks[j] + 1 = First(l1[k]) + j
  <2>1. /\ l1[k].num \in Nat /\ Len(l1[k].blocks) \in Nat \ {0}
        /\ First(l1[k]) \in Nat /\ Last(l1[k]) \in Nat
        /\ Last(l1[k]) + 1 = First(l1[k]) + Len(l1[k].blocks)
        /\ First(l1[k]) <= Last(l1[k])
        /\ \A j \in 1..Len(l1[k].blocks) : l1[k].blocks[j] \in Nat
    BY <1>2, <1>3, BatchEnds
  <2> QED BY <1>2, <1>3, <2>1 DEF Consecutive
<1> QED BY <1>1, <1>3, <1>4

derivation == <<read, dpc, done, lastDerived, executed, recorded>>

(* A step of the batch task fetches one more block or clears the pending   *)
(* ones, and leaves the derivation task alone.                             *)
Fetches ==
    /\ pending' = Append(pending, B!Fetched) /\ B!Fetched' = B!Fetched + 1
    /\ UNCHANGED <<num, l1, lost, derivation>>

Clears ==
    /\ pending # << >> /\ pending' = << >> /\ B!Fetched' = B!Fetched
    /\ num' = num + 1
    /\ \/ l1' = Append(l1, B!ThisBatch) /\ lost' = lost
       \/ l1' \in {l1, Append(l1, B!ThisBatch)} /\ lost' = Append(lost, B!ThisBatch)
    /\ UNCHANGED derivation

KeepsBatch ==
    pending' = pending /\ B!Fetched' = B!Fetched /\ UNCHANGED <<num, l1, lost>>

Derives == KeepsBatch /\ (D!TickStep \/ D!DeriveFails)

(* What a step does to the batches and to what is executed.                *)
LEMMA StepCases ==
    ASSUME Types, [Next]_vars
    PROVE  \/ Fetches \/ Clears \/ Derives
           \/ KeepsBatch /\ UNCHANGED derivation
<1> USE DEF batchOwn, runnerOwn, uiVars, derivation
<1>1. cur \in Nat /\ got \in Nat
  BY DEF Types
<1>2. CASE ChainGrows
  BY <1>2 DEF ChainGrows, B!ChainGrows, B!Fetched, B!batchVars, B!roundVars, KeepsBatch
<1>3. CASE BatchTaskLocks
  BY <1>3 DEF BatchTaskLocks, B!Run, B!Fetched, B!batchVars, B!roundVars, KeepsBatch
<1>4. CASE BatchTaskFetches
  <2>1. UNCHANGED derivation
    BY <1>4 DEF BatchTaskFetches, BatchTaskRuns
  <2>2. CASE B!BeginRound
    BY <1>1, <2>1, <2>2 DEF B!BeginRound, B!Fetched, B!batchVars, KeepsBatch
  <2>3. CASE B!FetchBlock
    BY <1>1, <2>1, <2>3 DEF B!FetchBlock, B!Fetched, Fetches
  <2>4. CASE B!FetchDone
    BY <1>1, <2>1, <2>4 DEF B!FetchDone, B!NextBlock, B!Fetched, B!batchVars, B!roundVars,
                            KeepsBatch
  <2>5. CASE B!FetchFails
    BY <2>1, <2>5 DEF B!FetchFails, B!Fetched, B!batchVars, KeepsBatch
  <2> QED BY <1>4, <2>2, <2>3, <2>4, <2>5 DEF BatchTaskFetches
<1>5. CASE Submits
  BY <1>5 DEF Submits, BatchTaskRuns, B!SubmitBatch, B!ClearPending, B!Fetched, Types, Clears
<1>6. CASE SubmitFails
  BY <1>6 DEF SubmitFails, BatchTaskRuns, B!SubmitFails, B!ClearPending, B!Fetched, Types, Clears
<1>7. CASE OnBatchSubmitted \/ DerivationLocks \/ SourceErrs \/ DerivationIdles \/ ReportsDerived
           \/ ReportsError \/ PressPause \/ PressReset \/ UILocksBatch
  BY <1>7 DEF OnBatchSubmitted, DerivationLocks, SourceErrs, D!SourceFails, D!AfterError,
              D!checkpointVars, DerivationIdles, ReportsDerived,
              ReportsError, PressPause, PressReset, UILocksBatch, KeepsBatch, B!Fetched
<1>8. CASE DerivationTicks
  <2>1. D!TickStep \/ D!DeriveFails
    BY <1>8 DEF DerivationTicks
  <2>2. l1' = l1
    BY <2>1 DEF D!TickStep, D!DeriveFails, D!SkipBatch, D!BeginBatch, D!NextBatch,
                D!ExecuteBlock, D!RecordBatch
  <2> QED BY <1>8, <2>1, <2>2 DEF DerivationTicks, KeepsBatch, B!Fetched, Derives
<1>9. CASE UISetsRunners
  BY <1>9 DEF UISetsRunners, D!SetPaused, D!checkpointVars, B!SetPaused, B!Fetched,
              B!batchVars, B!roundVars, KeepsBatch
<1>10. CASE UNCHANGED vars
  BY <1>10 DEF vars, KeepsBatch, B!Fetched
<1> QED
  BY <1>2, <1>3, <1>4, <1>5, <1>6, <1>7, <1>8, <1>9, <1>10
  DEF Next, BatchTask, DerivationTask, UITask

-----------------------------------------------------------------------------
(* The batch task.                                                         *)

(* A batch that takes the next number and the next blocks keeps the order, *)
(* and leaves no gap where there was none.                                 *)
LEMMA OrderedGrows ==
    ASSUME NEW L \in Seq(Batch), NEW n \in Nat, NEW f \in Nat, Ordered(L, n, f), 1 <= f,
           NEW b \in Batch, Consecutive(b), b.num = n, First(b) = f,
           NEW M, M = Append(L, b)
    PROVE  /\ Ordered(M, n + 1, Last(b) + 1)
           /\ Gapless(L, f) => Gapless(M, Last(b) + 1)
<1>1. /\ Len(L) \in Nat /\ Len(M) = Len(L) + 1
      /\ \A k \in 1..Len(L) : M[k] = L[k]
      /\ M[Len(L) + 1] = b
  BY AppendProperties, LenProperties
<1>2. First(b) \in Nat /\ Last(b) \in Nat /\ f <= Last(b)
  BY BatchEnds
<1>3. \A k \in 1..Len(L) : /\ Consecutive(L[k]) /\ L[k].num < n
                           /\ 1 <= First(L[k]) /\ Last(L[k]) < f
  BY DEF Ordered
<1>4. \A k \in 1..Len(L) : L[k].num \in Nat /\ First(L[k]) \in Nat /\ Last(L[k]) \in Nat
  <2>1. \A k \in 1..Len(L) : L[k] \in Batch
    BY ElementOfSeq
  <2> QED BY <1>3, <2>1, BatchEnds
<1>5. \A k \in 1..Len(M) : k = Len(L) + 1 \/ k \in 1..Len(L)
  BY <1>1
<1>6. ASSUME NEW k \in 1..Len(M)
      PROVE  /\ Consecutive(M[k]) /\ M[k].num < n + 1
             /\ 1 <= First(M[k]) /\ Last(M[k]) < Last(b) + 1
  <2>1. CASE k = Len(L) + 1
    BY <1>1, <1>2, <2>1
  <2>2. CASE k \in 1..Len(L)
    BY <1>1, <1>2, <1>3, <1>4, <2>2
  <2> QED BY <1>5, <2>1, <2>2
<1>7. ASSUME NEW i \in 1..Len(M), NEW k \in 1..Len(M), i < k
      PROVE  M[i].num < M[k].num /\ Last(M[i]) < First(M[k])
  <2>1. i \in 1..Len(L)
    BY <1>1, <1>7
  <2>2. CASE k = Len(L) + 1
    BY <1>1, <1>3, <2>1, <2>2
  <2>3. CASE k \in 1..Len(L)
    BY <1>1, <1>7, <2>1, <2>3 DEF Ordered
  <2> QED BY <1>5, <2>2, <2>3
<1>8. Ordered(M, n + 1, Last(b) + 1)
  BY <1>6, <1>7 DEF Ordered
<1>9. ASSUME Gapless(L, f) PROVE Gapless(M, Last(b) + 1)
  <2>1. \A k \in 0..Len(L) : End(M, k) = End(L, k)
    BY <1>1 DEF End
  <2>2. End(L, Len(L)) + 1 = f /\ \A k \in 1..Len(L) : First(L[k]) = End(L, k - 1) + 1
    BY <1>9 DEF Gapless
  <2>3. ASSUME NEW k \in 1..Len(M) PROVE First(M[k]) = End(M, k - 1) + 1
    <3>1. CASE k = Len(L) + 1
      <4>1. k - 1 = Len(L) /\ k - 1 \in 0..Len(L)
        BY <1>1, <3>1
      <4> QED BY <1>1, <2>1, <2>2, <3>1, <4>1
    <3>2. CASE k \in 1..Len(L)
      <4>1. k - 1 \in 0..Len(L)
        BY <1>1, <3>2
      <4> QED BY <1>1, <2>1, <2>2, <3>2, <4>1
    <3> QED BY <1>5, <3>1, <3>2
  <2>4. End(M, Len(M)) = Last(b)
    BY <1>1 DEF End
  <2> QED BY <2>3, <2>4 DEF Gapless
<1> QED BY <1>8, <1>9

(* The pending blocks are a batch that continues the batches before it.    *)
LEMMA ThisBatchContinues ==
    ASSUME Types, PostInv, pending # << >>
    PROVE  /\ B!ThisBatch \in Batch /\ Consecutive(B!ThisBatch)
           /\ B!ThisBatch.num = num /\ First(B!ThisBatch) = From
           /\ Last(B!ThisBatch) + 1 = B!Fetched
           /\ From \in Nat /\ 1 <= From /\ From <= B!Fetched
<1>1. /\ pending \in Seq(Nat) /\ Len(pending) \in Nat \ {0} /\ B!Fetched \in Nat /\ num \in Nat
  BY EmptySeq, LenProperties DEF Types, B!Fetched
<1>2. B!ThisBatch = [num |-> num, blocks |-> pending]
  BY DEF B!ThisBatch
<1>3. B!ThisBatch \in Batch /\ B!ThisBatch.num = num /\ B!ThisBatch.blocks = pending
  BY <1>1, <1>2 DEF Batch
<1>4. \A j \in 1..Len(pending) : pending[j] \in Nat
  BY <1>1, ElementOfSeq
<1> DEFINE F == B!Fetched
           N == Len(pending)
<1>5. /\ 1 + N <= F /\ \A j \in 1..N : pending[j] + N + 1 = F + j
  BY DEF PostInv
<1>6. From = F - N
  BY DEF From
<1>7. F \in Nat /\ N \in Nat \ {0}
  BY <1>1
<1> HIDE DEF F, N
<1>8. 1 \in 1..N /\ N \in 1..N
  BY <1>7
<1>9. pending[1] = F - N /\ pending[N] + 1 = F
  <2>1. pending[1] + N + 1 = F + 1 /\ pending[N] + N + 1 = F + N
    BY <1>5, <1>8
  <2>2. pending[1] \in Nat /\ pending[N] \in Nat
    BY <1>4, <1>8 DEF N
  <2> QED BY <1>7, <2>1, <2>2
<1>10. \A j \in 1..N : pending[j] + 1 = pending[1] + j
  <2> SUFFICES ASSUME NEW j \in 1..N PROVE pending[j] + 1 = pending[1] + j
    OBVIOUS
  <2>1. pending[j] + N + 1 = F + j /\ pending[j] \in Nat
    BY <1>4, <1>5 DEF N
  <2> QED BY <1>7, <1>9, <2>1
<1>11. From \in Nat /\ 1 <= From /\ From <= F
  BY <1>5, <1>6, <1>7
<1> QED
  BY <1>3, <1>6, <1>9, <1>10, <1>11 DEF Consecutive, First, Last, N, F

(* The types the batch task keeps and the derivation task relies on.       *)
LEMMA TypesStep ==
    ASSUME Types, ReadInv, [Next]_vars
    PROVE  Types'
<1> USE DEF batchOwn, runnerOwn, uiVars
<1>1. /\ cur \in Nat /\ got \in Nat /\ num \in Nat /\ pending \in Seq(Nat)
      /\ l1 \in Seq(Batch) /\ lost \in Seq(Batch) /\ Len(l1) \in Nat /\ read \in 0..Len(l1)
  BY LenProperties DEF Types
<1>2. cur' \in Nat /\ got' \in Nat /\ (pc' = "submit" => pending' # << >>)
  <2>1. CASE ChainGrows
    BY <1>1, <2>1 DEF ChainGrows, B!ChainGrows, B!batchVars, B!roundVars, Types
  <2>2. CASE BatchTaskLocks
    BY <1>1, <2>2 DEF BatchTaskLocks, B!Run, B!batchVars, B!roundVars, Types
  <2>3. CASE BatchTaskFetches
    <3>1. CASE B!BeginRound
      BY <1>1, <3>1 DEF B!BeginRound
    <3>2. CASE B!FetchBlock
      BY <1>1, <3>2 DEF B!FetchBlock
    <3>3. CASE B!FetchDone
      BY <1>1, <3>3 DEF B!FetchDone, B!NextBlock, B!ShouldSubmit, B!batchVars, B!roundVars
    <3>4. CASE B!FetchFails
      BY <1>1, <3>4 DEF B!FetchFails
    <3> QED BY <2>3, <3>1, <3>2, <3>3, <3>4 DEF BatchTaskFetches
  <2>4. CASE Submits
    BY <1>1, <2>4 DEF Submits, B!SubmitBatch, B!ClearPending, B!roundVars
  <2>5. CASE SubmitFails
    BY <1>1, <2>5 DEF SubmitFails, B!SubmitFails, B!ClearPending, B!roundVars
  <2>6. CASE OnBatchSubmitted \/ DerivationLocks \/ SourceErrs \/ DerivationIdles \/ ReportsDerived
             \/ ReportsError \/ PressPause \/ PressReset \/ UILocksBatch
    BY <1>1, <2>6 DEF OnBatchSubmitted, DerivationLocks, SourceErrs, D!SourceFails, D!AfterError,
              D!checkpointVars, DerivationIdles, ReportsDerived,
                      ReportsError, PressPause, PressReset, UILocksBatch, Types
  <2>7. CASE DerivationTicks
    BY <1>1, <2>7 DEF DerivationTicks, Types
  <2>8. CASE UISetsRunners
    BY <1>1, <2>8 DEF UISetsRunners, B!SetPaused, B!batchVars, B!roundVars, Types
  <2>9. CASE UNCHANGED vars
    BY <1>1, <2>9 DEF vars, Types
  <2> QED
    BY <2>1, <2>2, <2>3, <2>4, <2>5, <2>6, <2>7, <2>8, <2>9
    DEF Next, BatchTask, DerivationTask, UITask
<1>3. CASE Fetches
  <2>1. B!Fetched \in Nat
    BY <1>1 DEF B!Fetched
  <2>2. pending' \in Seq(Nat)
    BY <1>1, <1>3, <2>1, AppendProperties DEF Fetches
  <2> QED BY <1>2, <1>3, <2>2 DEF Fetches, Types, derivation
<1>4. CASE Clears
  <2>1. B!ThisBatch \in Batch
    BY <1>1, <1>4 DEF Clears, B!ThisBatch, Batch
  <2>2. l1' \in {l1, Append(l1, B!ThisBatch)} /\ lost' \in {lost, Append(lost, B!ThisBatch)}
    BY <1>4 DEF Clears
  <2>3. l1' \in Seq(Batch) /\ lost' \in Seq(Batch)
    <3>1. Append(l1, B!ThisBatch) \in Seq(Batch) /\ Append(lost, B!ThisBatch) \in Seq(Batch)
      BY <1>1, <2>1, AppendProperties
    <3> QED BY <1>1, <2>2, <3>1
  <2>4. read' \in 0..Len(l1')
    <3>1. Len(l1') \in {Len(l1), Len(l1) + 1}
      BY <1>1, <2>1, <2>2, AppendProperties
    <3> QED BY <1>1, <1>4, <3>1 DEF Clears, derivation
  <2>5. num' \in Nat /\ pending' \in Seq(Nat)
    BY <1>1, <1>4, EmptySeq DEF Clears
  <2> QED BY <1>2, <1>4, <2>3, <2>4, <2>5 DEF Clears, Types, derivation
<1>5. CASE Derives
  <2>1. /\ pending' = pending /\ num' = num /\ l1' = l1 /\ lost' = lost
    BY <1>5 DEF Derives, KeepsBatch
  <2>2. CASE D!SkipBatch \/ D!BeginBatch
    <3>1. /\ read < Len(l1) /\ read' = read + 1 /\ done' = 0
          /\ UNCHANGED <<lastDerived, recorded, executed>>
          /\ dpc' \in {dpc, "execute"}
      BY <2>2 DEF D!SkipBatch, D!BeginBatch, D!NextBatch, D!checkpointVars
    <3>2. read' \in 0..Len(l1)
      BY <1>1, <3>1
    <3> QED BY <1>2, <2>1, <3>1, <3>2 DEF Types
  <2>3. CASE D!ExecuteBlock
    <3>1. /\ dpc = "execute" /\ done < Len(l1[read].blocks)
          /\ executed' = Append(executed, l1[read].blocks[done + 1])
          /\ done' = done + 1 /\ UNCHANGED <<read, dpc, lastDerived, recorded>>
      BY <2>3 DEF D!ExecuteBlock, D!checkpointVars, D!Current
    <3>2. read \in 1..Len(l1)
      BY <1>1, <3>1 DEF ReadInv
    <3>3. l1[read].blocks \in Seq(Nat) /\ Len(l1[read].blocks) \in Nat
      <4>1. l1[read] \in Batch
        BY <1>1, <3>2, ElementOfSeq
      <4> QED BY <4>1, LenProperties DEF Batch
    <3>4. done + 1 \in 1..Len(l1[read].blocks) /\ done' \in Nat
      BY <3>1, <3>3 DEF Types
    <3>5. l1[read].blocks[done + 1] \in Nat
      BY <3>3, <3>4, ElementOfSeq
    <3>6. executed' \in Seq(Nat)
      BY <3>1, <3>5, AppendProperties DEF Types
    <3> QED BY <1>2, <2>1, <3>1, <3>4, <3>6 DEF Types
  <2>4. CASE D!RecordBatch
    <3>1. /\ dpc = "execute" /\ recorded' = recorded \union {l1[read].num} /\ dpc' = "idle"
          /\ UNCHANGED <<read, done, executed>>
          /\ lastDerived' = IF l1[read].num > lastDerived THEN l1[read].num ELSE lastDerived
      BY <2>4 DEF D!RecordBatch, D!Current, D!RecordBatchDerived
    <3>2. read \in 1..Len(l1)
      BY <1>1, <3>1 DEF ReadInv
    <3>3. l1[read].num \in Nat
      <4>1. l1[read] \in Batch
        BY <1>1, <3>2, ElementOfSeq
      <4> QED BY <4>1 DEF Batch
    <3> QED BY <1>2, <2>1, <3>1, <3>3 DEF Types
  <2>5. CASE D!DeriveFails
    <3>1. /\ dpc' = "idle" /\ UNCHANGED <<read, done, lastDerived, recorded, executed>>
      BY <2>5 DEF D!DeriveFails, D!AfterError, D!checkpointVars
    <3> QED BY <1>2, <2>1, <3>1 DEF Types
  <2> QED BY <1>5, <2>2, <2>3, <2>4, <2>5 DEF Derives, D!TickStep
<1>6. CASE KeepsBatch /\ UNCHANGED derivation
  BY <1>2, <1>6 DEF KeepsBatch, derivation, Types
<1> QED BY <1>3, <1>4, <1>5, <1>6, StepCases

(* The batch task posts in order.                                          *)
LEMMA PostStep ==
    ASSUME Types, PostInv, [Next]_vars
    PROVE  PostInv'
<1>1. /\ pending \in Seq(Nat) /\ Len(pending) \in Nat /\ B!Fetched \in Nat /\ num \in Nat
      /\ l1 \in Seq(Batch) /\ lost \in Seq(Batch)
  BY LenProperties DEF Types, B!Fetched
<1>2. CASE KeepsBatch
  <2>1. From' = From
    BY <1>2 DEF KeepsBatch, From
  <2> QED BY <1>2, <2>1 DEF KeepsBatch, PostInv
<1>3. CASE Fetches
  <2> DEFINE F == B!Fetched
             N == Len(pending)
  <2>1. /\ Len(pending') = N + 1 /\ \A j \in 1..N : pending'[j] = pending[j]
        /\ pending'[N + 1] = F
    BY <1>1, <1>3, AppendProperties DEF Fetches
  <2>2. B!Fetched' = F + 1 /\ num' = num /\ l1' = l1 /\ lost' = lost
    BY <1>3 DEF Fetches
  <2>3. 1 + N <= F /\ \A j \in 1..N : pending[j] + N + 1 = F + j
    BY DEF PostInv
  <2>4. N \in Nat /\ F \in Nat /\ \A j \in 1..N : pending[j] \in Nat
    BY <1>1, ElementOfSeq
  <2>5. From' = (F + 1) - (N + 1) /\ From = F - N
    BY <2>1, <2>2 DEF From
  <2> HIDE DEF F, N
  <2>6. From' = From
    BY <2>4, <2>5
  <2>7. ASSUME NEW j \in 1..(N + 1) PROVE pending'[j] + (N + 1) + 1 = (F + 1) + j
    <3>1. CASE j = N + 1
      BY <2>1, <2>4, <3>1
    <3>2. CASE j # N + 1
      <4>1. j \in 1..N
        BY <2>4, <3>2
      <4>2. pending'[j] = pending[j] /\ pending[j] + N + 1 = F + j /\ pending[j] \in Nat
        BY <2>1, <2>3, <2>4, <4>1
      <4> QED BY <2>4, <4>1, <4>2
    <3> QED BY <3>1, <3>2
  <2>8. 1 + (N + 1) <= F + 1
    BY <2>3, <2>4
  <2> QED BY <2>1, <2>2, <2>6, <2>7, <2>8 DEF PostInv
<1>4. CASE Clears
  <2>1. /\ B!ThisBatch \in Batch /\ Consecutive(B!ThisBatch)
        /\ B!ThisBatch.num = num /\ First(B!ThisBatch) = From
        /\ Last(B!ThisBatch) + 1 = B!Fetched
        /\ From \in Nat /\ 1 <= From /\ From <= B!Fetched
    BY <1>4, ThisBatchContinues DEF Clears
  <2>2. /\ pending' = << >> /\ B!Fetched' = B!Fetched /\ num' = num + 1
        /\ \/ l1' = Append(l1, B!ThisBatch) /\ lost' = lost
           \/ l1' \in {l1, Append(l1, B!ThisBatch)} /\ lost' = Append(lost, B!ThisBatch)
    BY <1>4 DEF Clears
  <2>3. From' = B!Fetched
    <3>1. Len(pending') = 0
      BY <2>2
    <3> QED BY <1>1, <2>2, <3>1 DEF From
  <2>4. Ordered(l1, num, From) /\ (lost = << >> => Gapless(l1, From))
    BY DEF PostInv
  <2>5. ASSUME l1' = Append(l1, B!ThisBatch)
        PROVE  /\ Ordered(l1', num', From')
               /\ Gapless(l1, From) => Gapless(l1', From')
    <3> DEFINE b == B!ThisBatch
               M == l1'
    <3>1. /\ b \in Batch /\ Consecutive(b) /\ b.num = num /\ First(b) = From
          /\ M = Append(l1, b) /\ Last(b) + 1 = From'
      BY <2>1, <2>3, <2>5
    <3> HIDE DEF b, M
    <3>2. /\ Ordered(M, num + 1, Last(b) + 1)
          /\ Gapless(l1, From) => Gapless(M, Last(b) + 1)
      BY <1>1, <2>1, <2>4, <3>1, OrderedGrows
    <3> QED BY <2>2, <3>1, <3>2 DEF M
  <2>6. ASSUME l1' = l1 PROVE Ordered(l1', num', From')
    <3>1. \A k \in 1..Len(l1) : l1[k].num \in Nat /\ Last(l1[k]) \in Nat
      BY L1Batches
    <3>2. \A k \in 1..Len(l1) : l1[k].num < num /\ Last(l1[k]) < From
      BY <2>4 DEF Ordered
    <3>3. \A k \in 1..Len(l1) : l1[k].num < num + 1 /\ Last(l1[k]) < B!Fetched
      BY <1>1, <2>1, <3>1, <3>2
    <3> QED BY <2>2, <2>3, <2>4, <2>6, <3>3 DEF Ordered
  <2>7. lost' = << >> => lost' = lost /\ lost = << >> /\ l1' = Append(l1, B!ThisBatch)
    <3>1. Append(lost, B!ThisBatch) # << >>
      BY <1>1, <2>1, AppendProperties
    <3> QED BY <2>2, <3>1
  <2>8. Ordered(l1', num', From') /\ (lost' = << >> => Gapless(l1', From'))
    BY <2>2, <2>4, <2>5, <2>6, <2>7
  <2>9. /\ 1 + Len(pending') <= B!Fetched'
        /\ 1..Len(pending') = {}
    <3>1. Len(pending') = 0
      BY <2>2
    <3> QED BY <1>1, <2>1, <2>2, <3>1
  <2> QED BY <2>8, <2>9 DEF PostInv
<1> QED BY <1>2, <1>3, <1>4, StepCases DEF Derives

-----------------------------------------------------------------------------
(* The derivation task.                                                    *)

(* What is on L1 stays where it is, and a failed submission stays failed.  *)
LEMMA L1Grows ==
    ASSUME Types, [Next]_vars
    PROVE  /\ Len(l1) \in Nat /\ Len(l1') \in Nat /\ Len(l1) <= Len(l1')
           /\ \A k \in 1..Len(l1) : l1'[k] = l1[k]
           /\ lost' = << >> => lost = << >>
<1>1. l1 \in Seq(Batch) /\ lost \in Seq(Batch) /\ Len(l1) \in Nat
  BY LenProperties DEF Types
<1>2. CASE l1' = l1 /\ lost' = lost
  BY <1>1, <1>2
<1>3. CASE Clears
  <2>1. B!ThisBatch \in Batch
    BY <1>3 DEF Clears, B!ThisBatch, Batch, Types
  <2>2. l1' \in {l1, Append(l1, B!ThisBatch)} /\ lost' \in {lost, Append(lost, B!ThisBatch)}
    BY <1>3 DEF Clears
  <2>3. Append(lost, B!ThisBatch) # << >>
    BY <1>1, <2>1, AppendProperties
  <2>4. /\ Len(Append(l1, B!ThisBatch)) = Len(l1) + 1
        /\ \A k \in 1..Len(l1) : Append(l1, B!ThisBatch)[k] = l1[k]
    BY <1>1, <2>1, AppendProperties
  <2>5. CASE l1' = l1
    BY <1>1, <2>2, <2>3, <2>5
  <2>6. CASE l1' = Append(l1, B!ThisBatch)
    BY <1>1, <2>2, <2>3, <2>4, <2>6
  <2> QED BY <2>2, <2>5, <2>6
<1> QED BY <1>2, <1>3, StepCases DEF Fetches, Derives, KeepsBatch

(* The four outcomes of a tick's step: no batch on L1 is ever skipped.     *)
Begins ==
    /\ dpc = "idle" /\ read + 1 \in 1..Len(l1)
    /\ read' = read + 1 /\ done' = 0 /\ dpc' = "execute"
    /\ UNCHANGED <<lastDerived, recorded, executed>>

Executes ==
    /\ dpc = "execute" /\ done + 1 \in 1..Len(l1[read].blocks)
    /\ executed' = Append(executed, l1[read].blocks[done + 1])
    /\ done' = done + 1
    /\ UNCHANGED <<read, dpc, lastDerived, recorded>>

Records ==
    /\ dpc = "execute" /\ done = Len(l1[read].blocks) /\ dpc' = "idle"
    /\ recorded' = recorded \union {l1[read].num}
    /\ lastDerived' = IF l1[read].num > lastDerived THEN l1[read].num ELSE lastDerived
    /\ UNCHANGED <<read, done, executed>>

GivesUp ==
    /\ dpc = "execute" /\ done < Len(l1[read].blocks) /\ dpc' = "idle"
    /\ UNCHANGED <<read, done, lastDerived, recorded, executed>>

(* A step of the derivation task is one of them, and L1 stays as it is.    *)
LEMMA DeriveCases ==
    ASSUME Types, PostInv, ReadInv, Derives
    PROVE  /\ l1' = l1 /\ lost' = lost
           /\ Begins \/ Executes \/ Records \/ GivesUp
<1>1. l1' = l1 /\ lost' = lost
  BY DEF Derives, KeepsBatch
<1>2. Len(l1) \in Nat /\ read \in 0..Len(l1) /\ done \in Nat /\ lastDerived \in Nat
  BY L1Batches DEF Types
<1>3. CASE D!SkipBatch
  <2>1. read < Len(l1) /\ lastDerived # 0 /\ l1[read + 1].num <= lastDerived
    BY <1>3 DEF D!SkipBatch, D!NextBatch, D!ShouldSkipBatch
  <2>2. read > 0 /\ lastDerived <= l1[read].num
    BY <2>1 DEF ReadInv
  <2>3. read \in 1..Len(l1) /\ read + 1 \in 1..Len(l1) /\ read < read + 1
    BY <1>2, <2>1, <2>2
  <2>4. l1[read].num < l1[read + 1].num /\ l1[read].num \in Nat /\ l1[read + 1].num \in Nat
    BY <2>3, L1Batches
  <2> QED BY <1>2, <2>1, <2>2, <2>4
<1>4. CASE D!BeginBatch
  <2>1. /\ dpc = "idle" /\ read < Len(l1) /\ read' = read + 1 /\ done' = 0
        /\ dpc' = "execute" /\ UNCHANGED <<lastDerived, recorded, executed>>
    BY <1>4 DEF D!BeginBatch, D!NextBatch, D!checkpointVars
  <2>2. read + 1 \in 1..Len(l1)
    BY <1>2, <2>1
  <2> QED BY <1>1, <2>1, <2>2 DEF Begins
<1>5. CASE D!ExecuteBlock
  <2>1. /\ dpc = "execute" /\ done < Len(l1[read].blocks)
        /\ executed' = Append(executed, l1[read].blocks[done + 1])
        /\ done' = done + 1 /\ UNCHANGED <<read, dpc, lastDerived, recorded>>
    BY <1>5 DEF D!ExecuteBlock, D!checkpointVars, D!Current
  <2>2. read \in 1..Len(l1)
    BY <1>2, <2>1 DEF ReadInv
  <2>3. Len(l1[read].blocks) \in Nat
    BY <2>2, L1Batches
  <2>4. done + 1 \in 1..Len(l1[read].blocks)
    BY <1>2, <2>1, <2>3
  <2> QED BY <1>1, <2>1, <2>4 DEF Executes
<1>6. CASE D!RecordBatch
  BY <1>1, <1>6 DEF D!RecordBatch, D!Current, D!RecordBatchDerived, Records
<1>7. CASE D!DeriveFails
  BY <1>1, <1>7 DEF D!DeriveFails, D!AfterError, D!checkpointVars, D!Current, GivesUp
<1> QED BY <1>3, <1>4, <1>5, <1>6, <1>7 DEF Derives, D!TickStep

(* Every step keeps the bookkeeping of the derivation task.                *)
LEMMA ReadStep ==
    ASSUME Types, PostInv, ReadInv, [Next]_vars
    PROVE  ReadInv'
<1>1. /\ Len(l1) \in Nat /\ read \in 0..Len(l1) /\ done \in Nat /\ lastDerived \in Nat
      /\ recorded \subseteq Nat
  BY L1Batches DEF Types
<1>2. \A k \in 1..Len(l1) : l1[k].num \in Nat
  BY L1Batches
<1>3. CASE UNCHANGED derivation
  <2>1. \A k \in 1..Len(l1) : l1'[k] = l1[k]
    BY L1Grows
  <2>2. \A k \in 1..read : l1'[k] = l1[k]
    BY <1>1, <2>1
  <2>3. read > 0 => l1'[read] = l1[read]
    BY <1>1, <2>2
  <2>4. UNCHANGED <<read, dpc, done, lastDerived, executed, recorded>>
    BY <1>3 DEF derivation
  <2> QED BY <2>2, <2>3, <2>4 DEF ReadInv
<1>4. CASE Derives
  <2>1. l1' = l1 /\ (Begins \/ Executes \/ Records \/ GivesUp)
    BY <1>4, DeriveCases
  <2>2. CASE Begins
    <3>1. /\ read' = read + 1 /\ read + 1 \in 1..Len(l1) /\ done' = 0 /\ dpc' = "execute"
          /\ recorded' = recorded /\ lastDerived' = lastDerived
      BY <2>2 DEF Begins
    <3>2. \A k \in 1..read : k \in 1..Len(l1) /\ k \in 1..(read + 1) /\ k < read + 1
      BY <1>1
    <3>3. \A k \in 1..read : l1[k].num < l1[read + 1].num
      BY <3>1, <3>2, L1Batches
    <3>4. \A n \in recorded : \E k \in 1..read : l1[k].num = n
      BY DEF ReadInv
    <3>5. l1[read + 1].num \notin recorded
      <4> SUFFICES ASSUME l1[read + 1].num \in recorded PROVE FALSE
        OBVIOUS
      <4>1. PICK k \in 1..read : l1[k].num = l1[read + 1].num
        BY <3>4
      <4>2. l1[k].num < l1[read + 1].num /\ l1[k].num \in Nat
        BY <1>2, <3>2, <3>3
      <4> QED BY <4>1, <4>2
    <3>6. 0 <= Len(l1[read + 1].blocks)
      BY <3>1, L1Batches
    <3>7. lastDerived # 0 => lastDerived <= l1[read + 1].num
      <4> SUFFICES ASSUME lastDerived # 0 PROVE lastDerived <= l1[read + 1].num
        OBVIOUS
      <4>1. read > 0 /\ lastDerived <= l1[read].num
        BY DEF ReadInv
      <4>2. read \in 1..read
        BY <1>1, <4>1
      <4> QED BY <1>1, <1>2, <3>1, <3>2, <3>3, <4>1, <4>2
    <3>8. \A n \in recorded : \E k \in 1..(read + 1) : l1[k].num = n
      BY <3>2, <3>4
    <3>9. read + 1 > 0
      BY <1>1
    <3> QED BY <2>1, <3>1, <3>5, <3>6, <3>7, <3>8, <3>9 DEF ReadInv
  <2>3. CASE Executes
    <3>1. done + 1 <= Len(l1[read].blocks)
      BY <2>3 DEF Executes
    <3> QED BY <2>1, <2>3, <3>1 DEF Executes, ReadInv
  <2>4. CASE Records
    <3>1. read > 0 /\ read \in 1..read /\ read \in 1..Len(l1)
      BY <1>1, <2>4 DEF Records, ReadInv
    <3>2. lastDerived # 0 => lastDerived <= l1[read].num
      BY DEF ReadInv
    <3>3. lastDerived' = l1[read].num \/ lastDerived' = lastDerived
      BY <2>4 DEF Records
    <3>4. lastDerived' # 0 => lastDerived' <= l1[read].num
      BY <1>2, <3>1, <3>2, <3>3
    <3>5. \A n \in recorded' : \E k \in 1..read : l1[k].num = n
      BY <2>4, <3>1 DEF Records, ReadInv
    <3> QED BY <2>1, <2>4, <3>1, <3>4, <3>5 DEF Records, ReadInv
  <2>5. CASE GivesUp
    BY <2>1, <2>5 DEF GivesUp, ReadInv
  <2> QED BY <2>1, <2>2, <2>3, <2>4, <2>5
<1> QED BY <1>3, <1>4, StepCases DEF Fetches, Clears

(* Every step keeps what is executed in order.                             *)
LEMMA ExecStep ==
    ASSUME Types, PostInv, ReadInv, ExecInv, [Next]_vars
    PROVE  ExecInv'
<1>1. /\ Len(l1) \in Nat /\ read \in 0..Len(l1) /\ done \in Nat
      /\ executed \in Seq(Nat) /\ Len(executed) \in Nat
      /\ \A i \in 1..Len(executed) : executed[i] \in Nat
      /\ dpc \in {"idle", "execute"}
  BY L1Batches, LenProperties, ElementOfSeq DEF Types
<1>2. \A k \in 1..Len(l1) :
          /\ Len(l1[k].blocks) \in Nat \ {0} /\ First(l1[k]) \in Nat /\ Last(l1[k]) \in Nat
          /\ Last(l1[k]) + 1 = First(l1[k]) + Len(l1[k].blocks)
          /\ \A j \in 1..Len(l1[k].blocks) :
                l1[k].blocks[j] \in Nat /\ l1[k].blocks[j] + 1 = First(l1[k]) + j
  BY L1Batches
<1>3. dpc = "execute" => read \in 1..Len(l1)
  BY <1>1 DEF ReadInv
<1>4. CASE UNCHANGED derivation
  <2>1. UNCHANGED <<read, dpc, done, executed, recorded>>
    BY <1>4 DEF derivation
  <2>2. /\ \A k \in 1..Len(l1) : l1'[k] = l1[k] /\ k \in 1..Len(l1')
        /\ lost' = << >> => lost = << >>
    BY L1Grows
  <2>3. End(l1', read) = End(l1, read)
    BY <1>1, <2>2 DEF End
  <2>4. dpc = "execute" => First(l1'[read]) = First(l1[read])
    BY <1>3, <2>2
  <2>5. NoneGivenUp' => NoneGivenUp
    <3>1. \A k \in 1..(read - 1) : l1'[k] = l1[k]
      BY <1>1, <2>2
    <3> QED BY <2>1, <3>1 DEF NoneGivenUp
  <2>6. read > 0 => l1'[read] = l1[read]
    BY <1>1, <2>2
  <2>7. ASSUME NEW i \in 1..Len(executed)
        PROVE  \E k \in 1..Len(l1') : \E j \in 1..Len(l1'[k].blocks) :
                  executed[i] = l1'[k].blocks[j]
    <3>1. PICK k \in 1..Len(l1) : \E j \in 1..Len(l1[k].blocks) :
                  executed[i] = l1[k].blocks[j]
      BY DEF ExecInv
    <3>2. l1'[k] = l1[k] /\ k \in 1..Len(l1')
      BY <2>2
    <3> QED BY <3>1, <3>2
  <2> QED BY <2>1, <2>2, <2>3, <2>4, <2>5, <2>6, <2>7 DEF ExecInv
<1>5. CASE Derives
  <2>1. l1' = l1 /\ lost' = lost /\ (Begins \/ Executes \/ Records \/ GivesUp)
    BY <1>5, DeriveCases
  <2>2. CASE Begins
    <3>1. /\ read' = read + 1 /\ read + 1 \in 1..Len(l1) /\ done' = 0 /\ dpc' = "execute"
          /\ recorded' = recorded /\ executed' = executed /\ dpc = "idle"
      BY <2>2 DEF Begins
    <3>2. End(l1, read) \in Nat /\ End(l1, read) < First(l1[read + 1])
      <4>1. CASE read = 0
        BY <3>1, <4>1, L1Batches DEF End
      <4>2. CASE read # 0
        <5>1. read \in 1..Len(l1) /\ read < read + 1
          BY <1>1, <4>2
        <5>2. Last(l1[read]) < First(l1[read + 1]) /\ Last(l1[read]) \in Nat
          BY <3>1, <5>1, L1Batches
        <5> QED BY <4>2, <5>2 DEF End
      <4> QED BY <4>1, <4>2
    <3>3. First(l1[read + 1]) \in Nat
      BY <1>2, <3>1
    <3>4. ASSUME NEW i \in 1..Len(executed) PROVE executed[i] < First(l1[read + 1]) + 0
      <4>1. executed[i] <= End(l1, read) /\ executed[i] \in Nat
        BY <1>1, <3>1 DEF ExecInv
      <4> QED BY <3>2, <3>3, <4>1
    <3>5. ASSUME lost = << >>, NoneGivenUp'
          PROVE  /\ \A i \in 1..Len(executed) : executed[i] = i
                 /\ Len(executed) + 1 = First(l1[read + 1]) + 0
      <4>1. \A k \in 1..((read + 1) - 1) : l1[k].num \in recorded
        BY <2>1, <3>1, <3>5 DEF NoneGivenUp
      <4>2. \A k \in 1..(read - 1) : k \in 1..((read + 1) - 1)
        BY <1>1
      <4>3. NoneGivenUp
        BY <4>1, <4>2 DEF NoneGivenUp
      <4>4. read > 0 => l1[read].num \in recorded
        <5>1. read > 0 => read \in 1..((read + 1) - 1)
          BY <1>1
        <5> QED BY <4>1, <5>1
      <4>5. Len(executed) = End(l1, read) /\ \A i \in 1..Len(executed) : executed[i] = i
        BY <3>1, <3>5, <4>3, <4>4 DEF ExecInv
      <4>6. First(l1[read + 1]) = End(l1, (read + 1) - 1) + 1
        BY <3>1, <3>5 DEF PostInv, Gapless
      <4>7. (read + 1) - 1 = read
        BY <1>1
      <4> QED BY <3>2, <3>3, <4>5, <4>6, <4>7
    <3> QED BY <2>1, <3>1, <3>4, <3>5 DEF ExecInv
  <2>3. CASE Executes
    <3> DEFINE x == l1[read].blocks[done + 1]
    <3>1. /\ dpc = "execute" /\ done + 1 \in 1..Len(l1[read].blocks)
          /\ executed' = Append(executed, x) /\ done' = done + 1
          /\ UNCHANGED <<read, dpc, recorded>>
      BY <2>3 DEF Executes
    <3>2. read \in 1..Len(l1)
      BY <1>3, <3>1
    <3>3. x \in Nat /\ x + 1 = First(l1[read]) + (done + 1) /\ First(l1[read]) \in Nat
      BY <1>2, <3>1, <3>2
    <3>4. x = First(l1[read]) + done
      <4> HIDE DEF x
      <4> QED BY <1>1, <3>3
    <3>5. /\ \E k \in 1..Len(l1) : \E j \in 1..Len(l1[k].blocks) : x = l1[k].blocks[j]
      BY <3>1, <3>2
    <3> HIDE DEF x
    <3>6. /\ Len(executed') = Len(executed) + 1
          /\ \A i \in 1..Len(executed) : executed'[i] = executed[i]
          /\ executed'[Len(executed) + 1] = x
      BY <1>1, <3>1, <3>3, AppendProperties
    <3>7. \A i \in 1..Len(executed) : executed[i] < x
      BY <3>1, <3>4 DEF ExecInv
    <3>8. \A i \in 1..Len(executed') : i = Len(executed) + 1 \/ i \in 1..Len(executed)
      BY <1>1, <3>6
    <3>9. ASSUME NEW i \in 1..(Len(executed') - 1) PROVE executed'[i] < executed'[i + 1]
      <4>1. i \in 1..Len(executed)
        BY <1>1, <3>6
      <4>2. CASE i = Len(executed)
        BY <3>6, <3>7, <4>1, <4>2
      <4>3. CASE i # Len(executed)
        <5>1. i + 1 \in 1..Len(executed) /\ i \in 1..(Len(executed) - 1)
          BY <1>1, <4>1, <4>3
        <5> QED BY <3>6, <4>1, <5>1 DEF ExecInv
      <4> QED BY <4>2, <4>3
    <3>10. ASSUME NEW i \in 1..Len(executed')
           PROVE  \E k \in 1..Len(l1) : \E j \in 1..Len(l1[k].blocks) :
                      executed'[i] = l1[k].blocks[j]
      <4>1. CASE i = Len(executed) + 1
        BY <3>5, <3>6, <4>1
      <4>2. CASE i \in 1..Len(executed)
        BY <3>6, <4>2 DEF ExecInv
      <4> QED BY <3>8, <4>1, <4>2
    <3>11. ASSUME NEW i \in 1..Len(executed')
           PROVE  executed'[i] < First(l1[read]) + (done + 1)
      <4>1. CASE i = Len(executed) + 1
        BY <1>1, <3>3, <3>4, <3>6, <4>1
      <4>2. CASE i \in 1..Len(executed)
        <5>1. executed'[i] < x /\ executed'[i] \in Nat
          BY <1>1, <3>6, <3>7, <4>2
        <5> QED BY <1>1, <3>3, <3>4, <5>1
      <4> QED BY <3>8, <4>1, <4>2
    <3>12. ASSUME lost = << >>, NoneGivenUp'
           PROVE  /\ \A i \in 1..Len(executed') : executed'[i] = i
                  /\ Len(executed') + 1 = First(l1[read]) + (done + 1)
      <4>1. NoneGivenUp
        BY <2>1, <3>1, <3>12 DEF NoneGivenUp
      <4>2. /\ \A i \in 1..Len(executed) : executed[i] = i
            /\ Len(executed) + 1 = First(l1[read]) + done
        BY <3>1, <3>12, <4>1 DEF ExecInv
      <4>3. x = Len(executed) + 1
        BY <3>4, <4>2
      <4>4. \A i \in 1..Len(executed') : executed'[i] = i
        BY <3>6, <3>8, <4>2, <4>3
      <4>5. Len(executed') + 1 = First(l1[read]) + (done + 1)
        BY <1>1, <3>3, <3>6, <4>2
      <4> QED BY <4>4, <4>5
    <3> QED BY <2>1, <3>1, <3>9, <3>10, <3>11, <3>12 DEF ExecInv
  <2>4. CASE Records
    <3>1. /\ dpc = "execute" /\ done = Len(l1[read].blocks) /\ dpc' = "idle"
          /\ recorded' = recorded \union {l1[read].num}
          /\ UNCHANGED <<read, done, executed>>
      BY <2>4 DEF Records
    <3>2. read \in 1..Len(l1)
      BY <1>3, <3>1
    <3>3. End(l1, read) = Last(l1[read])
      BY <1>1, <3>2 DEF End
    <3>4. /\ First(l1[read]) + done = End(l1, read) + 1 /\ End(l1, read) \in Nat
      BY <1>2, <3>1, <3>2, <3>3
    <3>5. ASSUME NEW i \in 1..Len(executed) PROVE executed[i] <= End(l1, read)
      <4>1. executed[i] < First(l1[read]) + done /\ executed[i] \in Nat
        BY <1>1, <3>1 DEF ExecInv
      <4> QED BY <3>4, <4>1
    <3>6. ASSUME lost = << >>, NoneGivenUp'
          PROVE  /\ \A i \in 1..Len(executed) : executed[i] = i
                 /\ Len(executed) = End(l1, read)
      <4>1. \A k \in 1..(read - 1) : l1[k].num \in recorded
        <5> SUFFICES ASSUME NEW k \in 1..(read - 1) PROVE l1[k].num \in recorded
          OBVIOUS
        <5>1. l1[k].num \in recorded \union {l1[read].num}
          BY <2>1, <3>1, <3>6 DEF NoneGivenUp
        <5>2. k \in 1..Len(l1) /\ k < read
          BY <1>1
        <5>3. l1[k].num < l1[read].num /\ l1[k].num \in Nat
          BY <3>2, <5>2, L1Batches
        <5> QED BY <5>1, <5>3
      <4>2. NoneGivenUp
        BY <4>1 DEF NoneGivenUp
      <4>3. /\ \A i \in 1..Len(executed) : executed[i] = i
            /\ Len(executed) + 1 = First(l1[read]) + done
        BY <3>1, <3>6, <4>2 DEF ExecInv
      <4> QED BY <1>1, <3>4, <4>3
    <3> QED BY <2>1, <3>1, <3>5, <3>6 DEF ExecInv
  <2>5. CASE GivesUp
    <3>1. /\ dpc = "execute" /\ done < Len(l1[read].blocks) /\ dpc' = "idle"
          /\ UNCHANGED <<read, done, executed, recorded>>
      BY <2>5 DEF GivesUp
    <3>2. read \in 1..Len(l1) /\ read > 0
      BY <1>1, <1>3, <3>1
    <3>3. End(l1, read) = Last(l1[read])
      BY <1>1, <3>2 DEF End
    <3>4. First(l1[read]) + done <= End(l1, read) /\ End(l1, read) \in Nat
          /\ First(l1[read]) \in Nat
      BY <1>1, <1>2, <3>1, <3>2, <3>3
    <3>5. ASSUME NEW i \in 1..Len(executed) PROVE executed[i] <= End(l1, read)
      <4>1. executed[i] < First(l1[read]) + done /\ executed[i] \in Nat
        BY <1>1, <3>1 DEF ExecInv
      <4> QED BY <1>1, <3>4, <4>1
    <3>6. l1[read].num \notin recorded
      BY <3>1 DEF ReadInv
    <3>7. NoneGivenUp' => NoneGivenUp
      BY <2>1, <3>1 DEF NoneGivenUp
    <3> QED BY <2>1, <3>1, <3>2, <3>5, <3>6, <3>7 DEF ExecInv
  <2> QED BY <2>1, <2>2, <2>3, <2>4, <2>5
<1> QED BY <1>4, <1>5, StepCases DEF Fetches, Clears

-----------------------------------------------------------------------------
(* The invariant holds when neither task has begun.                        *)
LEMMA InitInv == Init => Inv
<1> SUFFICES ASSUME Init PROVE Inv
  OBVIOUS
<1> USE DEF Init, B!Init, D!RunnerInit
<1>1. Len(pending) = 0 /\ Len(l1) = 0 /\ Len(executed) = 0 /\ B!Fetched = 1
  BY DEF B!Fetched
<1>2. 1..0 = {} /\ 1..(0 - 1) = {}
  OBVIOUS
<1>3. From = 1
  BY <1>1 DEF From
<1>4. Types
  <2>1. pending \in Seq(Nat) /\ l1 \in Seq(Batch) /\ lost \in Seq(Batch) /\ executed \in Seq(Nat)
    BY EmptySeq
  <2> QED BY <1>1, <2>1 DEF Types
<1>5. PostInv
  BY <1>1, <1>2, <1>3 DEF PostInv, Ordered, Gapless, End
<1>6. ReadInv
  BY DEF ReadInv
<1>7. ExecInv
  BY <1>1, <1>2 DEF ExecInv, End
<1> QED BY <1>4, <1>5, <1>6, <1>7 DEF Inv

(* The invariant is one of the specification.                              *)
LEMMA Invariance == Spec => []Inv
<1>1. ASSUME Inv, [Next]_vars PROVE Inv'
  BY <1>1, TypesStep, PostStep, ReadStep, ExecStep DEF Inv
<1> QED BY InitInv, <1>1, PTL DEF Spec

(* The two tasks of the shadow binary, end to end: whatever fails on       *)
(* either side, blocks are executed in the order of the chain, none twice  *)
(* and none that was not posted; and as long as no submission failed and   *)
(* no batch was given up, the n-th block executed is block n.              *)
THEOREM ChainIsExecuted == Spec => []ExecutesChain
<1>1. ASSUME Inv PROVE ExecutesChain
  <2>1. /\ executed \in Seq(Nat) /\ DOMAIN executed = 1..Len(executed)
        /\ DOMAIN l1 = 1..Len(l1)
        /\ \A k \in 1..Len(l1) : l1[k] \in Batch
    BY <1>1, LenProperties, L1Batches DEF Inv, Types
  <2>2. \A k \in 1..Len(l1) : DOMAIN l1[k].blocks = 1..Len(l1[k].blocks)
    BY <2>1, LenProperties DEF Batch
  <2>3. \A i \in 1..(Len(executed) - 1) : executed[i] < executed[i + 1]
    BY <1>1 DEF Inv, ExecInv
  <2>4. ASSUME NEW i \in DOMAIN executed PROVE executed[i] \in B!BlocksOf(l1)
    <3>1. PICK k \in 1..Len(l1) : \E j \in 1..Len(l1[k].blocks) : executed[i] = l1[k].blocks[j]
      BY <1>1, <2>1 DEF Inv, ExecInv
    <3>2. PICK j \in 1..Len(l1[k].blocks) : executed[i] = l1[k].blocks[j]
      BY <3>1
    <3>3. k \in DOMAIN l1 /\ j \in DOMAIN l1[k].blocks
      BY <2>1, <2>2
    <3> QED BY <3>2, <3>3 DEF B!BlocksOf
  <2>5. ASSUME lost = << >>, {l1[k].num : k \in 1..(read - 1)} \subseteq recorded
        PROVE  \A i \in DOMAIN executed : executed[i] = i
    <3>1. NoneGivenUp
      BY <2>5 DEF NoneGivenUp
    <3> QED BY <1>1, <2>1, <2>5, <3>1 DEF Inv, ExecInv
  <2> QED BY <2>3, <2>4, <2>5 DEF ExecutesChain
<1>2. Inv => ExecutesChain
  BY <1>1
<1> QED BY <1>2, Invariance, PTL

-----------------------------------------------------------------------------
(* What the screen shows.                                                  *)

(* The batch runner: a batch is never larger than the maximum, and a round *)
(* of the loop begins with room for a block.                               *)
PosterTypes ==
    /\ head \in 1..LastBlock /\ pc \in {"ready", "top", "fetch", "submit"}
    /\ paused \in BOOLEAN /\ full \in BOOLEAN /\ backlogged \in BOOLEAN /\ missed \in BOOLEAN
    /\ left \in Nat /\ Len(pending) + left <= MaxBlocksPerBatch
    /\ pc \in {"ready", "top"} => Len(pending) < MaxBlocksPerBatch

(* The derivation runner.                                                  *)
DeriverTypes == dpaused \in BOOLEAN /\ saved \in Nat /\ finalized \in Nat /\ restarts = 0

(* Locks: a task that is inside a runner holds its lock, and has reported  *)
(* its tick before it takes the lock again.                                *)
LockInv ==
    /\ batchLock \in {"free", "task", "ui"} /\ tickLock \in {"free", "task"}
    /\ ui \in {"loop", "batch", "derivation"} /\ isPaused \in BOOLEAN
    /\ keys \in 0..MaxKeys /\ resets \in 0..keys
    /\ outcome \in {"none", "derived", "error"}
    /\ pc # "ready" => batchLock = "task"
    /\ dpc = "execute" => tickLock = "task"
    /\ outcome # "none" => tickLock = "free"
    /\ outcome = "derived" => read > 0 /\ l1[read].num \in recorded

(* The numbers of batches that were lost are used up; as long as none was, *)
(* a batch's number is its place.                                          *)
NumInv ==
    /\ \A i \in 1..Len(lost) : lost[i].num < num
    /\ lost = << >> => num = Len(l1) /\ \A k \in 1..Len(l1) : l1[k].num + 1 = k
    /\ IsFiniteSet(recorded)

IsExecuted(b) == \E i \in 1..Len(executed) : executed[i] = b

(* A batch recorded was executed to its end, in increasing order.          *)
DoneInv ==
    /\ \A i, j \in 1..Len(executed) : i < j => executed[i] < executed[j]
    /\ \A k \in 1..read : l1[k].num \in recorded =>
          \A j \in 1..Len(l1[k].blocks) : IsExecuted(l1[k].blocks[j])
    /\ dpc = "execute" => \A j \in 1..done : IsExecuted(l1[read].blocks[j])

Stats == [batches_submitted : Nat, blocks_processed : Nat, batches_derived : Nat,
          blocks_derived : Nat, derivation_healthy : BOOLEAN, latencies : Seq(Nat \X Nat)]

(* The App: it has counted every batch on L1 but the one whose callback is *)
(* outstanding and those whose submission was taken for failed.            *)
AppInv ==
    /\ stats \in Stats /\ Len(stats.latencies) <= MaxSamples /\ times \subseteq Nat
    /\ callback = NoBatch \/ callback \in Batch
    /\ resets = 0 =>
         /\ stats.batches_submitted + (IF callback = NoBatch THEN 0 ELSE 1)
              + Cardinality(FailedButIncluded) = Len(l1)
         /\ stats.batches_submitted <= stats.blocks_processed
         /\ FailedButIncluded = {} =>
              stats.blocks_processed + Len(callback.blocks) = Cardinality(B!BlocksOf(l1))
         /\ outcome # "derived" => stats.batches_derived = Cardinality(recorded)

SampleInv ==
    lost = << >> /\ NoneGivenUp =>
        \A i \in 1..Len(stats.latencies) : stats.latencies[i][1] = stats.latencies[i][2]

ShowInv == PosterTypes /\ DeriverTypes /\ LockInv /\ NumInv /\ DoneInv /\ AppInv /\ SampleInv

-----------------------------------------------------------------------------
(* The batch runner keeps its types and its size.                          *)
LEMMA PosterStep ==
    ASSUME Types, PosterTypes, LockInv, [Next]_vars
    PROVE  PosterTypes'
<1>0. /\ cur \in Nat /\ got \in Nat /\ pending \in Seq(Nat) /\ Len(pending) \in Nat
      /\ head \in 1..LastBlock /\ LastBlock \in Nat /\ MaxBlocksPerBatch \in Nat \ {0}
  BY ChainAssumption, LenProperties DEF Types, PosterTypes
<1>1. ASSUME UNCHANGED batchOwn PROVE PosterTypes'
  BY <1>1 DEF batchOwn, PosterTypes
<1>2. CASE ChainGrows
  <2>1. head' \in 1..LastBlock
    BY <1>0, <1>2 DEF ChainGrows, B!ChainGrows
  <2>2. UNCHANGED <<pc, paused, pending, full, backlogged, left, missed>>
    BY <1>2 DEF ChainGrows, B!ChainGrows, B!batchVars, B!roundVars
  <2> QED BY <2>1, <2>2 DEF PosterTypes
<1>3. CASE BatchTaskLocks
  <2>1. /\ pc = "ready" /\ pc' = "top"
        /\ UNCHANGED <<head, paused, pending, full, backlogged, left, missed>>
    BY <1>3 DEF BatchTaskLocks, B!Run, B!batchVars, B!roundVars
  <2> QED BY <2>1 DEF PosterTypes
<1>4. CASE B!BeginRound
  <2>1. /\ pc = "top" /\ pc' = "fetch" /\ missed' = FALSE /\ UNCHANGED <<head, paused, pending, full>>
        /\ \E h \in {head, cur} : backlogged' = (h > cur) /\ left' = B!BlocksToFetch(h)
    BY <1>4 DEF B!BeginRound, B!batchVars
  <2>2. PICK h \in {head, cur} : backlogged' = (h > cur) /\ left' = B!BlocksToFetch(h)
    BY <2>1
  <2>3. h \in Nat /\ Len(pending) < MaxBlocksPerBatch
    BY <1>0, <2>1 DEF PosterTypes
  <2>4. left' \in Nat /\ Len(pending) + left' <= MaxBlocksPerBatch
    BY <1>0, <2>2, <2>3 DEF B!BlocksToFetch, B!Smaller
  <2>5. backlogged' \in BOOLEAN
    BY <2>2
  <2> QED BY <2>1, <2>4, <2>5 DEF PosterTypes
<1>5. CASE B!FetchBlock
  <2>1. /\ pc = "fetch" /\ left > 0 /\ pending' = Append(pending, cur + got) /\ full' \in {full, TRUE}
        /\ left' \in {0, left - 1} /\ UNCHANGED <<head, pc, paused, backlogged, missed>>
    BY <1>5 DEF B!FetchBlock
  <2>2. Len(pending') = Len(pending) + 1
    BY <1>0, <2>1, AppendProperties
  <2>3. left' \in Nat /\ Len(pending') + left' <= MaxBlocksPerBatch
    BY <1>0, <2>1, <2>2 DEF PosterTypes
  <2>4. full' \in BOOLEAN
    BY <2>1 DEF PosterTypes
  <2> QED BY <2>1, <2>3, <2>4 DEF PosterTypes
<1>6. CASE B!FetchDone
  <2>1. /\ pc = "fetch" /\ left = 0 /\ UNCHANGED <<head, paused, pending, full, backlogged, left, missed>>
        /\ pc' \in {"submit", "top"} /\ (pc' = "top" => ~B!ShouldSubmit)
    BY <1>6 DEF B!FetchDone, B!batchVars, B!roundVars
  <2>2. pc' = "top" => Len(pending) < MaxBlocksPerBatch
    <3> SUFFICES ASSUME ~B!ShouldSubmit PROVE Len(pending) < MaxBlocksPerBatch
      BY <2>1
    <3>1. CASE pending = << >>
      BY <1>0, <3>1
    <3>2. CASE pending # << >>
      BY <1>0, <3>2 DEF B!ShouldSubmit
    <3> QED BY <3>1, <3>2
  <2> QED BY <2>1, <2>2 DEF PosterTypes
<1>7. CASE B!FetchFails
  <2>1. /\ pc = "fetch" /\ missed' = TRUE /\ left' = 0
        /\ UNCHANGED <<head, pc, paused, pending, full, backlogged>>
    BY <1>7 DEF B!FetchFails, B!batchVars
  <2> QED BY <1>0, <2>1 DEF PosterTypes
<1>8. CASE B!ClearPending
  <2>1. /\ pending' = << >> /\ full' = FALSE /\ pc' = "top"
        /\ UNCHANGED <<head, paused, backlogged, left, missed>>
    BY <1>8 DEF B!ClearPending, B!roundVars
  <2>2. Len(pending') = 0
    BY <2>1
  <2>3. Len(pending') + left <= MaxBlocksPerBatch /\ Len(pending') < MaxBlocksPerBatch
    BY <1>0, <2>2 DEF PosterTypes
  <2> QED BY <2>1, <2>3 DEF PosterTypes
<1>9. CASE UISetsRunners
  <2>1. paused' = isPaused /\ UNCHANGED <<head, pc, pending, full, backlogged, left, missed>>
    BY <1>9 DEF UISetsRunners, B!SetPaused, B!batchVars, B!roundVars
  <2>2. paused' \in BOOLEAN
    BY <2>1 DEF LockInv
  <2> QED BY <2>1, <2>2 DEF PosterTypes
<1>10. CASE \/ OnBatchSubmitted \/ DerivationTask \/ PressPause \/ PressReset \/ UILocksBatch
            \/ UNCHANGED vars
  <2>1. UNCHANGED batchOwn
    BY <1>10 DEF OnBatchSubmitted, DerivationTask, DerivationLocks, DerivationTicks, SourceErrs, DerivationIdles,
       ReportsDerived, ReportsError, PressPause, PressReset, UILocksBatch, vars
  <2> QED BY <1>1, <2>1
<1> QED BY <1>2, <1>3, <1>4, <1>5, <1>6, <1>7, <1>8, <1>9, <1>10
        DEF Next, BatchTask, BatchTaskFetches, Submits, SubmitFails, B!SubmitBatch, B!SubmitFails,
            UITask

(* What a tick's step does, and what the task has to report of it.         *)
Ticks ==
    /\ \/ (Begins \/ Executes) /\ outcome' = "none"
       \/ Records /\ outcome' = "derived"
       \/ GivesUp /\ outcome' = "error"
    /\ tickLock = "task" /\ tickLock' = IF dpc' = "idle" THEN "free" ELSE "task"
    /\ l1' = l1 /\ lost' = lost
    /\ UNCHANGED <<batchOwn, batchLock, uiVars, appVars, callback>>

(* A tick's step is one of these.                                          *)
LEMMA TickCases ==
    ASSUME Types, PostInv, ReadInv, DerivationTicks
    PROVE  Ticks
<1>1. /\ tickLock = "task" /\ tickLock' = IF dpc' = "idle" THEN "free" ELSE "task"
      /\ UNCHANGED <<batchOwn, batchLock, uiVars, appVars, callback>>
      /\ \/ D!TickStep /\ outcome' = IF recorded' # recorded THEN "derived" ELSE "none"
         \/ D!DeriveFails /\ outcome' = "error"
  BY DEF DerivationTicks
<1>2. Derives
  <2>1. l1' = l1
    BY <1>1 DEF D!TickStep, D!DeriveFails, D!SkipBatch, D!BeginBatch, D!NextBatch,
                D!ExecuteBlock, D!RecordBatch
  <2> QED BY <1>1, <2>1 DEF KeepsBatch, B!Fetched, Derives, batchOwn
<1>3. l1' = l1 /\ lost' = lost /\ (Begins \/ Executes \/ Records \/ GivesUp)
  BY <1>2, DeriveCases
<1>4. CASE D!TickStep /\ outcome' = IF recorded' # recorded THEN "derived" ELSE "none"
  <2>1. (Begins \/ Executes) => outcome' = "none"
    BY <1>4 DEF Begins, Executes
  <2>2. Records => outcome' = "derived"
    BY <1>4 DEF Records, ReadInv
  <2>3. ~GivesUp
    <3>1. Len(l1[read].blocks) \in Nat \/ dpc = "idle"
      BY L1Batches DEF Types, ReadInv
    <3> QED BY <1>4, <3>1 DEF GivesUp, D!TickStep, D!SkipBatch, D!BeginBatch, D!NextBatch,
               D!ExecuteBlock, D!RecordBatch, D!Current, Types
  <2> QED BY <1>1, <1>3, <2>1, <2>2, <2>3 DEF Ticks
<1>5. CASE D!DeriveFails /\ outcome' = "error"
  <2>1. dpc = "execute" /\ dpc' = "idle" /\ recorded' = recorded
    BY <1>5 DEF D!DeriveFails, D!AfterError, D!checkpointVars
  <2>2. GivesUp
    BY <1>3, <2>1 DEF Begins, Executes, Records, ReadInv
  <2> QED BY <1>1, <1>3, <1>5, <2>2 DEF Ticks
<1> QED BY <1>1, <1>4, <1>5

(* The derivation runner keeps its types.                                  *)
LEMMA DeriverStep ==
    ASSUME Types, PostInv, ReadInv, DeriverTypes, LockInv, [Next]_vars
    PROVE  DeriverTypes'
<1>1. ASSUME UNCHANGED <<dpaused, saved, finalized, restarts>> PROVE DeriverTypes'
  BY <1>1 DEF DeriverTypes
<1>2. CASE DerivationTicks
  <2>1. CASE D!RecordBatch
    <3>1. /\ dpc = "execute" /\ UNCHANGED <<dpaused, restarts>> /\ finalized' = finalized + 1
          /\ saved' = IF l1[read].num > lastDerived THEN l1[read].num ELSE lastDerived
      BY <2>1 DEF D!RecordBatch, D!BlocksInBatch, D!RecordBatchDerived, D!Current
    <3>2. l1[read].num \in Nat /\ lastDerived \in Nat
      BY <3>1, L1Batches DEF Types, ReadInv
    <3> QED BY <3>1, <3>2 DEF DeriverTypes
  <2>2. CASE ~D!RecordBatch
    <3>1. UNCHANGED <<dpaused, saved, finalized, restarts>>
      BY <1>2, <2>2 DEF DerivationTicks, D!TickStep, D!DeriveFails, D!SkipBatch, D!BeginBatch,
                D!NextBatch, D!ExecuteBlock, D!checkpointVars
    <3> QED BY <1>1, <3>1
  <2> QED BY <2>1, <2>2
<1>3. CASE UISetsRunners
  <2>1. dpaused' = isPaused /\ UNCHANGED <<saved, finalized, restarts>>
    BY <1>3 DEF UISetsRunners, D!SetPaused, D!checkpointVars
  <2>2. dpaused' \in BOOLEAN
    BY <2>1 DEF LockInv
  <2> QED BY <2>1, <2>2 DEF DeriverTypes
<1>4. CASE ~DerivationTicks /\ ~UISetsRunners
  <2>1. UNCHANGED runnerOwn
    BY <1>4 DEF Next, BatchTask, DerivationTask, UITask, ChainGrows, BatchTaskLocks,
       BatchTaskFetches, BatchTaskRuns, Submits, SubmitFails, OnBatchSubmitted, DerivationLocks,
       SourceErrs, D!SourceFails, D!AfterError, D!checkpointVars, DerivationIdles, ReportsDerived,
       ReportsError, PressPause, PressReset, UILocksBatch, vars, runnerOwn
  <2> QED BY <1>1, <2>1 DEF runnerOwn
<1> QED BY <1>2, <1>3, <1>4

(* Who holds which lock.                                                   *)
LEMMA LockStep ==
    ASSUME Types, PostInv, ReadInv, LockInv, [Next]_vars
    PROVE  LockInv'
<1>0. /\ keys \in Nat /\ resets \in Nat /\ resets <= keys /\ keys <= MaxKeys /\ MaxKeys \in Nat
      /\ isPaused \in BOOLEAN /\ read \in Nat
  BY KeysAssumption, L1Batches DEF LockInv, Types
<1>1. /\ read > 0 => l1'[read] = l1[read]
      /\ read \in 0..Len(l1)
  <2>1. read \in 0..Len(l1) /\ Len(l1) \in Nat
    BY L1Batches DEF Types
  <2> QED BY <2>1, L1Grows
<1> USE DEF batchOwn, runnerOwn, uiVars
<1>2. ASSUME UNCHANGED <<batchLock, tickLock, uiVars, outcome, dpc, read, recorded>>,
             pc' # "ready" => batchLock = "task"
      PROVE  LockInv'
  BY <1>0, <1>1, <1>2 DEF LockInv
<1>3. CASE ChainGrows \/ BatchTaskLocks
  <2>1. /\ UNCHANGED <<tickLock, uiVars, outcome, dpc, read, recorded>>
        /\ \/ pc' = pc /\ batchLock' = batchLock
           \/ batchLock' = "task"
    BY <1>3 DEF ChainGrows, BatchTaskLocks, B!ChainGrows
  <2> QED BY <1>0, <1>1, <2>1 DEF LockInv
<1>4. CASE BatchTaskFetches \/ Submits \/ SubmitFails
  <2>1. /\ UNCHANGED <<batchLock, tickLock, uiVars, outcome, dpc, read, recorded>>
        /\ batchLock = "task"
    BY <1>4 DEF BatchTaskFetches, Submits, SubmitFails, BatchTaskRuns
  <2> QED BY <1>2, <2>1
<1>5. CASE OnBatchSubmitted \/ UNCHANGED vars
  <2>1. UNCHANGED <<batchLock, tickLock, uiVars, outcome, dpc, read, recorded, pc>>
    BY <1>5 DEF OnBatchSubmitted, vars
  <2> QED BY <1>2, <2>1 DEF LockInv
<1>6. CASE DerivationLocks \/ DerivationIdles
  <2>1. /\ UNCHANGED <<batchLock, uiVars, outcome, dpc, read, recorded, pc, l1>>
        /\ \/ tickLock' = "task" /\ outcome = "none"
           \/ tickLock' = "free" /\ dpc = "idle"
    BY <1>6 DEF DerivationLocks, DerivationIdles
  <2> QED BY <1>0, <2>1 DEF LockInv
<1>11. CASE SourceErrs
  <2>1. /\ UNCHANGED <<batchLock, uiVars, dpc, read, recorded, pc, l1>>
        /\ outcome' = "error" /\ tickLock' = "free" /\ dpc = "idle"
    BY <1>11 DEF SourceErrs, D!SourceFails, D!AfterError, D!checkpointVars
  <2> QED BY <1>0, <2>1 DEF LockInv
<1>7. CASE ReportsDerived \/ ReportsError
  <2>1. UNCHANGED <<batchLock, tickLock, uiVars, dpc, read, recorded, pc, l1>> /\ outcome' = "none"
    BY <1>7 DEF ReportsDerived, ReportsError
  <2> QED BY <1>0, <2>1 DEF LockInv
<1>8. CASE DerivationTicks
  <2>1. Ticks
    BY <1>8, TickCases
  <2>2. UNCHANGED <<batchLock, uiVars, pc, l1>>
    BY <2>1 DEF Ticks
  <2>3. /\ tickLock' \in {"free", "task"} /\ outcome' \in {"none", "derived", "error"}
        /\ dpc' = "execute" => tickLock' = "task"
        /\ outcome' # "none" => tickLock' = "free"
        /\ outcome' = "derived" => read' = read /\ dpc = "execute" /\ recorded' = recorded \union {l1[read].num}
    BY <2>1 DEF Ticks, Begins, Executes, Records, GivesUp
  <2>4. outcome' = "derived" => read' > 0 /\ l1'[read'].num \in recorded'
    BY <2>2, <2>3 DEF ReadInv
  <2> QED BY <1>0, <2>2, <2>3, <2>4 DEF LockInv
<1>9. CASE PressPause \/ PressReset \/ UILocksBatch
  <2>1. /\ UNCHANGED <<tickLock, outcome, dpc, read, recorded, pc, l1>>
        /\ ui' \in {"loop", "batch", "derivation"}
        /\ isPaused' \in BOOLEAN
        /\ batchLock' = batchLock \/ (batchLock = "free" /\ batchLock' = "ui")
    BY <1>0, <1>9 DEF PressPause, PressReset, UILocksBatch, LockInv
  <2>2. keys' \in 0..MaxKeys /\ resets' \in 0..keys'
    <3>1. \/ keys' = keys /\ resets' = resets
          \/ keys < MaxKeys /\ keys' = keys + 1 /\ resets' \in {resets, resets + 1}
      BY <1>9 DEF PressPause, PressReset, UILocksBatch
    <3> QED BY <1>0, <3>1
  <2> QED BY <1>0, <2>1, <2>2 DEF LockInv
<1>10. CASE UISetsRunners
  <2>1. /\ UNCHANGED <<tickLock, isPaused, keys, resets, outcome, dpc, read, recorded, pc, l1>>
        /\ ui' = "loop" /\ batchLock' = "free" /\ pc = "ready"
    BY <1>10 DEF UISetsRunners, D!SetPaused, B!SetPaused, D!checkpointVars
  <2> QED BY <1>0, <2>1 DEF LockInv
<1> QED BY <1>3, <1>4, <1>5, <1>6, <1>7, <1>8, <1>9, <1>10, <1>11
        DEF Next, BatchTask, DerivationTask, UITask

(* Numbers of batches at every step.                                       *)
LEMMA NumStep ==
    ASSUME Types, PostInv, ReadInv, NumInv, [Next]_vars
    PROVE  NumInv'
<1>0. /\ l1 \in Seq(Batch) /\ lost \in Seq(Batch) /\ Len(l1) \in Nat /\ Len(lost) \in Nat /\ num \in Nat
      /\ \A i \in 1..Len(lost) : lost[i].num \in Nat
  <2>1. l1 \in Seq(Batch) /\ lost \in Seq(Batch) /\ Len(l1) \in Nat /\ Len(lost) \in Nat /\ num \in Nat
    BY LenProperties DEF Types
  <2>2. \A i \in 1..Len(lost) : lost[i] \in Batch
    BY <2>1, ElementOfSeq
  <2> QED BY <2>1, <2>2 DEF Batch
<1>1. ASSUME UNCHANGED <<num, l1, lost>>, \/ UNCHANGED recorded
                                          \/ \E x : recorded' = recorded \cup {x}
      PROVE  NumInv'
  <2>1. IsFiniteSet(recorded')
    BY <1>1, FS_AddElement DEF NumInv
  <2> QED BY <1>1, <2>1 DEF NumInv
<1>2. CASE Fetches
  BY <1>1, <1>2 DEF Fetches, derivation
<1>3. CASE KeepsBatch /\ UNCHANGED derivation
  BY <1>1, <1>3 DEF KeepsBatch, derivation
<1>4. CASE Derives
  <2>1. UNCHANGED <<num, l1, lost>>
    BY <1>4 DEF Derives, KeepsBatch
  <2> QED BY <1>1, <1>4, <2>1, DeriveCases DEF Begins, Executes, Records, GivesUp
<1>5. CASE Clears
  <2> DEFINE T == B!ThisBatch
  <2>1. T \in Batch /\ T.num = num
    BY <1>5, ThisBatchContinues DEF Clears
  <2> HIDE DEF T
  <2>2. /\ num' = num + 1 /\ recorded' = recorded
        /\ \/ l1' = Append(l1, T) /\ lost' = lost
           \/ lost' = Append(lost, T)
    BY <1>5 DEF Clears, derivation, T
  <2>3. /\ Len(Append(l1, T)) = Len(l1) + 1 /\ Append(l1, T)[Len(l1) + 1] = T
        /\ \A k \in 1..Len(l1) : Append(l1, T)[k] = l1[k]
    BY <1>0, <2>1, AppendProperties
  <2>4. /\ Len(Append(lost, T)) = Len(lost) + 1 /\ Append(lost, T)[Len(lost) + 1] = T
        /\ \A k \in 1..Len(lost) : Append(lost, T)[k] = lost[k]
        /\ Append(lost, T) # << >>
    BY <1>0, <2>1, AppendProperties
  <2>5. CASE l1' = Append(l1, T) /\ lost' = lost
    <3>1. \A i \in 1..Len(lost') : lost'[i].num < num'
      BY <1>0, <2>2, <2>5 DEF NumInv
    <3>2. ASSUME lost' = << >> PROVE num' = Len(l1') /\ \A k \in 1..Len(l1') : l1'[k].num + 1 = k
      <4>1. num = Len(l1) /\ \A k \in 1..Len(l1) : l1[k].num + 1 = k
        BY <2>5, <3>2 DEF NumInv
      <4>2. ASSUME NEW k \in 1..Len(l1') PROVE l1'[k].num + 1 = k
        <5>1. k = Len(l1) + 1 \/ k \in 1..Len(l1)
          BY <1>0, <2>3, <2>5
        <5> QED BY <2>1, <2>3, <2>5, <4>1, <5>1
      <4> QED BY <2>2, <2>3, <2>5, <4>1, <4>2
    <3> QED BY <2>2, <3>1, <3>2 DEF NumInv
  <2>6. CASE lost' = Append(lost, T)
    <3>1. ASSUME NEW i \in 1..Len(lost') PROVE lost'[i].num < num'
      <4>1. i = Len(lost) + 1 \/ i \in 1..Len(lost)
        BY <1>0, <2>4, <2>6
      <4>2. CASE i = Len(lost) + 1
        BY <1>0, <2>1, <2>2, <2>4, <2>6, <4>2
      <4>3. CASE i \in 1..Len(lost)
        <5>1. lost[i].num < num /\ lost[i].num \in Nat /\ lost'[i] = lost[i]
          BY <1>0, <2>4, <2>6, <4>3 DEF NumInv
        <5> QED BY <1>0, <2>2, <5>1
      <4> QED BY <4>1, <4>2, <4>3
    <3> QED BY <2>2, <2>4, <2>6, <3>1 DEF NumInv
  <2> QED BY <2>2, <2>5, <2>6
<1> QED BY <1>2, <1>3, <1>4, <1>5, StepCases

(* What the batch at hand is not: recorded before.                         *)
LEMMA NotRecordedYet ==
    ASSUME Types, PostInv, ReadInv, NEW k \in 1..Len(l1), k > read
    PROVE  l1[k].num \notin recorded
<1> SUFFICES ASSUME l1[k].num \in recorded PROVE FALSE
  OBVIOUS
<1>1. PICK m \in 1..read : l1[m].num = l1[k].num
  BY DEF ReadInv
<1>2. m \in 1..Len(l1) /\ m < k
  BY <1>1, L1Batches DEF Types
<1> QED BY <1>1, <1>2, L1Batches

(* What is executed stays so.                                              *)
LEMMA ExecutedStays ==
    ASSUME NEW T, executed \in Seq(T), NEW x \in T, executed' = Append(executed, x)
    PROVE  /\ \E i \in 1..Len(executed') : executed'[i] = x
           /\ \A b : IsExecuted(b) => \E i \in 1..Len(executed') : executed'[i] = b
<1>1. /\ Len(executed') = Len(executed) + 1 /\ executed'[Len(executed) + 1] = x /\ Len(executed) \in Nat
      /\ \A i \in 1..Len(executed) : executed'[i] = executed[i]
  BY AppendProperties, LenProperties
<1>2. /\ Len(executed) + 1 \in 1..Len(executed')
      /\ \A i \in 1..Len(executed) : i \in 1..Len(executed')
  BY <1>1
<1> QED BY <1>1, <1>2 DEF IsExecuted

(* Batches are executed to their end at every step.                        *)
LEMMA DoneStep ==
    ASSUME Types, PostInv, ReadInv, ExecInv, DoneInv, [Next]_vars
    PROVE  DoneInv'
<1>0. /\ Len(l1) \in Nat /\ read \in 0..Len(l1) /\ done \in Nat
      /\ executed \in Seq(Nat) /\ Len(executed) \in Nat
      /\ \A k \in 1..read : k \in 1..Len(l1)
  BY L1Batches, LenProperties DEF Types
<1>1. ASSUME UNCHANGED derivation PROVE DoneInv'
  <2>1. /\ \A k \in 1..read : l1'[k] = l1[k]
        /\ dpc = "execute" => l1'[read] = l1[read]
    <3>1. \A k \in 1..Len(l1) : l1'[k] = l1[k]
      BY L1Grows
    <3>2. dpc = "execute" => read \in 1..Len(l1)
      BY <1>0 DEF ReadInv
    <3> QED BY <1>0, <3>1, <3>2
  <2>2. UNCHANGED <<read, dpc, done, executed, recorded>>
    BY <1>1 DEF derivation
  <2> QED BY <2>1, <2>2 DEF DoneInv, IsExecuted
<1>2. CASE Fetches \/ Clears \/ (KeepsBatch /\ UNCHANGED derivation)
  BY <1>1, <1>2 DEF Fetches, Clears
<1>3. CASE Derives
  <2>0. l1' = l1 /\ (Begins \/ Executes \/ Records \/ GivesUp)
    BY <1>3, DeriveCases
  <2>1. CASE Begins
    <3>1. /\ read' = read + 1 /\ done' = 0 /\ UNCHANGED <<recorded, executed>> /\ read + 1 \in 1..Len(l1)
      BY <2>1 DEF Begins
    <3>2. l1[read + 1].num \notin recorded
      BY <1>0, <3>1, NotRecordedYet
    <3>3. \A k \in 1..read' : k = read + 1 \/ k \in 1..read
      BY <1>0, <3>1
    <3>4. 1..0 = {}
      OBVIOUS
    <3>5. \A k \in 1..read' : l1[k].num \in recorded =>
             \A j \in 1..Len(l1[k].blocks) : IsExecuted(l1[k].blocks[j])
      BY <3>2, <3>3 DEF DoneInv
    <3>6. \A b : IsExecuted(b) => IsExecuted(b)'
      BY <3>1 DEF IsExecuted
    <3> QED BY <2>0, <3>1, <3>4, <3>5, <3>6 DEF DoneInv
  <2>2. CASE Executes
    <3> DEFINE x == l1[read].blocks[done + 1]
    <3>1. /\ dpc = "execute" /\ done + 1 \in 1..Len(l1[read].blocks) /\ executed' = Append(executed, x)
          /\ done' = done + 1 /\ UNCHANGED <<read, dpc, recorded>>
      BY <2>2 DEF Executes
    <3>2. read \in 1..Len(l1)
      BY <1>0, <3>1 DEF ReadInv
    <3>3. x \in Nat /\ x = First(l1[read]) + done
      <4>1. x \in Nat /\ x + 1 = First(l1[read]) + (done + 1) /\ First(l1[read]) \in Nat
        BY <3>1, <3>2, L1Batches
      <4> HIDE DEF x
      <4> QED BY <1>0, <4>1
    <3>4. \A i \in 1..Len(executed) : executed[i] < x
      BY <3>1, <3>3 DEF ExecInv
    <3> HIDE DEF x
    <3>5. /\ \E i \in 1..Len(executed') : executed'[i] = x
          /\ \A b : IsExecuted(b) => \E i \in 1..Len(executed') : executed'[i] = b
      BY <1>0, <3>1, <3>3, ExecutedStays
    <3>6. /\ Len(executed') = Len(executed) + 1 /\ executed'[Len(executed) + 1] = x
          /\ \A i \in 1..Len(executed) : executed'[i] = executed[i]
      BY <1>0, <3>1, <3>3, AppendProperties
    <3>7. ASSUME NEW i \in 1..Len(executed'), NEW j \in 1..Len(executed'), i < j
          PROVE  executed'[i] < executed'[j]
      <4>1. i \in 1..Len(executed) /\ (j = Len(executed) + 1 \/ j \in 1..Len(executed))
        BY <1>0, <3>6, <3>7
      <4>2. CASE j = Len(executed) + 1
        BY <3>4, <3>6, <4>1, <4>2
      <4>3. CASE j \in 1..Len(executed)
        BY <3>6, <3>7, <4>1, <4>3 DEF DoneInv
      <4> QED BY <4>1, <4>2, <4>3
    <3>8. ASSUME NEW j \in 1..done' PROVE \E i \in 1..Len(executed') : executed'[i] = l1[read].blocks[j]
      <4>1. j = done + 1 \/ j \in 1..done
        BY <1>0, <3>1
      <4>2. CASE j = done + 1
        BY <2>0, <3>1, <3>5, <4>2 DEF x
      <4>3. CASE j \in 1..done
        <5>1. IsExecuted(l1[read].blocks[j])
          BY <3>1, <4>3 DEF DoneInv
        <5> QED BY <3>5, <5>1
      <4> QED BY <4>1, <4>2, <4>3
    <3>9. ASSUME NEW k \in 1..read, l1[k].num \in recorded, NEW j \in 1..Len(l1[k].blocks)
          PROVE  \E i \in 1..Len(executed') : executed'[i] = l1[k].blocks[j]
      <4>1. IsExecuted(l1[k].blocks[j])
        BY <3>9 DEF DoneInv
      <4> QED BY <3>5, <4>1
    <3> QED BY <2>0, <3>1, <3>7, <3>8, <3>9 DEF DoneInv, IsExecuted
  <2>3. CASE Records
    <3>1. /\ dpc = "execute" /\ done = Len(l1[read].blocks) /\ dpc' = "idle"
          /\ recorded' = recorded \union {l1[read].num} /\ UNCHANGED <<read, done, executed>>
      BY <2>3 DEF Records
    <3>2. read \in 1..Len(l1)
      BY <1>0, <3>1 DEF ReadInv
    <3>3. ASSUME NEW k \in 1..read, l1[k].num \in recorded', NEW j \in 1..Len(l1[k].blocks)
          PROVE  IsExecuted(l1[k].blocks[j])
      <4>1. CASE k = read
        BY <3>1, <3>3, <4>1 DEF DoneInv
      <4>2. CASE k # read
        <5>1. k \in 1..Len(l1) /\ k < read
          BY <1>0, <4>2
        <5>2. l1[k].num < l1[read].num /\ l1[k].num \in Nat /\ l1[read].num \in Nat
          BY <3>2, <5>1, L1Batches
        <5>3. l1[k].num \in recorded
          BY <3>1, <3>3, <5>2
        <5> QED BY <3>3, <5>3 DEF DoneInv
      <4> QED BY <4>1, <4>2
    <3> QED BY <2>0, <3>1, <3>3 DEF DoneInv, IsExecuted
  <2>4. CASE GivesUp
    <3>1. dpc' = "idle" /\ UNCHANGED <<read, done, recorded, executed>>
      BY <2>4 DEF GivesUp
    <3> QED BY <2>0, <3>1 DEF DoneInv, IsExecuted
  <2> QED BY <2>0, <2>1, <2>2, <2>3, <2>4
<1> QED BY <1>2, <1>3, StepCases

(* A sequence without repetition has as many elements as places.           *)
LEMMA RangeCount ==
    ASSUME NEW n \in Nat, NEW f, NEW S,
           \A i \in 1..n : f[i] \in S,
           \A s \in S : \E i \in 1..n : f[i] = s,
           \A i, j \in 1..n : i < j => f[i] # f[j]
    PROVE  IsFiniteSet(S) /\ Cardinality(S) = n
<1> DEFINE g == [i \in 1..n |-> f[i]]
<1>1. g \in [1..n -> S] /\ \A i \in 1..n : g[i] = f[i]
  OBVIOUS
<1> HIDE DEF g
<1>2. g \in Surjection(1..n, S)
  BY <1>1 DEF Surjection
<1>3. \A i, j \in 1..n : g[i] = g[j] => i = j
  <2> SUFFICES ASSUME NEW i \in 1..n, NEW j \in 1..n, g[i] = g[j], i # j PROVE FALSE
    OBVIOUS
  <2>1. i < j \/ j < i
    OBVIOUS
  <2> QED BY <1>1, <2>1
<1>4. g \in Injection(1..n, S)
  BY <1>1, <1>3 DEF Injection, IsInjective
<1>5. IsFiniteSet(1..n) /\ Cardinality(1..n) = n
  BY FS_Interval
<1> QED BY <1>2, <1>4, <1>5, FS_Surjection

(* The blocks on L1 lie below the first one that is in no batch.           *)
LEMMA BlocksOnL1 ==
    ASSUME Types, PostInv
    PROVE  /\ \A b : b \in B!BlocksOf(l1) <=>
                \E k \in 1..Len(l1) : \E j \in 1..Len(l1[k].blocks) : b = l1[k].blocks[j]
           /\ From \in Nat /\ 1 <= From
           /\ \A b \in B!BlocksOf(l1) : b \in Nat /\ 1 <= b /\ b < From
           /\ IsFiniteSet(B!BlocksOf(l1))
<1>1. /\ pending \in Seq(Nat) /\ Len(pending) \in Nat /\ B!Fetched \in Nat
  BY LenProperties DEF Types, B!Fetched
<1>2. From \in Nat /\ 1 <= From
  BY <1>1 DEF From, PostInv
<1>3. ASSUME NEW k \in 1..Len(l1) PROVE DOMAIN l1[k].blocks = 1..Len(l1[k].blocks)
  <2>1. l1[k].blocks \in Seq(Nat)
    BY L1Batches DEF Batch
  <2> QED BY <2>1, LenProperties
<1>4. \A b : b \in B!BlocksOf(l1) <=>
                \E k \in 1..Len(l1) : \E j \in 1..Len(l1[k].blocks) : b = l1[k].blocks[j]
  <2>1. DOMAIN l1 = 1..Len(l1)
    BY L1Batches
  <2>2. \A b : b \in B!BlocksOf(l1) <=> \E k \in 1..Len(l1) : \E j \in DOMAIN l1[k].blocks : b = l1[k].blocks[j]
    BY <2>1 DEF B!BlocksOf
  <2> QED BY <1>3, <2>2
<1>5. ASSUME NEW b \in B!BlocksOf(l1) PROVE b \in Nat /\ 1 <= b /\ b < From
  <2>1. PICK k \in 1..Len(l1) : \E j \in 1..Len(l1[k].blocks) : b = l1[k].blocks[j]
    BY <1>4
  <2>2. PICK j \in 1..Len(l1[k].blocks) : b = l1[k].blocks[j]
    BY <2>1
  <2>3. /\ First(l1[k]) \in Nat /\ 1 <= First(l1[k]) /\ b \in Nat /\ b + 1 = First(l1[k]) + j
        /\ Last(l1[k]) \in Nat /\ Last(l1[k]) + 1 = First(l1[k]) + Len(l1[k].blocks)
        /\ Len(l1[k].blocks) \in Nat
    BY <2>2, L1Batches
  <2>4. Last(l1[k]) < From
    BY DEF PostInv, Ordered
  <2> QED BY <1>2, <2>2, <2>3, <2>4
<1>6. IsFiniteSet(B!BlocksOf(l1))
  <2>1. B!BlocksOf(l1) \in SUBSET (1..From)
    BY <1>2, <1>5
  <2>2. IsFiniteSet(1..From)
    BY <1>2, FS_Interval
  <2> QED BY <2>1, <2>2, FS_Subset
<1> QED BY <1>2, <1>4, <1>5, <1>6

(* A batch posted adds its blocks to those on L1.                          *)
LEMMA BlocksAdded ==
    ASSUME Types, PostInv, pending # << >>
    PROVE  Cardinality(B!BlocksOf(Append(l1, B!ThisBatch))) =
              Cardinality(B!BlocksOf(l1)) + Len(pending)
<1> DEFINE T == B!ThisBatch
           M == Append(l1, T)
           F == B!Fetched
           N == Len(pending)
           P == From..(F - 1)
<1>1. /\ pending \in Seq(Nat) /\ N \in Nat /\ F \in Nat
  BY LenProperties DEF Types, B!Fetched
<1>2. /\ T \in Batch /\ T.blocks = pending /\ From \in Nat /\ l1 \in Seq(Batch) /\ Len(l1) \in Nat
      /\ DOMAIN pending = 1..N
  BY <1>1, ThisBatchContinues, LenProperties DEF B!ThisBatch, Types
<1>3. From = F - N /\ N <= F /\ \A j \in 1..N : pending[j] + N + 1 = F + j
  BY <1>1 DEF From, PostInv
<1>4. \A j \in 1..N : pending[j] \in Nat
  BY <1>1, ElementOfSeq
<1> HIDE DEF T, F, N
<1>5. /\ M \in Seq(Batch) /\ Len(M) = Len(l1) + 1 /\ M[Len(l1) + 1] = T /\ \A k \in 1..Len(l1) : M[k] = l1[k]
      /\ DOMAIN M = 1..(Len(l1) + 1)
  BY <1>2, AppendProperties, LenProperties
<1> HIDE DEF M
<1>6. \A b : b \in P <=> \E j \in 1..N : b = pending[j]
  <2>1. ASSUME NEW j \in 1..N PROVE pending[j] \in P
    <3>1. pending[j] \in Nat /\ pending[j] + N + 1 = F + j
      BY <1>3, <1>4
    <3> QED BY <1>1, <1>3, <3>1
  <2>2. ASSUME NEW b \in P PROVE \E j \in 1..N : b = pending[j]
    <3>1. b \in Int /\ (b + 1 + N - F) \in 1..N
      BY <1>1, <1>3
    <3>2. pending[b + 1 + N - F] + N + 1 = F + (b + 1 + N - F) /\ pending[b + 1 + N - F] \in Nat
      BY <1>3, <1>4, <3>1
    <3>3. pending[b + 1 + N - F] = b
      BY <1>1, <3>1, <3>2
    <3> QED BY <3>1, <3>3
  <2> QED BY <2>1, <2>2
<1>7. B!BlocksOf(M) = B!BlocksOf(l1) \cup P
  <2>1. \A b : b \in B!BlocksOf(M) <=> \E k \in 1..(Len(l1) + 1) : \E j \in DOMAIN M[k].blocks : b = M[k].blocks[j]
    BY <1>5 DEF B!BlocksOf
  <2>2. \A b : b \in B!BlocksOf(l1) <=> \E k \in 1..Len(l1) : \E j \in DOMAIN l1[k].blocks : b = l1[k].blocks[j]
    <3>1. DOMAIN l1 = 1..Len(l1)
      BY L1Batches
    <3> QED BY <3>1 DEF B!BlocksOf
  <2>3. ASSUME NEW b \in B!BlocksOf(M) PROVE b \in B!BlocksOf(l1) \/ b \in P
    <3>1. PICK k \in 1..(Len(l1) + 1) : \E j \in DOMAIN M[k].blocks : b = M[k].blocks[j]
      BY <2>1
    <3>2. k \in 1..Len(l1) \/ k = Len(l1) + 1
      BY <1>2
    <3>3. CASE k \in 1..Len(l1)
      BY <1>5, <2>2, <3>1, <3>3
    <3>4. CASE k = Len(l1) + 1
      BY <1>2, <1>5, <1>6, <3>1, <3>4
    <3> QED BY <3>2, <3>3, <3>4
  <2>4. ASSUME NEW b \in B!BlocksOf(l1) PROVE b \in B!BlocksOf(M)
    <3>1. PICK k \in 1..Len(l1) : \E j \in DOMAIN l1[k].blocks : b = l1[k].blocks[j]
      BY <2>2
    <3>2. k \in 1..(Len(l1) + 1) /\ M[k] = l1[k]
      BY <1>2, <1>5
    <3> QED BY <2>1, <3>1, <3>2
  <2>5. ASSUME NEW b \in P PROVE b \in B!BlocksOf(M)
    <3>1. Len(l1) + 1 \in 1..(Len(l1) + 1)
      BY <1>2
    <3>2. \E j \in DOMAIN M[Len(l1) + 1].blocks : b = M[Len(l1) + 1].blocks[j]
      BY <1>2, <1>5, <1>6
    <3> QED BY <2>1, <3>1, <3>2
  <2> QED BY <2>3, <2>4, <2>5
<1>8. B!BlocksOf(l1) \cap P = {}
  <2>1. \A b \in B!BlocksOf(l1) : b \in Nat /\ b < From
    BY BlocksOnL1
  <2> QED BY <1>2, <2>1
<1>9. IsFiniteSet(P) /\ Cardinality(P) = N
  <2>1. From \in Int /\ F - 1 \in Int
    BY <1>1, <1>2
  <2>2. IsFiniteSet(P) /\ Cardinality(P) = IF From > F - 1 THEN 0 ELSE (F - 1) - From + 1
    BY <2>1, FS_Interval
  <2> HIDE DEF P
  <2> QED BY <1>1, <1>2, <1>3, <2>2
<1>10. IsFiniteSet(B!BlocksOf(l1)) /\ Cardinality(B!BlocksOf(l1)) \in Nat
  BY BlocksOnL1, FS_CardinalityType
<1>11. Cardinality(B!BlocksOf(M)) = Cardinality(B!BlocksOf(l1)) + Cardinality(P) - Cardinality({})
  <2> HIDE DEF P
  <2> QED BY <1>7, <1>8, <1>9, <1>10, FS_Union
<1> QED BY <1>1, <1>9, <1>10, <1>11, FS_EmptySet DEF M, T, N

(* Failed submissions that reached L1 nevertheless.                        *)
LEMMA FailedFinite ==
    ASSUME Types
    PROVE  /\ \A b : b \in FailedButIncluded <=>
                /\ \E i \in 1..Len(lost) : b = lost[i]
                /\ \E k \in 1..Len(l1) : b = l1[k]
           /\ IsFiniteSet(FailedButIncluded) /\ Cardinality(FailedButIncluded) \in Nat
<1>1. /\ l1 \in Seq(Batch) /\ lost \in Seq(Batch) /\ Len(l1) \in Nat /\ Len(lost) \in Nat
      /\ DOMAIN l1 = 1..Len(l1) /\ DOMAIN lost = 1..Len(lost)
  BY LenProperties DEF Types
<1>2. \A b : b \in FailedButIncluded <=>
                /\ \E i \in 1..Len(lost) : b = lost[i]
                /\ \E k \in 1..Len(l1) : b = l1[k]
  BY <1>1 DEF FailedButIncluded
<1> DEFINE R == {lost[i] : i \in 1..Len(lost)}
           f == [i \in 1..Len(lost) |-> lost[i]]
<1>3. f \in Surjection(1..Len(lost), R)
  BY DEF Surjection
<1>4. IsFiniteSet(1..Len(lost))
  BY <1>1, FS_Interval
<1>5. IsFiniteSet(R)
  <2> HIDE DEF R, f
  <2> QED BY <1>3, <1>4, FS_Surjection
<1>6. FailedButIncluded \in SUBSET R
  BY <1>2
<1>7. IsFiniteSet(FailedButIncluded)
  BY <1>5, <1>6, FS_Subset
<1> QED BY <1>2, <1>7, FS_CardinalityType

(* What a submission adds to the batches the App will have to account for. *)
LEMMA ClearsCount ==
    ASSUME Types, PostInv, NumInv, Types', pending # << >>,
           l1' \in {l1, Append(l1, B!ThisBatch)}, lost' \in {lost, Append(lost, B!ThisBatch)}
    PROVE  IF l1' # l1 /\ lost' # lost
           THEN /\ Cardinality(FailedButIncluded') = Cardinality(FailedButIncluded) + 1
                /\ FailedButIncluded' # {}
           ELSE FailedButIncluded' = FailedButIncluded
<1> DEFINE T == B!ThisBatch
<1>1. T \in Batch /\ T.num = num /\ num \in Nat
  BY ThisBatchContinues DEF Types
<1>2. /\ l1 \in Seq(Batch) /\ lost \in Seq(Batch) /\ Len(l1) \in Nat /\ Len(lost) \in Nat
  BY LenProperties DEF Types
<1>3. l1' \in {l1, Append(l1, T)} /\ lost' \in {lost, Append(lost, T)}
  OBVIOUS
<1> HIDE DEF T
<1>4. /\ \A i \in 1..Len(lost) : lost[i] # T
      /\ \A k \in 1..Len(l1) : l1[k] # T
  <2>1. \A i \in 1..Len(lost) : lost[i].num < num
    BY DEF NumInv
  <2>2. \A k \in 1..Len(l1) : l1[k].num < num
    BY DEF PostInv, Ordered
  <2> QED BY <1>1, <2>1, <2>2
<1>5. ASSUME NEW L \in Seq(Batch), NEW M, M = Append(L, T), NEW b
      PROVE  (\E k \in 1..Len(M) : b = M[k]) <=> (b = T \/ \E k \in 1..Len(L) : b = L[k])
  <2>1. /\ Len(L) \in Nat /\ Len(M) = Len(L) + 1 /\ M[Len(L) + 1] = T
        /\ \A k \in 1..Len(L) : M[k] = L[k]
    BY <1>1, <1>5, AppendProperties, LenProperties
  <2>2. /\ \A k \in 1..Len(M) : k = Len(L) + 1 \/ k \in 1..Len(L)
        /\ Len(L) + 1 \in 1..Len(M) /\ \A k \in 1..Len(L) : k \in 1..Len(M)
    BY <2>1
  <2> QED BY <2>1, <2>2
<1>6. \A b : b \in FailedButIncluded' <=>
                /\ \E i \in 1..Len(lost') : b = lost'[i]
                /\ \E k \in 1..Len(l1') : b = l1'[k]
  <2>1. DOMAIN l1' = 1..Len(l1') /\ DOMAIN lost' = 1..Len(lost')
    BY LenProperties DEF Types
  <2> QED BY <2>1 DEF FailedButIncluded
<1>7. \A b : b \in FailedButIncluded <=>
                /\ \E i \in 1..Len(lost) : b = lost[i]
                /\ \E k \in 1..Len(l1) : b = l1[k]
  BY FailedFinite
<1>8. T \notin FailedButIncluded
  BY <1>4, <1>7
<1>9. CASE l1' # l1 /\ lost' # lost
  <2>1. l1' = Append(l1, T) /\ lost' = Append(lost, T)
    BY <1>3, <1>9
  <2>2. \A b : /\ (\E k \in 1..Len(l1') : b = l1'[k]) <=> (b = T \/ \E k \in 1..Len(l1) : b = l1[k])
               /\ (\E k \in 1..Len(lost') : b = lost'[k]) <=> (b = T \/ \E k \in 1..Len(lost) : b = lost[k])
    BY <1>2, <1>5, <2>1
  <2>3. \A b : b \in FailedButIncluded' <=> b \in FailedButIncluded \/ b = T
    <3> SUFFICES ASSUME NEW b PROVE b \in FailedButIncluded' <=> b \in FailedButIncluded \/ b = T
      OBVIOUS
    <3>1. CASE b = T
      BY <1>6, <2>2, <3>1
    <3>2. CASE b # T
      BY <1>6, <1>7, <2>2, <3>2
    <3> QED BY <3>1, <3>2
  <2>4. FailedButIncluded' = FailedButIncluded \cup {T}
    BY <2>3
  <2>5. Cardinality(FailedButIncluded \cup {T}) = Cardinality(FailedButIncluded) + 1
    BY <1>8, FailedFinite, FS_AddElement
  <2> QED BY <1>9, <2>4, <2>5
<1>10. CASE ~(l1' # l1 /\ lost' # lost)
  <2>1. CASE l1' = l1 /\ lost' = lost
    BY <1>10, <2>1 DEF FailedButIncluded
  <2>2. CASE l1' = l1 /\ lost' = Append(lost, T)
    <3>1. \A b : (\E k \in 1..Len(lost') : b = lost'[k]) <=> (b = T \/ \E k \in 1..Len(lost) : b = lost[k])
      BY <1>2, <1>5, <2>2
    <3>2. \A b : b \in FailedButIncluded' <=> b \in FailedButIncluded
      BY <1>4, <1>6, <1>7, <2>2, <3>1
    <3> QED BY <1>10, <3>2
  <2>3. CASE l1' = Append(l1, T) /\ lost' = lost
    <3>1. \A b : (\E k \in 1..Len(l1') : b = l1'[k]) <=> (b = T \/ \E k \in 1..Len(l1) : b = l1[k])
      BY <1>2, <1>5, <2>3
    <3>2. \A b : b \in FailedButIncluded' <=> b \in FailedButIncluded
      BY <1>4, <1>6, <1>7, <2>3, <3>1
    <3> QED BY <1>10, <3>2
  <2> QED BY <1>3, <1>10, <2>1, <2>2, <2>3
<1> QED BY <1>9, <1>10

(* A sample pushes out the oldest one once the window is full.             *)
LEMMA WindowBounded ==
    ASSUME NEW X, NEW s \in Seq(X), Len(s) <= MaxSamples, NEW x \in X
    PROVE  /\ RecordLatency(s, x) \in Seq(X) /\ Len(RecordLatency(s, x)) <= MaxSamples
           /\ \A i \in 1..Len(RecordLatency(s, x)) :
                \/ RecordLatency(s, x)[i] = x
                \/ \E j \in 1..Len(s) : RecordLatency(s, x)[i] = s[j]
<1>0. Len(s) \in Nat /\ MaxSamples \in Nat \ {0}
  BY KeysAssumption, LenProperties
<1>1. PICK t \in Seq(X) : /\ RecordLatency(s, x) = Append(t, x) /\ Len(t) + 1 <= MaxSamples
                          /\ \A i \in 1..Len(t) : \E j \in 1..Len(s) : t[i] = s[j]
  <2>1. CASE Len(s) >= MaxSamples
    <3>1. s # << >> /\ Len(s) = MaxSamples
      BY <1>0, <2>1, EmptySeq
    <3>2. /\ Tail(s) \in Seq(X) /\ Len(Tail(s)) = Len(s) - 1
          /\ \A i \in 1..Len(Tail(s)) : Tail(s)[i] = s[i + 1]
      BY <3>1, HeadTailProperties
    <3>3. \A i \in 1..Len(Tail(s)) : i + 1 \in 1..Len(s)
      BY <1>0, <3>2
    <3>4. RecordLatency(s, x) = Append(Tail(s), x)
      BY <2>1 DEF RecordLatency
    <3>5. Len(Tail(s)) + 1 <= MaxSamples
      BY <1>0, <3>1, <3>2
    <3>6. \A i \in 1..Len(Tail(s)) : \E j \in 1..Len(s) : Tail(s)[i] = s[j]
      BY <3>2, <3>3
    <3> QED BY <3>2, <3>4, <3>5, <3>6
  <2>2. CASE ~(Len(s) >= MaxSamples)
    <3>1. RecordLatency(s, x) = Append(s, x)
      BY <2>2 DEF RecordLatency
    <3>2. Len(s) + 1 <= MaxSamples
      BY <1>0, <2>2
    <3> QED BY <3>1, <3>2
  <2> QED BY <2>1, <2>2
<1>2. /\ Append(t, x) \in Seq(X) /\ Len(Append(t, x)) = Len(t) + 1 /\ Append(t, x)[Len(t) + 1] = x
      /\ \A i \in 1..Len(t) : Append(t, x)[i] = t[i]
  BY AppendProperties
<1>3. Len(t) \in Nat
  BY LenProperties
<1>4. \A i \in 1..(Len(t) + 1) : i = Len(t) + 1 \/ i \in 1..Len(t)
  BY <1>3
<1>5. Len(RecordLatency(s, x)) = Len(t) + 1
  BY <1>1, <1>2
<1>6. ASSUME NEW i \in 1..Len(RecordLatency(s, x))
      PROVE  \/ RecordLatency(s, x)[i] = x
             \/ \E j \in 1..Len(s) : RecordLatency(s, x)[i] = s[j]
  <2>1. i = Len(t) + 1 \/ i \in 1..Len(t)
    BY <1>4, <1>5
  <2> QED BY <1>1, <1>2, <2>1
<1> QED BY <1>1, <1>2, <1>5, <1>6

(* A step that leaves alone what the App shows and what it is about.       *)
LEMMA AppKept ==
    ASSUME AppInv, UNCHANGED <<stats, times, callback, l1, lost, resets>>,
           outcome' # "derived" => outcome # "derived" /\ recorded' = recorded
    PROVE  AppInv'
<1>1. FailedButIncluded' = FailedButIncluded
  BY DEF FailedButIncluded
<1> QED BY <1>1 DEF AppInv

(* What the App has counted, at the steps of the batch task.               *)
LEMMA AppSubmitStep ==
    ASSUME Types, PostInv, Types', NumInv, AppInv, Submits \/ SubmitFails
    PROVE  AppInv'
<1> DEFINE T == B!ThisBatch
<1>1. /\ callback = NoBatch /\ pc = "submit" /\ UNCHANGED <<stats, times, resets, outcome, recorded>>
      /\ \/ l1' = Append(l1, T) /\ lost' = lost /\ callback' = T
         \/ l1' \in {l1, Append(l1, T)} /\ lost' = Append(lost, T) /\ callback' = callback
  BY DEF Submits, SubmitFails, BatchTaskRuns, B!SubmitBatch, B!SubmitFails, runnerOwn, uiVars
<1>2. pending # << >>
  BY <1>1 DEF Types
<1>3. /\ T \in Batch /\ T.blocks = pending
  BY <1>2, ThisBatchContinues DEF B!ThisBatch
<1>4. /\ l1 \in Seq(Batch) /\ lost \in Seq(Batch) /\ Len(l1) \in Nat /\ Len(pending) \in Nat
      /\ IsFiniteSet(B!BlocksOf(l1)) /\ Cardinality(B!BlocksOf(l1)) \in Nat
      /\ Cardinality(FailedButIncluded) \in Nat
  BY BlocksOnL1, FS_CardinalityType, FailedFinite, LenProperties DEF Types
<1>5. Cardinality(B!BlocksOf(Append(l1, T))) = Cardinality(B!BlocksOf(l1)) + Len(pending)
  BY <1>2, BlocksAdded
<1>6. l1' \in {l1, Append(l1, T)} /\ lost' \in {lost, Append(lost, T)}
  BY <1>1
<1>7. IF l1' # l1 /\ lost' # lost
      THEN /\ Cardinality(FailedButIncluded') = Cardinality(FailedButIncluded) + 1
           /\ FailedButIncluded' # {}
      ELSE FailedButIncluded' = FailedButIncluded
  BY <1>2, <1>6, ClearsCount
<1>8. NoBatch \notin Batch /\ Len(NoBatch.blocks) = 0
  BY DEF NoBatch, Batch
<1> HIDE DEF T
<1>9. Len(Append(l1, T)) = Len(l1) + 1 /\ Append(lost, T) # lost /\ Append(l1, T) # l1
  BY <1>3, <1>4, AppendProperties
<1>10. /\ stats \in Stats /\ stats.batches_submitted \in Nat /\ stats.blocks_processed \in Nat
  BY DEF AppInv, Stats
<1>11. callback' = NoBatch \/ callback' \in Batch
  BY <1>1, <1>3
<1>12. ASSUME resets = 0
       PROVE  /\ stats.batches_submitted + (IF callback' = NoBatch THEN 0 ELSE 1)
                   + Cardinality(FailedButIncluded') = Len(l1')
              /\ FailedButIncluded' = {} =>
                   stats.blocks_processed + Len(callback'.blocks) = Cardinality(B!BlocksOf(l1'))
  <2>1. /\ stats.batches_submitted + Cardinality(FailedButIncluded) = Len(l1)
        /\ FailedButIncluded = {} => stats.blocks_processed = Cardinality(B!BlocksOf(l1))
    BY <1>1, <1>4, <1>8, <1>10, <1>12 DEF AppInv
  <2>2. CASE l1' = Append(l1, T) /\ lost' = lost /\ callback' = T
    <3>1. FailedButIncluded' = FailedButIncluded
      BY <1>7, <2>2
    <3>2. callback' # NoBatch /\ Len(callback'.blocks) = Len(pending)
      BY <1>3, <1>8, <2>2
    <3>3. /\ Len(l1') = Len(l1) + 1
          /\ Cardinality(B!BlocksOf(l1')) = Cardinality(B!BlocksOf(l1)) + Len(pending)
      BY <1>5, <1>9, <2>2
    <3>4. stats' = stats
      BY <1>1
    <3> HIDE <1>1, <1>7, <2>2
    <3>5. stats.batches_submitted + 1 + Cardinality(FailedButIncluded') = Len(l1')
      BY <1>4, <1>10, <2>1, <3>1, <3>3
    <3>6. FailedButIncluded' = {} =>
            stats.blocks_processed + Len(callback'.blocks) = Cardinality(B!BlocksOf(l1'))
      BY <2>1, <3>1, <3>2, <3>3
    <3> QED BY <3>2, <3>5, <3>6
  <2>3. CASE l1' = Append(l1, T) /\ lost' = Append(lost, T) /\ callback' = callback
    <3>1. /\ Cardinality(FailedButIncluded') = Cardinality(FailedButIncluded) + 1
          /\ FailedButIncluded' # {}
      BY <1>7, <1>9, <2>3
    <3>2. Len(l1') = Len(l1) + 1
      BY <1>9, <2>3
    <3>3. stats.batches_submitted + 0 + Cardinality(FailedButIncluded') = Len(l1')
      <4> DEFINE c == Cardinality(FailedButIncluded)
                 d == Cardinality(FailedButIncluded')
                 n == stats.batches_submitted
      <4>1. c \in Nat /\ n \in Nat /\ d = c + 1 /\ n + c = Len(l1)
        BY <1>4, <1>10, <2>1, <3>1
      <4> HIDE DEF c, d, n
      <4>2. n + 0 + d = Len(l1')
        BY <1>4, <3>2, <4>1
      <4> QED BY <4>2 DEF d, n
    <3> QED BY <1>1, <2>3, <3>1, <3>3
  <2>4. CASE l1' = l1 /\ lost' = Append(lost, T) /\ callback' = callback
    <3>1. FailedButIncluded' = FailedButIncluded
      BY <1>7, <2>4
    <3> QED BY <1>1, <1>4, <1>8, <1>10, <2>1, <2>4, <3>1
  <2> QED BY <1>1, <2>2, <2>3, <2>4
<1> QED BY <1>1, <1>11, <1>12 DEF AppInv

(* The callback counts the batch it reports, with its blocks.              *)
LEMMA AppCallbackStep ==
    ASSUME Types, PostInv, AppInv, OnBatchSubmitted
    PROVE  AppInv'
<1>1. /\ callback # NoBatch /\ callback' = NoBatch /\ stats' = AfterSubmission
      /\ times' = times \union {callback.num}
      /\ UNCHANGED <<l1, lost, resets, outcome, recorded>>
  BY DEF OnBatchSubmitted, batchOwn, runnerOwn, uiVars
<1>2. callback \in Batch
  BY <1>1 DEF AppInv
<1>3. callback.num \in Nat /\ Len(callback.blocks) \in Nat \ {0}
  BY <1>2, EmptySeq, LenProperties DEF Batch
<1>4. stats \in Stats /\ stats.batches_submitted \in Nat /\ stats.blocks_processed \in Nat
  BY DEF AppInv, Stats
<1>5. /\ stats' \in Stats
      /\ stats'.batches_submitted = stats.batches_submitted + 1
      /\ stats'.blocks_processed = stats.blocks_processed + Len(callback.blocks)
      /\ stats'.latencies = stats.latencies /\ stats'.batches_derived = stats.batches_derived
  <2> DEFINE m == Len(callback.blocks)
  <2>1. stats' = [stats EXCEPT !.batches_submitted = @ + 1, !.blocks_processed = @ + m]
    BY <1>1 DEF AfterSubmission
  <2>2. m \in Nat
    BY <1>3
  <2> HIDE DEF m
  <2>3. stats' \in Stats
    <3> DEFINE a == stats.batches_submitted + 1
               p == stats.blocks_processed + m
    <3>1. a \in Nat /\ p \in Nat /\ stats' = [stats EXCEPT !.batches_submitted = a, !.blocks_processed = p]
      BY <1>4, <2>1, <2>2 DEF Stats
    <3> HIDE DEF a, p
    <3> QED BY <1>4, <3>1 DEF Stats
  <2>4. /\ stats'.batches_submitted = stats.batches_submitted + 1
        /\ stats'.blocks_processed = stats.blocks_processed + m
        /\ stats'.latencies = stats.latencies /\ stats'.batches_derived = stats.batches_derived
    BY <1>4, <2>1 DEF Stats
  <2> QED BY <2>3, <2>4 DEF m
<1>6. FailedButIncluded' = FailedButIncluded
  BY <1>1 DEF FailedButIncluded
<1>7. Len(NoBatch.blocks) = 0
  BY DEF NoBatch
<1>8. Cardinality(FailedButIncluded) \in Nat /\ Len(l1) \in Nat
  BY FailedFinite, L1Batches
<1>9. ASSUME resets = 0
      PROVE  /\ stats'.batches_submitted + 0 + Cardinality(FailedButIncluded') = Len(l1')
             /\ stats'.batches_submitted <= stats'.blocks_processed
             /\ FailedButIncluded' = {} =>
                  stats'.blocks_processed + Len(callback'.blocks) = Cardinality(B!BlocksOf(l1'))
             /\ outcome' # "derived" => stats'.batches_derived = Cardinality(recorded')
  <2>1. /\ stats.batches_submitted + 1 + Cardinality(FailedButIncluded) = Len(l1)
        /\ stats.batches_submitted <= stats.blocks_processed
        /\ FailedButIncluded = {} =>
             stats.blocks_processed + Len(callback.blocks) = Cardinality(B!BlocksOf(l1))
        /\ outcome # "derived" => stats.batches_derived = Cardinality(recorded)
    BY <1>1, <1>9 DEF AppInv
  <2>2. stats'.batches_submitted + 0 + Cardinality(FailedButIncluded') = Len(l1')
    BY <1>1, <1>4, <1>5, <1>6, <1>8, <2>1
  <2>3. stats'.batches_submitted <= stats'.blocks_processed
    BY <1>3, <1>4, <1>5, <2>1
  <2>4. FailedButIncluded' = {} =>
                  stats'.blocks_processed + Len(callback'.blocks) = Cardinality(B!BlocksOf(l1'))
    <3>1. stats'.blocks_processed + Len(callback'.blocks) = stats.blocks_processed + Len(callback.blocks)
      BY <1>1, <1>3, <1>4, <1>5, <1>7
    <3> QED BY <1>1, <1>6, <2>1, <3>1
  <2> QED BY <1>1, <1>5, <2>1, <2>2, <2>3, <2>4
<1>10. times' \subseteq Nat
  BY <1>1, <1>3 DEF AppInv
<1> QED BY <1>1, <1>5, <1>9, <1>10 DEF AppInv

(* What the derivation task reports.                                       *)
LEMMA ReportFacts ==
    ASSUME Types, PostInv, NumInv, LockInv, DeriverTypes, AppInv, ReportsDerived
    PROVE  /\ stats' \in Stats /\ Len(stats'.latencies) <= MaxSamples /\ times' \subseteq Nat
           /\ stats'.batches_submitted = stats.batches_submitted
           /\ stats'.blocks_processed = stats.blocks_processed
           /\ stats'.batches_derived = Cardinality(recorded)
           /\ \A i \in 1..Len(stats'.latencies) :
                \/ stats'.latencies[i] = <<l1[read].num, ShownNumber(Cardinality(recorded))>>
                \/ \E j \in 1..Len(stats.latencies) : stats'.latencies[i] = stats.latencies[j]
<1> DEFINE c == Cardinality(recorded)
           n == ShownNumber(c)
           x == <<l1[read].num, n>>
           shown == [stats EXCEPT !.batches_derived = c, !.blocks_derived = finalized,
                                  !.derivation_healthy = TRUE]
<1>1. /\ times' = times \ {n}
      /\ stats' = IF n \in times
                  THEN [shown EXCEPT !.latencies = RecordLatency(@, x)]
                  ELSE shown
  BY DEF ReportsDerived, BatchesDerived
<1>2. c \in Nat
  BY FS_CardinalityType DEF NumInv
<1>3. read \in 1..Len(l1)
  BY L1Batches DEF ReportsDerived, LockInv, Types
<1>4. l1[read].num \in Nat
  BY <1>3, L1Batches
<1>5. n \in Nat
  BY <1>2 DEF ShownNumber
<1>6. x \in Nat \X Nat
  BY <1>4, <1>5
<1>7. /\ stats \in Stats /\ stats.latencies \in Seq(Nat \X Nat) /\ Len(stats.latencies) <= MaxSamples
  BY DEF AppInv, Stats
<1>8. finalized \in Nat
  BY DEF DeriverTypes
<1>9. times' \subseteq Nat
  BY <1>1 DEF AppInv
<1> DEFINE r == RecordLatency(stats.latencies, x)
<1>10. /\ r \in Seq(Nat \X Nat) /\ Len(r) <= MaxSamples
       /\ \A i \in 1..Len(r) : r[i] = x \/ \E j \in 1..Len(stats.latencies) : r[i] = stats.latencies[j]
  <2> DEFINE X == Nat \X Nat
             s == stats.latencies
  <2>1. x \in X /\ s \in Seq(X) /\ Len(s) <= MaxSamples
    BY <1>6, <1>7
  <2> HIDE DEF x, X, s
  <2>2. /\ RecordLatency(s, x) \in Seq(X) /\ Len(RecordLatency(s, x)) <= MaxSamples
        /\ \A i \in 1..Len(RecordLatency(s, x)) :
              RecordLatency(s, x)[i] = x \/ \E j \in 1..Len(s) : RecordLatency(s, x)[i] = s[j]
    BY <2>1, WindowBounded
  <2> QED BY <2>2 DEF X, s
<1> HIDE DEF c, n, x
<1>11. /\ shown \in Stats /\ shown.batches_submitted = stats.batches_submitted
       /\ shown.blocks_processed = stats.blocks_processed
       /\ shown.batches_derived = c /\ shown.latencies = stats.latencies
  BY <1>2, <1>7, <1>8 DEF Stats
<1> HIDE DEF shown
<1>12. CASE n \in times
  <2>1. stats' = [shown EXCEPT !.latencies = r]
    BY <1>1, <1>11, <1>12
  <2> HIDE DEF r
  <2>2. /\ stats' \in Stats /\ stats'.batches_submitted = stats.batches_submitted
        /\ stats'.blocks_processed = stats.blocks_processed
        /\ stats'.batches_derived = c /\ stats'.latencies = r
    BY <1>10, <1>11, <2>1 DEF Stats
  <2> QED BY <1>9, <1>10, <2>2 DEF c, n, x
<1>13. CASE n \notin times
  <2>1. stats' = shown
    BY <1>1, <1>13
  <2> QED BY <1>7, <1>9, <1>11, <2>1 DEF c
<1> QED BY <1>12, <1>13

(* The App's counts at every step.                                         *)
LEMMA AppStep ==
    ASSUME Types, PostInv, ReadInv, Types', DeriverTypes, LockInv, NumInv, AppInv, [Next]_vars
    PROVE  AppInv'
<1> USE DEF batchOwn, runnerOwn, uiVars, appVars
<1>1. CASE ChainGrows \/ BatchTaskLocks
  BY <1>1, AppKept DEF ChainGrows, BatchTaskLocks, B!ChainGrows, B!Run
<1>2. CASE BatchTaskFetches
  <2>1. UNCHANGED <<stats, times, callback, resets, outcome, recorded>>
    BY <1>2 DEF BatchTaskFetches, BatchTaskRuns
  <2>2. UNCHANGED <<l1, lost>>
    BY <1>2 DEF BatchTaskFetches, B!BeginRound, B!FetchBlock, B!FetchDone, B!FetchFails
  <2> QED BY <2>1, <2>2, AppKept
<1>3. CASE Submits \/ SubmitFails
  BY <1>3, AppSubmitStep
<1>4. CASE OnBatchSubmitted
  BY <1>4, AppCallbackStep
<1>5. CASE DerivationLocks \/ DerivationIdles \/ PressPause \/ UILocksBatch \/ UNCHANGED vars
  BY <1>5, AppKept DEF DerivationLocks, DerivationIdles, PressPause, UILocksBatch, vars
<1>11. CASE SourceErrs
  <2>1. /\ UNCHANGED <<stats, times, callback, l1, lost, resets, recorded>>
        /\ outcome' = "error" /\ outcome = "none"
    BY <1>11 DEF SourceErrs, D!SourceFails, D!checkpointVars, LockInv
  <2> QED BY <2>1, AppKept
<1>6. CASE UISetsRunners
  BY <1>6, AppKept DEF UISetsRunners, D!SetPaused, B!SetPaused, D!checkpointVars
<1>7. CASE DerivationTicks
  <2>1. Ticks
    BY <1>7, TickCases
  <2>2. UNCHANGED <<stats, times, callback, l1, lost, resets>> /\ outcome = "none"
    BY <2>1 DEF Ticks, LockInv
  <2>3. outcome' # "derived" => recorded' = recorded
    BY <2>1 DEF Ticks, Begins, Executes, GivesUp
  <2> QED BY <2>2, <2>3, AppKept
<1>8. CASE ReportsDerived
  <2>1. UNCHANGED <<callback, l1, lost, resets, recorded>> /\ outcome' = "none"
    BY <1>8 DEF ReportsDerived
  <2>2. FailedButIncluded' = FailedButIncluded
    BY <2>1 DEF FailedButIncluded
  <2>3. /\ stats' \in Stats /\ Len(stats'.latencies) <= MaxSamples /\ times' \subseteq Nat
        /\ stats'.batches_submitted = stats.batches_submitted
        /\ stats'.blocks_processed = stats.blocks_processed
        /\ stats'.batches_derived = Cardinality(recorded)
    BY <1>8, ReportFacts
  <2> QED BY <2>1, <2>2, <2>3 DEF AppInv
<1>9. CASE ReportsError
  <2>1. /\ UNCHANGED <<times, callback, l1, lost, resets, recorded>> /\ outcome = "error" /\ outcome' = "none"
        /\ stats' = [stats EXCEPT !.derivation_healthy = FALSE]
    BY <1>9 DEF ReportsError
  <2>2. FailedButIncluded' = FailedButIncluded
    BY <2>1 DEF FailedButIncluded
  <2>3. /\ stats' \in Stats /\ stats'.latencies = stats.latencies
        /\ stats'.batches_submitted = stats.batches_submitted
        /\ stats'.blocks_processed = stats.blocks_processed
        /\ stats'.batches_derived = stats.batches_derived
    BY <2>1 DEF AppInv, Stats
  <2> QED BY <2>1, <2>2, <2>3 DEF AppInv
<1>10. CASE PressReset
  <2>1. /\ stats' = EmptyStats /\ times' = {} /\ callback' = callback /\ resets' = resets + 1
    BY <1>10 DEF PressReset
  <2>2. resets' # 0
    BY <2>1 DEF LockInv
  <2>3. << >> \in Seq(Nat \X Nat) /\ Len(<< >>) = 0
    BY EmptySeq
  <2>4. stats' \in Stats /\ Len(stats'.latencies) <= MaxSamples
    BY <2>1, <2>3, KeysAssumption DEF EmptyStats, Stats
  <2> QED BY <2>1, <2>2, <2>4 DEF AppInv
<1> QED BY <1>1, <1>2, <1>3, <1>4, <1>5, <1>6, <1>7, <1>8, <1>9, <1>10, <1>11
        DEF Next, BatchTask, DerivationTask, UITask

(* A batch that was given up stays so.                                     *)
LEMMA GivenUpStays ==
    ASSUME Types, PostInv, ReadInv, [Next]_vars, lost' = << >>, NoneGivenUp'
    PROVE  lost = << >> /\ NoneGivenUp
<1>0. /\ Len(l1) \in Nat /\ read \in 0..Len(l1)
      /\ \A k \in 1..(read - 1) : k \in 1..Len(l1) /\ l1'[k] = l1[k]
  <2>1. Len(l1) \in Nat /\ read \in 0..Len(l1)
    BY L1Batches DEF Types
  <2>2. \A k \in 1..(read - 1) : k \in 1..Len(l1)
    BY <2>1
  <2> QED BY <2>1, <2>2, L1Grows
<1>1. lost = << >>
  BY L1Grows
<1>2. CASE UNCHANGED derivation
  <2>1. read' = read /\ recorded' = recorded
    BY <1>2 DEF derivation
  <2> QED BY <1>0, <1>1, <2>1 DEF NoneGivenUp
<1>3. CASE Derives
  <2>0. l1' = l1 /\ (Begins \/ Executes \/ Records \/ GivesUp)
    BY <1>3, DeriveCases
  <2>1. CASE Begins
    <3>1. read' = read + 1 /\ recorded' = recorded
      BY <2>1 DEF Begins
    <3>2. \A k \in 1..(read - 1) : k \in 1..(read' - 1)
      BY <1>0, <3>1
    <3> QED BY <1>1, <2>0, <3>1, <3>2 DEF NoneGivenUp
  <2>2. CASE Executes \/ GivesUp
    <3>1. read' = read /\ recorded' = recorded
      BY <2>2 DEF Executes, GivesUp
    <3> QED BY <1>0, <1>1, <3>1 DEF NoneGivenUp
  <2>3. CASE Records
    <3>1. read' = read /\ recorded' = recorded \union {l1[read].num} /\ dpc = "execute"
      BY <2>3 DEF Records
    <3>2. read \in 1..Len(l1)
      BY <1>0, <3>1 DEF ReadInv
    <3>3. ASSUME NEW k \in 1..(read - 1) PROVE l1[k].num \in recorded
      <4>1. l1[k].num \in recorded'
        BY <2>0, <3>1 DEF NoneGivenUp
      <4>2. k \in 1..Len(l1) /\ k < read
        BY <1>0
      <4>3. l1[k].num < l1[read].num /\ l1[k].num \in Nat /\ l1[read].num \in Nat
        BY <3>2, <4>2, L1Batches
      <4> QED BY <3>1, <4>1, <4>3
    <3> QED BY <1>1, <3>3 DEF NoneGivenUp
  <2> QED BY <2>0, <2>1, <2>2, <2>3
<1> QED BY <1>2, <1>3, StepCases DEF Fetches, Clears

(* As long as nothing failed, the number of batches derived is the place   *)
(* of the last one, and its number one less.                               *)
LEMMA CountIsPlace ==
    ASSUME Types, PostInv, ReadInv, NumInv, lost = << >>, NoneGivenUp,
           read > 0, l1[read].num \in recorded
    PROVE  l1[read].num = ShownNumber(Cardinality(recorded))
<1>1. Len(l1) \in Nat /\ read \in 1..Len(l1) /\ read \in Nat
  BY L1Batches DEF Types
<1>2. \A k \in 1..Len(l1) : l1[k].num + 1 = k /\ l1[k].num \in Nat
  BY L1Batches DEF NumInv
<1>3. recorded = 0..(read - 1)
  <2>1. ASSUME NEW n \in recorded PROVE n \in 0..(read - 1)
    <3>1. PICK k \in 1..read : l1[k].num = n
      BY DEF ReadInv
    <3>2. k \in 1..Len(l1)
      BY <1>1
    <3>3. n + 1 = k /\ n \in Nat
      BY <1>2, <3>1, <3>2
    <3> QED BY <1>1, <3>3
  <2>2. ASSUME NEW n \in 0..(read - 1) PROVE n \in recorded
    <3>1. n + 1 \in 1..Len(l1) /\ (n + 1 = read \/ n + 1 \in 1..(read - 1))
      BY <1>1
    <3>2. l1[n + 1].num \in recorded
      BY <3>1 DEF NoneGivenUp
    <3>3. l1[n + 1].num + 1 = n + 1 /\ l1[n + 1].num \in Nat
      BY <1>2, <3>1
    <3>4. l1[n + 1].num = n
      BY <3>3
    <3> QED BY <3>2, <3>4
  <2> QED BY <2>1, <2>2
<1>4. Cardinality(recorded) = read
  <2>1. 0 \in Int /\ read - 1 \in Int
    BY <1>1
  <2>2. Cardinality(0..(read - 1)) = IF 0 > read - 1 THEN 0 ELSE (read - 1) - 0 + 1
    BY <2>1, FS_Interval
  <2> QED BY <1>1, <1>3, <2>2
<1>5. l1[read].num + 1 = read /\ l1[read].num \in Nat
  BY <1>1, <1>2
<1> QED BY <1>1, <1>4, <1>5 DEF ShownNumber

(* The latency samples at every step.                                      *)
LEMMA SampleStep ==
    ASSUME Types, PostInv, ReadInv, DeriverTypes, LockInv, NumInv, AppInv, SampleInv, [Next]_vars
    PROVE  SampleInv'
<1> SUFFICES ASSUME lost' = << >>, NoneGivenUp', NEW i \in 1..Len(stats'.latencies)
             PROVE  stats'.latencies[i][1] = stats'.latencies[i][2]
  BY DEF SampleInv
<1>1. lost = << >> /\ NoneGivenUp
  BY GivenUpStays
<1>2. \A j \in 1..Len(stats.latencies) : stats.latencies[j][1] = stats.latencies[j][2]
  BY <1>1 DEF SampleInv
<1>3. CASE stats' = stats
  BY <1>2, <1>3
<1>4. CASE OnBatchSubmitted \/ ReportsError
  <2>1. stats'.latencies = stats.latencies
    BY <1>4 DEF OnBatchSubmitted, AfterSubmission, ReportsError, AppInv, Stats
  <2> QED BY <1>2, <2>1
<1>5. CASE PressReset
  <2>1. Len(stats'.latencies) = 0
    BY <1>5 DEF PressReset, EmptyStats
  <2> QED BY <2>1
<1>6. CASE ReportsDerived
  <2> DEFINE n == l1[read].num
             m == ShownNumber(Cardinality(recorded))
  <2>1. \/ stats'.latencies[i] = <<n, m>>
        \/ \E j \in 1..Len(stats.latencies) : stats'.latencies[i] = stats.latencies[j]
    BY <1>6, ReportFacts
  <2>2. n = m
    BY <1>1, <1>6, CountIsPlace DEF ReportsDerived, LockInv
  <2> HIDE DEF n, m
  <2> QED BY <1>2, <2>1, <2>2
<1>7. \/ stats' = stats \/ OnBatchSubmitted \/ ReportsError \/ PressReset \/ ReportsDerived
  BY DEF Next, BatchTask, DerivationTask, UITask, ChainGrows, BatchTaskLocks, BatchTaskFetches,
         Submits, SubmitFails, DerivationLocks, DerivationTicks, SourceErrs, DerivationIdles, PressPause,
         UILocksBatch, UISetsRunners, vars, appVars
<1> QED BY <1>3, <1>4, <1>5, <1>6, <1>7

(* What is shown before either task has begun.                             *)
LEMMA InitShow == Init => ShowInv
<1> SUFFICES ASSUME Init PROVE ShowInv
  OBVIOUS
<1> USE DEF Init, B!Init, D!RunnerInit, AppNew
<1>1. Len(pending) = 0 /\ Len(l1) = 0 /\ Len(executed) = 0 /\ Len(lost) = 0
  OBVIOUS
<1>2. 1..0 = {} /\ 1..(0 - 1) = {}
  OBVIOUS
<1>3. PosterTypes
  <2>1. head \in 1..LastBlock /\ pc = "ready" /\ left = 0
        /\ paused = FALSE /\ full = FALSE /\ backlogged = FALSE /\ missed = FALSE
    OBVIOUS
  <2>2. Len(pending) + left <= MaxBlocksPerBatch /\ Len(pending) < MaxBlocksPerBatch /\ left \in Nat
    BY <1>1, <2>1, ChainAssumption
  <2> QED BY <2>1, <2>2 DEF PosterTypes
<1>4. DeriverTypes
  BY DEF DeriverTypes
<1>5. LockInv
  <2>1. /\ batchLock = "free" /\ tickLock = "free" /\ ui = "loop" /\ isPaused = FALSE
        /\ keys = 0 /\ resets = 0 /\ outcome = "none" /\ pc = "ready" /\ dpc = "idle"
    OBVIOUS
  <2>2. keys \in 0..MaxKeys /\ resets \in 0..keys
    BY <2>1, KeysAssumption
  <2> QED BY <2>1, <2>2 DEF LockInv
<1>6. NumInv
  <2>1. IsFiniteSet(recorded)
    BY FS_EmptySet
  <2> QED BY <1>1, <1>2, <2>1 DEF NumInv
<1>7. DoneInv
  BY <1>1, <1>2 DEF DoneInv
<1>8. FailedButIncluded = {} /\ B!BlocksOf(l1) = {}
  BY DEF FailedButIncluded, B!BlocksOf
<1>9. AppInv
  <2>1. << >> \in Seq(Nat \X Nat) /\ Len(<< >>) = 0
    BY EmptySeq
  <2>2. stats \in Stats /\ Len(stats.latencies) <= MaxSamples /\ times \subseteq Nat
    BY <2>1, KeysAssumption DEF EmptyStats, Stats
  <2>3. /\ stats.batches_submitted = 0 /\ stats.blocks_processed = 0 /\ stats.batches_derived = 0
        /\ Len(callback.blocks) = 0 /\ callback = NoBatch
    BY DEF EmptyStats, NoBatch
  <2>4. Cardinality(FailedButIncluded) = 0 /\ Cardinality(B!BlocksOf(l1)) = 0 /\ Cardinality(recorded) = 0
    BY <1>8, FS_EmptySet
  <2> QED BY <1>1, <2>2, <2>3, <2>4 DEF AppInv
<1>10. SampleInv
  <2>1. Len(stats.latencies) = 0
    BY DEF EmptyStats
  <2> QED BY <1>2, <2>1 DEF SampleInv
<1> QED BY <1>3, <1>4, <1>5, <1>6, <1>7, <1>9, <1>10 DEF ShowInv

(* The second invariant is one of the specification.                       *)
LEMMA ShowInvariance == Spec => [](Inv /\ ShowInv)
<1>1. ASSUME Inv, ShowInv, [Next]_vars PROVE (Inv /\ ShowInv)'
  <2>1. /\ Types /\ PostInv /\ ReadInv /\ ExecInv
        /\ PosterTypes /\ DeriverTypes /\ LockInv /\ NumInv /\ DoneInv /\ AppInv /\ SampleInv
    BY <1>1 DEF Inv, ShowInv
  <2>2. Types' /\ PostInv' /\ ReadInv' /\ ExecInv'
    BY <1>1, <2>1, TypesStep, PostStep, ReadStep, ExecStep
  <2>3. PosterTypes' /\ DeriverTypes' /\ LockInv' /\ NumInv' /\ DoneInv'
    BY <1>1, <2>1, PosterStep, DeriverStep, LockStep, NumStep, DoneStep
  <2>4. AppInv' /\ SampleInv'
    BY <1>1, <2>1, <2>2, AppStep, SampleStep
  <2> QED BY <2>2, <2>3, <2>4 DEF Inv, ShowInv
<1> QED BY InitInv, InitShow, <1>1, PTL DEF Spec

(* A sequence is one over the values it takes.                             *)
LEMMA SeqNarrows ==
    ASSUME NEW S, NEW T, NEW s \in Seq(S), \A i \in 1..Len(s) : s[i] \in T
    PROVE  s \in Seq(T)
<1>1. Len(s) \in Nat /\ s \in [1..Len(s) -> S]
  BY LenProperties
<1>2. s \in [1..Len(s) -> T]
  BY <1>1
<1> QED BY <1>1, <1>2, SeqDef

(* The types of both runners.                                              *)
LEMMA ShowsTypes ==
    ASSUME Inv, ShowInv
    PROVE  TypeOK
<1>0. Types /\ PostInv /\ ReadInv /\ ExecInv /\ PosterTypes /\ DeriverTypes /\ LockInv /\ AppInv
  BY DEF Inv, ShowInv
<1>1. B!TypeOK
  BY <1>0 DEF B!TypeOK, Types, PosterTypes, Batch
<1>2. executed \in Seq(Nat \ {0})
  <2>1. ASSUME NEW i \in 1..Len(executed) PROVE executed[i] \in Nat \ {0}
    <3>1. executed[i] \in B!BlocksOf(l1)
      BY <1>0, BlocksOnL1 DEF ExecInv
    <3> QED BY <1>0, <3>1, BlocksOnL1
  <2> QED BY <1>0, <2>1, SeqNarrows DEF Types
<1>3. l1 \in Seq([num : Nat, blocks : Seq(Nat \ {0})])
  <2>1. ASSUME NEW k \in 1..Len(l1) PROVE l1[k] \in [num : Nat, blocks : Seq(Nat \ {0})]
    <3>1. l1[k] \in Batch
      BY <1>0, L1Batches
    <3>2. \A j \in 1..Len(l1[k].blocks) : l1[k].blocks[j] \in Nat \ {0}
      <4>1. \A j \in 1..Len(l1[k].blocks) : l1[k].blocks[j] \in B!BlocksOf(l1)
        BY <1>0, BlocksOnL1
      <4> QED BY <1>0, <4>1, BlocksOnL1
    <3>3. l1[k].blocks \in Seq(Nat)
      BY <3>1 DEF Batch
    <3>4. l1[k].blocks \in Seq(Nat \ {0})
      BY <3>2, <3>3, SeqNarrows
    <3> QED BY <3>1, <3>4 DEF Batch
  <2> QED BY <1>0, <2>1, SeqNarrows DEF Types
<1>4. D!TypeOK
  BY <1>0, <1>2, <1>3 DEF D!TypeOK, D!Current, Types, ReadInv, DeriverTypes
<1> QED BY <1>0, <1>1, <1>4 DEF TypeOK, LockInv, AppInv

(* In sync, and no submission taken for failed: all of L1 is executed.     *)
LEMMA InSyncMeansDone ==
    ASSUME Inv, ShowInv, Cardinality(recorded) = Len(l1)
    PROVE  Len(executed) = Cardinality(B!BlocksOf(l1))
<1>0. Types /\ PostInv /\ ReadInv /\ ExecInv /\ NumInv /\ DoneInv
  BY DEF Inv, ShowInv
<1>1. /\ Len(l1) \in Nat /\ read \in 0..Len(l1) /\ executed \in Seq(Nat) /\ Len(executed) \in Nat
      /\ \A k \in 1..read : k \in 1..Len(l1)
      /\ \A i \in 1..Len(executed) : executed[i] \in Nat
  <2>1. /\ Len(l1) \in Nat /\ read \in 0..Len(l1) /\ executed \in Seq(Nat) /\ Len(executed) \in Nat
    BY <1>0, L1Batches, LenProperties DEF Types
  <2> QED BY <2>1, ElementOfSeq
<1>2. \A i, k \in 1..Len(l1) : l1[i].num \in Nat /\ (i < k => l1[i].num < l1[k].num)
  BY <1>0, L1Batches
<1> DEFINE N == {l1[k].num : k \in 1..Len(l1)}
           f == [k \in 1..Len(l1) |-> l1[k].num]
<1>3. IsFiniteSet(N) /\ Cardinality(N) = Len(l1)
  <2>1. /\ \A i \in 1..Len(l1) : f[i] \in N
        /\ \A n \in N : \E i \in 1..Len(l1) : f[i] = n
    OBVIOUS
  <2>2. \A i, j \in 1..Len(l1) : i < j => f[i] # f[j]
    BY <1>2
  <2> HIDE DEF N, f
  <2> QED BY <1>1, <2>1, <2>2, RangeCount
<1>4. recorded \in SUBSET N
  BY <1>0, <1>1 DEF ReadInv
<1>5. N = recorded
  <2> HIDE DEF N
  <2> QED BY <1>3, <1>4, FS_Subset
<1>6. ASSUME NEW k \in 1..Len(l1) PROVE k \in 1..read /\ l1[k].num \in recorded
  <2>1. l1[k].num \in recorded
    BY <1>5
  <2>2. PICK m \in 1..read : l1[m].num = l1[k].num
    BY <1>0, <2>1 DEF ReadInv
  <2>3. m = k
    <3>1. m \in 1..Len(l1) /\ m \in Nat /\ k \in Nat
      BY <1>1
    <3>2. ~(m < k) /\ ~(k < m)
      BY <1>2, <2>2, <3>1
    <3> QED BY <3>1, <3>2
  <2> QED BY <2>1, <2>3
<1> DEFINE S == B!BlocksOf(l1)
<1>7. \A b : b \in S <=> \E k \in 1..Len(l1) : \E j \in 1..Len(l1[k].blocks) : b = l1[k].blocks[j]
  BY <1>0, BlocksOnL1
<1>8. \A i \in 1..Len(executed) : executed[i] \in S
  BY <1>0, <1>7 DEF ExecInv
<1>9. \A s \in S : \E i \in 1..Len(executed) : executed[i] = s
  <2> SUFFICES ASSUME NEW s \in S PROVE \E i \in 1..Len(executed) : executed[i] = s
    OBVIOUS
  <2>1. PICK k \in 1..Len(l1) : \E j \in 1..Len(l1[k].blocks) : s = l1[k].blocks[j]
    BY <1>7
  <2>2. PICK j \in 1..Len(l1[k].blocks) : s = l1[k].blocks[j]
    BY <2>1
  <2>3. IsExecuted(l1[k].blocks[j])
    BY <1>0, <1>6 DEF DoneInv
  <2> QED BY <2>2, <2>3 DEF IsExecuted
<1>10. \A i, j \in 1..Len(executed) : i < j => executed[i] # executed[j]
  BY <1>0, <1>1 DEF DoneInv
<1> HIDE DEF S
<1>11. Cardinality(S) = Len(executed)
  BY <1>1, <1>8, <1>9, <1>10, RangeCount
<1> QED BY <1>11 DEF S

(* What the shadow binary's screen shows is what its two tasks did,        *)
(* whatever overtakes whatever between a batch on L1 or a tick and the     *)
(* update of the App: every batch posted is counted once with its blocks   *)
(* unless its submission was taken for failed, IN SYNC means that all of   *)
(* L1 was executed to its end, and a latency is measured from the          *)
(* submission of the batch derived as long as nothing failed.              *)
THEOREM DisplayIsTruthful == Spec => []DisplayTruthful
<1>1. ASSUME Inv, ShowInv PROVE DisplayTruthful
  <2>0. Types /\ PostInv /\ AppInv /\ SampleInv
    BY <1>1 DEF Inv, ShowInv
  <2>1. CountersAgree
    <3> SUFFICES ASSUME resets = 0, Reported
                 PROVE  /\ stats.batches_submitted = Len(l1) - Cardinality(FailedButIncluded)
                        /\ stats.batches_submitted <= stats.blocks_processed
                        /\ (FailedButIncluded = {}) =>
                              stats.blocks_processed = Cardinality(B!BlocksOf(l1))
                        /\ (FailedButIncluded = {} /\ InSync) =>
                              Len(executed) = Cardinality(B!BlocksOf(l1))
      BY DEF CountersAgree
    <3>1. callback = NoBatch /\ outcome = "none" /\ Len(callback.blocks) = 0
      BY DEF Reported, NoBatch
    <3>2. /\ stats.batches_submitted + 0 + Cardinality(FailedButIncluded) = Len(l1)
          /\ stats.batches_submitted <= stats.blocks_processed
          /\ FailedButIncluded = {} =>
               stats.blocks_processed + 0 = Cardinality(B!BlocksOf(l1))
          /\ stats.batches_derived = Cardinality(recorded)
      BY <2>0, <3>1 DEF AppInv
    <3>3. /\ stats.batches_submitted \in Nat /\ stats.blocks_processed \in Nat
          /\ Cardinality(FailedButIncluded) \in Nat /\ Len(l1) \in Nat
      BY <2>0, FailedFinite, L1Batches DEF AppInv, Stats
    <3>4. ASSUME FailedButIncluded = {}, InSync PROVE Len(executed) = Cardinality(B!BlocksOf(l1))
      <4>1. Cardinality(FailedButIncluded) = 0
        BY <3>4, FS_EmptySet
      <4>2. Cardinality(recorded) = Len(l1)
        BY <3>2, <3>3, <3>4, <4>1 DEF InSync
      <4> QED BY <1>1, <4>2, InSyncMeansDone
    <3>5. stats.batches_submitted = Len(l1) - Cardinality(FailedButIncluded)
      BY <3>2, <3>3
    <3>6. (FailedButIncluded = {}) => stats.blocks_processed = Cardinality(B!BlocksOf(l1))
      BY <3>2, <3>3
    <3> QED BY <3>2, <3>4, <3>5, <3>6
  <2>2. SamplesOwnBatch
    <3>1. DOMAIN stats.latencies = 1..Len(stats.latencies)
      BY <2>0, LenProperties DEF AppInv, Stats
    <3> QED BY <2>0, <3>1 DEF SampleInv, SamplesOwnBatch, NoneGivenUp
  <2> QED BY <1>1, <2>1, <2>2, ShowsTypes DEF DisplayTruthful
<1>2. Inv /\ ShowInv => DisplayTruthful
  BY <1>1
<1> QED BY <1>2, ShowInvariance, PTL
=============================================================================
