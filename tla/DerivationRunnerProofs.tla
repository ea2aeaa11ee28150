----------------------- MODULE DerivationRunnerProofs -----------------------
(***************************************************************************)
(* Proofs about the derivation runner, for every L1, every failure and     *)
(* any number of restarts, of a caller that stops at the first error, as   *)
(* DerivationRunner::run does: blocks are executed in order, the finalized *)
(* head is the last block executed, and the checkpoint tells exactly what  *)
(* was derived.                                                            *)
(***************************************************************************)
EXTENDS DerivationRunner, TLAPS, SequenceTheorems

-----------------------------------------------------------------------------
(* The inductive invariant.                                                *)

Batch == [num : Nat, blocks : Seq(Nat \ {0})]

First(b) == b.blocks[1]
Last(b)  == b.blocks[Len(b.blocks)]

Consecutive(b) ==
    /\ Len(b.blocks) > 0
    /\ \A j \in 1..Len(b.blocks) : b.blocks[j] + 1 = First(b) + j

(* The batches on L1 are numbered and cut the chain into ranges.           *)
L1Inv ==
    \A k \in 1..Len(l1) :
        /\ l1[k].num + 1 = FirstNum + k
        /\ Consecutive(l1[k])
        /\ First(l1[k]) = IF k = 1 THEN 1 ELSE Last(l1[k - 1]) + 1

Ran == {executed[i] : i \in 1..Len(executed)}

AllIn(b, R) == \A j \in 1..Len(b.blocks) : b.blocks[j] \in R

(* A checkpoint that records v: the batches up to v were executed.         *)
Covers(v) ==
    v # 0 => /\ v < FirstNum + Len(l1)
             /\ \A k \in 1..Len(l1) : FirstNum + k <= v + 1 => AllIn(l1[k], Ran)

CoverInv == Covers(lastDerived) /\ Covers(saved)

(* The batches the process has passed, skipped or derived, were executed,  *)
(* and so were the first blocks of the current one.                        *)
ReadInv ==
    /\ pc # "stopped" => \A k \in 1..Len(l1) :
                            k < read \/ (k = read /\ pc = "idle") => AllIn(l1[k], Ran)
    /\ pc = "execute" => \A j \in 1..done : Current.blocks[j] \in Ran

(* The batches a first process has finished, and what it executed last.    *)
Passed == IF pc = "execute" THEN read - 1 ELSE read

HeadInv ==
    (restarts = 0 /\ pc # "stopped") =>
        /\ lastDerived # 0 => lastDerived < FirstNum + Passed
        /\ recorded # {} => Passed > 0
        /\ CountsRecorded =>
             finalized = IF Passed = 0 THEN 0 ELSE Last(l1[Passed])
        /\ pc = "idle" /\ read > 0 =>
             executed # << >> /\ executed[Len(executed)] = Last(l1[read])
        /\ pc = "execute" /\ done > 0 =>
             executed # << >> /\ executed[Len(executed)] = Current.blocks[done]

Inv == TypeOK /\ L1Inv /\ CoverInv /\ ReadInv /\ NoGapExecuted /\ HeadInv

(* With numbers from 1: the checkpoint is the set of recorded batches, and *)
(* the process is at most one batch ahead of it.                           *)
OnceInv ==
    /\ recorded = 1..saved
    /\ pc # "stopped" => lastDerived = saved
    /\ pc = "idle" => read <= lastDerived
    /\ pc = "execute" => read = lastDerived + 1

-----------------------------------------------------------------------------
(* Lemmas on batches.                                                      *)

(* The ends of a batch of consecutive blocks.                              *)
LEMMA BatchEnds ==
    ASSUME NEW b \in Batch, Consecutive(b)
    PROVE  /\ b.num \in Nat /\ Len(b.blocks) \in Nat \ {0}
           /\ First(b) \in Nat \ {0} /\ Last(b) \in Nat \ {0}
           /\ Last(b) + 1 = First(b) + Len(b.blocks)
           /\ \A j \in 1..Len(b.blocks) : b.blocks[j] \in Nat \ {0}
<1>1. b.num \in Nat /\ b.blocks \in Seq(Nat \ {0})
  BY DEF Batch
<1>2. Len(b.blocks) \in Nat \ {0}
  BY <1>1, LenProperties DEF Consecutive
<1>3. \A j \in 1..Len(b.blocks) : b.blocks[j] \in Nat \ {0}
  BY <1>1, ElementOfSeq
<1>4. 1 \in 1..Len(b.blocks) /\ Len(b.blocks) \in 1..Len(b.blocks)
  BY <1>2
<1>5. First(b) \in Nat \ {0} /\ Last(b) \in Nat \ {0}
  BY <1>3, <1>4 DEF First, Last
<1>6. Last(b) + 1 = First(b) + Len(b.blocks)
  BY <1>4 DEF Consecutive, Last
<1> QED BY <1>1, <1>2, <1>3, <1>5, <1>6

(* What a sequence of batches holds.                                       *)
LEMMA L1Facts ==
    ASSUME TypeOK, L1Inv
    PROVE  /\ l1 \in Seq(Batch) /\ Len(l1) \in Nat /\ read \in Nat /\ read <= Len(l1)
           /\ FirstNum \in Nat
           /\ \A k \in 1..Len(l1) : l1[k] \in Batch /\ Consecutive(l1[k])
<1>1. l1 \in Seq(Batch)
  BY DEF TypeOK, Batch
<1>2. Len(l1) \in Nat /\ \A k \in 1..Len(l1) : l1[k] \in Batch
  BY <1>1, LenProperties, ElementOfSeq
<1>3. read \in Nat /\ read <= Len(l1)
  BY <1>2 DEF TypeOK
<1>4. FirstNum \in Nat
  BY DerivationAssumption
<1> QED BY <1>1, <1>2, <1>3, <1>4 DEF L1Inv

(* The last block posted.                                                  *)
LEMMA PostedFacts ==
    ASSUME TypeOK, L1Inv
    PROVE  /\ Posted \in Nat
           /\ Posted = IF Len(l1) = 0 THEN 0 ELSE Last(l1[Len(l1)])
<1>1. l1 \in Seq(Batch) /\ Len(l1) \in Nat
  BY L1Facts
<1>2. CASE l1 = << >>
  BY <1>2 DEF Posted
<1>3. CASE l1 # << >>
  <2>1. Len(l1) \in 1..Len(l1) /\ Len(l1) # 0
    BY <1>1, <1>3, EmptySeq
  <2>2. l1[Len(l1)] \in Batch /\ Consecutive(l1[Len(l1)])
    BY <2>1, L1Facts
  <2>3. Last(l1[Len(l1)]) \in Nat
    BY <2>2, BatchEnds
  <2> QED BY <1>3, <2>1, <2>3 DEF Posted, Last
<1> QED BY <1>2, <1>3

(* A posted batch holds the next blocks under the next number.             *)
LEMMA PostStep ==
    ASSUME TypeOK, L1Inv, Post
    PROVE  \E b \in Batch :
              /\ l1' = Append(l1, b) /\ b.num = FirstNum + Len(l1)
              /\ Consecutive(b) /\ First(b) = Posted + 1
<1>1. PICK n \in 1..MaxBatchBlocks :
         l1' = Append(l1, [num    |-> FirstNum + Len(l1),
                           blocks |-> [i \in 1..n |-> Posted + i]])
  BY DEF Post
<1>2. n \in Nat \ {0} /\ Posted \in Nat /\ Len(l1) \in Nat /\ FirstNum \in Nat
  BY PostedFacts, L1Facts, DerivationAssumption
<1> DEFINE f == [i \in 1..n |-> Posted + i]
           b == [num |-> FirstNum + Len(l1), blocks |-> f]
<1>3. f \in Seq(Nat \ {0}) /\ Len(f) = n
  <2>1. f \in [1..n -> Nat \ {0}]
    BY <1>2
  <2>2. f \in Seq(Nat \ {0})
    BY <1>2, <2>1, SeqDef
  <2> QED BY <1>2, <2>2, LenProperties
<1>4. f[1] = Posted + 1 /\ \A j \in 1..n : f[j] + 1 = f[1] + j
  BY <1>2
<1> HIDE DEF f
<1>5. b \in Batch /\ b.num = FirstNum + Len(l1) /\ b.blocks = f
  BY <1>2, <1>3 DEF Batch
<1>6. l1' = Append(l1, b)
  BY <1>1 DEF f
<1> HIDE DEF b
<1>7. Consecutive(b) /\ First(b) = Posted + 1
  BY <1>2, <1>3, <1>4, <1>5 DEF Consecutive, First
<1> QED BY <1>5, <1>6, <1>7

(* L1 after a post.                                                        *)
LEMMA PostedL1 ==
    ASSUME TypeOK, L1Inv, Post
    PROVE  /\ l1' \in Seq(Batch) /\ Len(l1') = Len(l1) + 1
           /\ \A k \in 1..Len(l1) : l1'[k] = l1[k]
           /\ l1'[Len(l1) + 1].num = FirstNum + Len(l1)
           /\ Consecutive(l1'[Len(l1) + 1])
           /\ First(l1'[Len(l1) + 1]) = Posted + 1
<1>1. PICK b \in Batch : /\ l1' = Append(l1, b) /\ b.num = FirstNum + Len(l1)
                         /\ Consecutive(b) /\ First(b) = Posted + 1
  BY PostStep
<1>2. l1 \in Seq(Batch)
  BY L1Facts
<1>3. l1' \in Seq(Batch) /\ Len(l1') = Len(l1) + 1
  BY <1>1, <1>2, AppendProperties
<1>4. (\A k \in 1..Len(l1) : l1'[k] = l1[k]) /\ l1'[Len(l1) + 1] = b
  BY <1>1, <1>2, AppendProperties
<1> QED BY <1>1, <1>3, <1>4

(* The batch being executed.                                               *)
LEMMA CurrentFacts ==
    ASSUME TypeOK, L1Inv, pc = "execute"
    PROVE  /\ read \in 1..Len(l1) /\ Current \in Batch /\ Consecutive(Current)
           /\ Current.num + 1 = FirstNum + read
           /\ done \in 0..Len(Current.blocks) /\ Len(Current.blocks) \in Nat \ {0}
<1>1. read \in 1..Len(l1) /\ done \in Nat /\ done <= Len(Current.blocks)
  BY L1Facts DEF TypeOK
<1>2. Current \in Batch /\ Consecutive(Current) /\ Current.num + 1 = FirstNum + read
  BY <1>1, L1Facts DEF Current, L1Inv
<1>3. Len(Current.blocks) \in Nat \ {0}
  BY <1>2, BatchEnds
<1> QED BY <1>1, <1>2, <1>3

-----------------------------------------------------------------------------
(* Type correctness.                                                       *)

(* Every step keeps the types.                                             *)
LEMMA TypeNext == TypeOK /\ L1Inv /\ [Next]_vars => TypeOK'
<1> SUFFICES ASSUME TypeOK, L1Inv, [Next]_vars PROVE TypeOK'
  OBVIOUS
<1> USE DEF runnerVars, checkpointVars
<1>0. /\ l1 \in Seq(Batch) /\ Len(l1) \in Nat /\ read \in Nat /\ read <= Len(l1)
      /\ done \in Nat /\ lastDerived \in Nat /\ saved \in Nat /\ finalized \in Nat
  BY L1Facts DEF TypeOK
<1>1. CASE Post
  <2>1. l1' \in Seq(Batch) /\ Len(l1') = Len(l1) + 1 /\ \A k \in 1..Len(l1) : l1'[k] = l1[k]
    BY <1>1, PostedL1
  <2>2. read' \in 0..Len(l1')
    BY <1>0, <1>1, <2>1 DEF Post
  <2>3. pc' = "execute" => read' > 0 /\ done' <= Len(Current'.blocks)
    <3> SUFFICES ASSUME pc = "execute" PROVE read > 0 /\ done <= Len(Current'.blocks)
      BY <1>1 DEF Post
    <3>1. read \in 1..Len(l1) /\ done <= Len(Current.blocks) /\ read > 0
      BY <1>0 DEF TypeOK
    <3>2. Current' = Current
      BY <1>1, <2>1, <3>1 DEF Post, Current
    <3> QED BY <3>1, <3>2
  <2> QED BY <1>1, <2>1, <2>2, <2>3, Zenon DEF Post, TypeOK, Batch
<1>2. ASSUME NEW p \in BOOLEAN, SetPaused(p) PROVE TypeOK'
  BY <1>2 DEF SetPaused, TypeOK, Current
<1>3. CASE UNCHANGED vars
  BY <1>3 DEF vars, TypeOK, Current
<1>4. CASE NextBatch /\ pc' \in {"idle", "execute"}
  <2>1. read' \in 0..Len(l1') /\ read' \in 1..Len(l1) /\ done' = 0 /\ l1' = l1
    BY <1>0, <1>4 DEF NextBatch
  <2>2. read' > 0 /\ done' <= Len(Current'.blocks)
    <3>1. l1[read'] \in Batch
      BY <2>1, L1Facts
    <3>2. Len(l1[read'].blocks) \in Nat
      BY <3>1, LenProperties DEF Batch
    <3>3. Current' = l1[read']
      BY <2>1 DEF Current
    <3> QED BY <2>1, <3>2, <3>3
  <2>3. done' \in Nat
    BY <2>1
  <2> QED BY <1>4, <2>1, <2>2, <2>3, Zenon DEF NextBatch, TypeOK
<1>5. CASE ExecuteBlock
  <2>1. pc = "execute" /\ Current' = Current /\ done' = done + 1
    BY <1>5 DEF ExecuteBlock, Current
  <2>2. done' <= Len(Current'.blocks) /\ done' \in Nat /\ done + 1 \in 1..Len(Current.blocks)
    BY <1>5, <2>1, CurrentFacts DEF ExecuteBlock
  <2>3. Current.blocks[done + 1] \in Nat \ {0}
    BY <2>1, <2>2, CurrentFacts, BatchEnds
  <2>4. executed' \in Seq(Nat \ {0})
    BY <1>5, <2>3, AppendProperties DEF ExecuteBlock, TypeOK
  <2> QED BY <1>5, <2>1, <2>2, <2>4, Zenon DEF ExecuteBlock, TypeOK
<1>6. CASE SourceFails \/ DeriveFails
  <2>1. pc' \in {"idle", "stopped"}
    BY <1>6 DEF SourceFails, DeriveFails, AfterError
  <2> QED BY <1>6, <2>1 DEF SourceFails, DeriveFails, TypeOK
<1>7. CASE RecordBatch
  <2>1. pc = "execute" /\ Current.num \in Nat /\ Len(Current.blocks) \in Nat
    BY <1>7, CurrentFacts, BatchEnds DEF RecordBatch
  <2>2. lastDerived' \in Nat /\ saved' \in Nat /\ finalized' \in Nat
    BY <1>0, <1>7, <2>1 DEF RecordBatch, RecordBatchDerived, BlocksInBatch
  <2>3. recorded' \subseteq Nat /\ pc' = "idle"
    BY <1>7, <2>1 DEF RecordBatch, TypeOK
  <2> QED BY <1>7, <2>2, <2>3 DEF RecordBatch, TypeOK
<1>8. CASE RecordFails
  <2>1. pc = "execute" /\ Current.num \in Nat
    BY <1>8, CurrentFacts, BatchEnds DEF RecordFails
  <2>2. lastDerived' \in Nat
    BY <1>0, <1>8, <2>1 DEF RecordFails, RecordBatchDerived
  <2>3. pc' \in {"idle", "stopped"}
    BY <1>8 DEF RecordFails, AfterError
  <2> QED BY <1>8, <2>2, <2>3 DEF RecordFails, TypeOK
<1>9. CASE Restart
  <2>1. restarts' \in 0..MaxRestarts /\ read' \in 0..Len(l1') /\ pc' = "idle"
    BY <1>0, <1>9, DerivationAssumption DEF Restart, RestartedAt, TypeOK
  <2>2. done' \in Nat /\ finalized' \in Nat /\ lastDerived' \in Nat
    BY <1>0, <1>9 DEF Restart
  <2> QED BY <1>9, <2>1, <2>2 DEF Restart, TypeOK
<1>10. CASE SkipBatch \/ BeginBatch
  <2>1. pc' \in {"idle", "execute"} /\ NextBatch
    BY <1>10 DEF SkipBatch, BeginBatch, NextBatch
  <2> QED BY <1>4, <2>1
<1> QED
  BY <1>1, <1>2, <1>3, <1>5, <1>6, <1>7, <1>8, <1>9, <1>10
     DEF Next, RunnerNext, TickStep, TickFault

-----------------------------------------------------------------------------
(* The parts of the invariant, step by step.                               *)

(* L1 changes only by posts.                                               *)
LEMMA L1Cases ==
    ASSUME [Next]_vars PROVE Post \/ l1' = l1
  BY DEF Next, RunnerNext, TickStep, TickFault, SkipBatch, BeginBatch, NextBatch,
         ExecuteBlock, RecordBatch, SourceFails, DeriveFails, RecordFails, Restart,
         SetPaused, vars

(* The batches stay numbered and consecutive.                              *)
LEMMA L1Step == TypeOK /\ L1Inv /\ [Next]_vars => L1Inv'
<1> SUFFICES ASSUME TypeOK, L1Inv, [Next]_vars PROVE L1Inv'
  OBVIOUS
<1>1. CASE l1' = l1
  BY <1>1 DEF L1Inv
<1>2. CASE Post
  <2>1. /\ Len(l1') = Len(l1) + 1 /\ \A k \in 1..Len(l1) : l1'[k] = l1[k]
        /\ l1'[Len(l1) + 1].num = FirstNum + Len(l1)
        /\ Consecutive(l1'[Len(l1) + 1])
        /\ First(l1'[Len(l1) + 1]) = Posted + 1
    BY <1>2, PostedL1
  <2>2. /\ Len(l1) \in Nat /\ FirstNum \in Nat /\ Posted \in Nat
        /\ Posted = IF Len(l1) = 0 THEN 0 ELSE Last(l1[Len(l1)])
    BY L1Facts, PostedFacts
  <2>3. ASSUME NEW k \in 1..Len(l1')
        PROVE  /\ l1'[k].num + 1 = FirstNum + k
               /\ Consecutive(l1'[k])
               /\ First(l1'[k]) = IF k = 1 THEN 1 ELSE Last(l1'[k - 1]) + 1
    <3>1. CASE k = Len(l1) + 1
      <4>1. k # 1 => Len(l1) \in 1..Len(l1) /\ k - 1 = Len(l1)
        BY <2>2, <3>1
      <4>2. k # 1 => l1'[k - 1] = l1[Len(l1)]
        BY <2>1, <4>1
      <4>3. First(l1'[k]) = IF k = 1 THEN 1 ELSE Last(l1'[k - 1]) + 1
        <5>1. CASE k = 1
          BY <2>1, <2>2, <3>1, <5>1
        <5>2. CASE k # 1
          <6>1. Posted = Last(l1[Len(l1)])
            BY <2>2, <3>1, <5>2
          <6> QED BY <2>1, <3>1, <4>2, <5>2, <6>1
        <5> QED BY <5>1, <5>2
      <4>4. l1'[k].num + 1 = FirstNum + k
        BY <2>1, <2>2, <3>1
      <4> QED BY <2>1, <3>1, <4>3, <4>4
    <3>2. CASE k # Len(l1) + 1
      <4>1. k \in 1..Len(l1) /\ l1'[k] = l1[k]
        BY <2>1, <2>2, <3>2
      <4>2. k # 1 => k - 1 \in 1..Len(l1) /\ l1'[k - 1] = l1[k - 1]
        BY <2>1, <2>2, <4>1
      <4> QED BY <4>1, <4>2 DEF L1Inv
    <3> QED BY <3>1, <3>2
  <2> QED BY <2>3 DEF L1Inv
<1> QED BY <1>1, <1>2, L1Cases

(* Executing a block adds it to what was executed.                         *)
LEMMA RanGrows ==
    ASSUME TypeOK, L1Inv, ExecuteBlock
    PROVE  /\ Current.blocks[done + 1] \in Nat \ {0} /\ done + 1 \in 1..Len(Current.blocks)
           /\ executed \in Seq(Nat \ {0}) /\ Len(executed) \in Nat
           /\ Len(executed') = Len(executed) + 1
           /\ \A i \in 1..Len(executed) : executed'[i] = executed[i]
           /\ executed'[Len(executed) + 1] = Current.blocks[done + 1]
           /\ Ran' = Ran \union {Current.blocks[done + 1]}
<1>1. pc = "execute" /\ executed' = Append(executed, Current.blocks[done + 1])
  BY DEF ExecuteBlock
<1>2. done + 1 \in 1..Len(Current.blocks)
  BY <1>1, CurrentFacts DEF ExecuteBlock
<1>3. Current.blocks[done + 1] \in Nat \ {0}
  BY <1>1, <1>2, CurrentFacts, BatchEnds
<1>4. executed \in Seq(Nat \ {0}) /\ Len(executed) \in Nat
  BY LenProperties DEF TypeOK
<1>5. /\ Len(executed') = Len(executed) + 1
      /\ \A i \in 1..Len(executed) : executed'[i] = executed[i]
      /\ executed'[Len(executed) + 1] = Current.blocks[done + 1]
  BY <1>1, <1>3, <1>4, AppendProperties
<1>6. 1..Len(executed') = (1..Len(executed)) \union {Len(executed) + 1}
  BY <1>4, <1>5
<1>7. Ran' = {executed'[i] : i \in 1..Len(executed')}
  BY DEF Ran
<1>8. Ran' = Ran \union {Current.blocks[done + 1]}
  BY <1>5, <1>6, <1>7 DEF Ran
<1> QED BY <1>2, <1>3, <1>4, <1>5, <1>8

(* What was executed stays executed.                                       *)
LEMMA RanKept ==
    ASSUME TypeOK, L1Inv, [Next]_vars
    PROVE  Ran \subseteq Ran' /\ (ExecuteBlock \/ executed' = executed)
<1>1. CASE ExecuteBlock
  BY <1>1, RanGrows
<1>2. CASE executed' = executed
  BY <1>2 DEF Ran
<1> QED
  BY <1>1, <1>2
     DEF Next, RunnerNext, TickStep, TickFault, SkipBatch, BeginBatch, NextBatch,
         RecordBatch, SourceFails, DeriveFails, RecordFails, Restart,
         SetPaused, vars, Post, runnerVars

(* A record of v still covers its batches when L1 and executed grow.       *)
LEMMA CoversKept ==
    ASSUME TypeOK, L1Inv, [Next]_vars, NEW v \in Nat, Covers(v)
    PROVE  v # 0 => /\ v < FirstNum + Len(l1')
                    /\ \A k \in 1..Len(l1') : FirstNum + k <= v + 1 => AllIn(l1'[k], Ran')
<1> SUFFICES ASSUME v # 0
             PROVE  /\ v < FirstNum + Len(l1')
                    /\ \A k \in 1..Len(l1') : FirstNum + k <= v + 1 => AllIn(l1'[k], Ran')
  OBVIOUS
<1>1. /\ v < FirstNum + Len(l1) /\ Len(l1) \in Nat /\ FirstNum \in Nat
      /\ \A k \in 1..Len(l1) : FirstNum + k <= v + 1 => AllIn(l1[k], Ran)
  BY L1Facts DEF Covers
<1>2. \A b : AllIn(b, Ran) => AllIn(b, Ran')
  BY RanKept DEF AllIn
<1>3. CASE l1' = l1
  BY <1>1, <1>2, <1>3
<1>4. CASE Post
  <2>1. Len(l1') = Len(l1) + 1 /\ \A k \in 1..Len(l1) : l1'[k] = l1[k]
    BY <1>4, PostedL1
  <2>2. \A k \in 1..Len(l1') : FirstNum + k <= v + 1 => k \in 1..Len(l1)
    BY <1>1, <2>1
  <2>3. v < FirstNum + Len(l1')
    BY <1>1, <2>1
  <2> QED BY <1>1, <1>2, <2>1, <2>2, <2>3
<1> QED BY <1>3, <1>4, L1Cases

(* When the current batch is complete, it and all before it are covered.   *)
LEMMA RecordCovers ==
    ASSUME TypeOK, L1Inv, CoverInv, ReadInv, pc = "execute",
           done = Len(Current.blocks)
    PROVE  RecordBatchDerived(Current.num) \in Nat /\ Covers(RecordBatchDerived(Current.num))
<1>1. /\ read \in 1..Len(l1) /\ Current \in Batch /\ Current.num \in Nat
      /\ Current.num + 1 = FirstNum + read /\ Len(l1) \in Nat /\ FirstNum \in Nat
      /\ lastDerived \in Nat
  BY CurrentFacts, BatchEnds, L1Facts DEF TypeOK
<1>2. AllIn(l1[read], Ran)
  BY DEF ReadInv, AllIn, Current
<1>3. \A k \in 1..Len(l1) : k < read => AllIn(l1[k], Ran)
  BY DEF ReadInv
<1>4. Covers(Current.num)
  <2>1. Current.num < FirstNum + Len(l1)
    BY <1>1
  <2>2. ASSUME NEW k \in 1..Len(l1), FirstNum + k <= Current.num + 1
        PROVE  AllIn(l1[k], Ran)
    <3>1. k < read \/ k = read
      BY <1>1, <2>2
    <3> QED BY <1>2, <1>3, <3>1
  <2> QED BY <2>1, <2>2 DEF Covers
<1> QED BY <1>1, <1>4 DEF RecordBatchDerived, CoverInv

(* The checkpoint, in memory and in the file, covers only what ran.        *)
LEMMA CoverStep ==
    ASSUME TypeOK, L1Inv, CoverInv, ReadInv, [Next]_vars PROVE CoverInv'
<1> USE DEF runnerVars, checkpointVars
<1>1. lastDerived \in Nat /\ saved \in Nat
  BY DEF TypeOK
<1>2. SUFFICES \E v, w \in Nat : Covers(v) /\ Covers(w) /\ lastDerived' = v /\ saved' = w
  <2>1. PICK v, w \in Nat : Covers(v) /\ Covers(w) /\ lastDerived' = v /\ saved' = w
    BY <1>2
  <2>2. /\ lastDerived' # 0 =>
             /\ lastDerived' < FirstNum + Len(l1')
             /\ \A k \in 1..Len(l1') : FirstNum + k <= lastDerived' + 1 => AllIn(l1'[k], Ran')
    BY <2>1, CoversKept
  <2>3. /\ saved' # 0 =>
             /\ saved' < FirstNum + Len(l1')
             /\ \A k \in 1..Len(l1') : FirstNum + k <= saved' + 1 => AllIn(l1'[k], Ran')
    BY <2>1, CoversKept
  <2> QED BY <2>2, <2>3 DEF CoverInv, Covers
<1>3. CASE UNCHANGED <<lastDerived, saved>>
  BY <1>1, <1>3 DEF CoverInv
<1>4. CASE RecordBatch
  BY <1>4, RecordCovers DEF RecordBatch, CoverInv
<1>5. CASE RecordFails
  BY <1>1, <1>5, RecordCovers DEF RecordFails, CoverInv
<1>6. CASE Restart
  BY <1>1, <1>6 DEF Restart, CoverInv
<1>7. ASSUME NEW p \in BOOLEAN, SetPaused(p) PROVE UNCHANGED <<lastDerived, saved>>
  BY <1>7 DEF SetPaused
<1>8. CASE Post \/ SkipBatch \/ BeginBatch \/ ExecuteBlock \/ SourceFails
           \/ DeriveFails \/ UNCHANGED vars
  BY <1>3, <1>8 DEF Post, SkipBatch, BeginBatch, NextBatch, ExecuteBlock,
        SourceFails, DeriveFails, vars
<1> QED
  BY <1>3, <1>4, <1>5, <1>6, <1>7, <1>8 DEF Next, RunnerNext, TickStep, TickFault

(* What the process has passed was executed.                               *)
LEMMA ReadStep ==
    ASSUME ~ContinueOnError, TypeOK, L1Inv, CoverInv, ReadInv, [Next]_vars
    PROVE  ReadInv'
<1> USE DEF runnerVars, checkpointVars
<1>0. /\ Len(l1) \in Nat /\ read \in Nat /\ read <= Len(l1) /\ FirstNum \in Nat
      /\ done \in Nat /\ lastDerived \in Nat
  BY L1Facts DEF TypeOK
<1>1. \A b : AllIn(b, Ran) => AllIn(b, Ran')
  BY RanKept DEF AllIn
<1>2. CASE Post
  <2>1. Len(l1') = Len(l1) + 1 /\ \A k \in 1..Len(l1) : l1'[k] = l1[k]
    BY <1>2, PostedL1
  <2>2. Ran' = Ran /\ read' = read /\ pc' = pc /\ done' = done
    BY <1>2 DEF Post, Ran
  <2>3. \A k \in 1..Len(l1') : k <= read => k \in 1..Len(l1)
    BY <1>0, <2>1
  <2>4. pc' # "stopped" => \A k \in 1..Len(l1') :
            k < read' \/ (k = read' /\ pc' = "idle") => AllIn(l1'[k], Ran')
    <3> SUFFICES ASSUME pc # "stopped", NEW k \in 1..Len(l1'),
                        k < read \/ (k = read /\ pc = "idle")
                 PROVE  AllIn(l1'[k], Ran)
      BY <2>2
    <3>1. k <= read /\ k \in 1..Len(l1)
      BY <1>0, <2>1
    <3> QED BY <2>1, <3>1 DEF ReadInv
  <2>5. pc' = "execute" => \A j \in 1..done' : Current'.blocks[j] \in Ran'
    <3> SUFFICES ASSUME pc = "execute" PROVE Current' = Current
      BY <2>2 DEF ReadInv
    <3>1. read \in 1..Len(l1)
      BY CurrentFacts
    <3> QED BY <2>1, <2>2, <3>1 DEF Current
  <2> QED BY <2>4, <2>5 DEF ReadInv
<1>3. ASSUME NEW p \in BOOLEAN, SetPaused(p) PROVE ReadInv'
  BY <1>3 DEF SetPaused, ReadInv, Ran, AllIn, Current
<1>4. CASE UNCHANGED vars
  BY <1>4 DEF vars, ReadInv, Ran, AllIn, Current
<1>5. CASE SkipBatch
  <2>1. /\ l1' = l1 /\ read' = read + 1 /\ pc = "idle" /\ pc' = "idle" /\ Ran' = Ran
        /\ lastDerived # 0 /\ l1[read + 1].num <= lastDerived /\ read + 1 \in 1..Len(l1)
    BY <1>0, <1>5 DEF SkipBatch, NextBatch, ShouldSkipBatch, Ran
  <2>2. l1[read + 1].num + 1 = FirstNum + (read + 1) /\ l1[read + 1].num \in Nat
    BY <2>1, L1Facts, BatchEnds DEF L1Inv
  <2>3. AllIn(l1[read + 1], Ran)
    <3>1. FirstNum + (read + 1) <= lastDerived + 1
      BY <1>0, <2>1, <2>2
    <3> QED BY <2>1, <3>1 DEF CoverInv, Covers
  <2>4. ASSUME NEW k \in 1..Len(l1), k <= read + 1 PROVE AllIn(l1[k], Ran)
    <3>1. k < read \/ k = read \/ k = read + 1
      BY <1>0, <2>4
    <3> QED BY <2>1, <2>3, <3>1 DEF ReadInv
  <2>5. ASSUME NEW k \in 1..Len(l1'), k < read' \/ (k = read' /\ pc' = "idle")
        PROVE  AllIn(l1'[k], Ran')
    <3>1. k <= read + 1
      BY <1>0, <2>1, <2>5
    <3> QED BY <2>1, <2>4, <3>1
  <2> QED BY <2>1, <2>5 DEF ReadInv
<1>6. CASE BeginBatch
  <2>1. /\ l1' = l1 /\ read' = read + 1 /\ pc = "idle" /\ pc' = "execute"
        /\ Ran' = Ran /\ done' = 0
    BY <1>6 DEF BeginBatch, NextBatch, Ran
  <2>2. ASSUME NEW k \in 1..Len(l1'), k < read' \/ (k = read' /\ pc' = "idle")
        PROVE  AllIn(l1'[k], Ran')
    <3>1. k < read \/ k = read
      BY <1>0, <2>1, <2>2
    <3> QED BY <2>1, <3>1 DEF ReadInv
  <2> QED BY <2>1, <2>2 DEF ReadInv
<1>7. CASE ExecuteBlock
  <2>1. /\ l1' = l1 /\ read' = read /\ pc = "execute" /\ pc' = "execute"
        /\ done' = done + 1 /\ Current' = Current
    BY <1>7 DEF ExecuteBlock, Current
  <2>2. Ran' = Ran \union {Current.blocks[done + 1]}
    BY <1>7, RanGrows
  <2>3. ASSUME NEW j \in 1..(done + 1) PROVE Current.blocks[j] \in Ran'
    <3>1. j = done + 1 \/ j \in 1..done
      BY <1>0
    <3> QED BY <2>1, <2>2, <3>1 DEF ReadInv
  <2> QED BY <1>1, <2>1, <2>3 DEF ReadInv
<1>8. CASE RecordBatch
  <2>1. /\ l1' = l1 /\ read' = read /\ pc = "execute" /\ pc' = "idle" /\ Ran' = Ran
        /\ done = Len(Current.blocks)
    BY <1>8 DEF RecordBatch, Ran
  <2>2. AllIn(l1[read], Ran)
    BY <2>1 DEF ReadInv, AllIn, Current
  <2> QED BY <2>1, <2>2 DEF ReadInv
<1>9. CASE SourceFails \/ DeriveFails \/ RecordFails
  <2>1. pc' = "stopped"
    BY <1>9 DEF SourceFails, DeriveFails, RecordFails, AfterError
  <2> QED BY <2>1 DEF ReadInv
<1>10. CASE Restart
  <2>1. read' = 0 /\ pc' = "idle" /\ l1' = l1
    BY <1>10 DEF Restart, RestartedAt
  <2>2. \A k \in 1..Len(l1') : ~(k < read' \/ (k = read' /\ pc' = "idle"))
    BY <1>0, <2>1
  <2> QED BY <2>1, <2>2 DEF ReadInv
<1> QED
  BY <1>2, <1>3, <1>4, <1>5, <1>6, <1>7, <1>8, <1>9, <1>10
     DEF Next, RunnerNext, TickStep, TickFault

(* The block before the one that is executed ran.                          *)
LEMMA PredecessorRan ==
    ASSUME TypeOK, L1Inv, ReadInv, ExecuteBlock
    PROVE  LET n == Current.blocks[done + 1] IN n = 1 \/ n - 1 \in Ran
<1> DEFINE n == Current.blocks[done + 1]
<1>1. pc = "execute" /\ n \in Nat \ {0} /\ done + 1 \in 1..Len(Current.blocks)
  BY RanGrows DEF ExecuteBlock
<1>2. /\ read \in 1..Len(l1) /\ Current \in Batch /\ Consecutive(Current)
      /\ done \in Nat /\ Len(Current.blocks) \in Nat /\ Len(l1) \in Nat
  BY <1>1, CurrentFacts, L1Facts
<1>3. n + 1 = First(Current) + (done + 1) /\ First(Current) \in Nat
  BY <1>1, <1>2, BatchEnds DEF Consecutive
<1>4. CASE done > 0
  <2>1. done \in 1..Len(Current.blocks) /\ done \in 1..done
    BY <1>1, <1>2, <1>4
  <2>2. Current.blocks[done] + 1 = First(Current) + done /\ Current.blocks[done] \in Nat
    BY <1>2, <2>1, BatchEnds DEF Consecutive
  <2>3. Current.blocks[done] \in Ran
    BY <1>1, <2>1 DEF ReadInv
  <2>4. Current.blocks[done] = n - 1
    <3>1. \A x, y, f, d \in Nat : x + 1 = f + d /\ y + 1 = f + (d + 1) => x = y - 1
      OBVIOUS
    <3> HIDE DEF n
    <3> QED BY <1>1, <1>2, <1>3, <2>2, <3>1
  <2> QED BY <2>3, <2>4
<1>5. CASE done = 0
  <2>1. n = First(Current)
    BY <1>5 DEF First
  <2>2. CASE read = 1
    <3>1. First(Current) = 1
      BY <1>2, <2>2 DEF L1Inv, Current
    <3> QED BY <2>1, <3>1
  <2>3. CASE read # 1
    <3>1. read - 1 \in 1..Len(l1) /\ read - 1 < read
      BY <1>2, <2>3
    <3>2. n = Last(l1[read - 1]) + 1
      BY <1>2, <2>1, <2>3 DEF L1Inv, Current
    <3>3. l1[read - 1] \in Batch /\ Consecutive(l1[read - 1])
      BY <3>1, L1Facts
    <3>4. /\ Len(l1[read - 1].blocks) \in 1..Len(l1[read - 1].blocks)
          /\ Last(l1[read - 1]) \in Nat
      BY <3>3, BatchEnds
    <3>5. AllIn(l1[read - 1], Ran)
      BY <1>1, <3>1 DEF ReadInv
    <3>6. Last(l1[read - 1]) \in Ran
      BY <3>4, <3>5 DEF AllIn, Last
    <3>7. Last(l1[read - 1]) = n - 1
      BY <3>2, <3>4
    <3> QED BY <3>6, <3>7
  <2> QED BY <2>2, <2>3
<1> QED BY <1>2, <1>4, <1>5

(* No block is executed before its predecessor.                            *)
LEMMA NoGapStep ==
    ASSUME TypeOK, L1Inv, ReadInv, NoGapExecuted, [Next]_vars PROVE NoGapExecuted'
<1>1. CASE executed' = executed
  BY <1>1 DEF NoGapExecuted
<1>2. CASE ExecuteBlock
  <2> DEFINE n == Current.blocks[done + 1]
  <2>1. /\ n \in Nat \ {0} /\ executed \in Seq(Nat \ {0}) /\ Len(executed) \in Nat
        /\ Len(executed') = Len(executed) + 1
        /\ \A i \in 1..Len(executed) : executed'[i] = executed[i]
        /\ executed'[Len(executed) + 1] = n
    BY <1>2, RanGrows
  <2>2. n = 1 \/ n - 1 \in Ran
    BY <1>2, PredecessorRan
  <2> HIDE DEF n
  <2>3. /\ DOMAIN executed = 1..Len(executed)
        /\ DOMAIN executed' = 1..(Len(executed) + 1)
    <3>1. executed' \in Seq(Nat \ {0})
      BY TypeNext DEF TypeOK
    <3> QED BY <2>1, <3>1, LenProperties
  <2>4. ASSUME NEW i \in 1..(Len(executed) + 1)
        PROVE  executed'[i] = 1 \/ \E j \in 1..(i - 1) : executed'[j] = executed'[i] - 1
    <3>1. CASE i = Len(executed) + 1
      <4>1. executed'[i] = n /\ i - 1 = Len(executed)
        BY <2>1, <3>1
      <4>2. ASSUME n - 1 \in Ran
            PROVE  \E j \in 1..Len(executed) : executed'[j] = n - 1
        BY <2>1, <4>2 DEF Ran
      <4> QED BY <2>2, <4>1, <4>2
    <3>2. CASE i # Len(executed) + 1
      <4>1. i \in 1..Len(executed) /\ executed'[i] = executed[i]
        BY <2>1, <3>2
      <4>2. CASE executed[i] = 1
        BY <4>1, <4>2
      <4>3. CASE executed[i] # 1
        <5>1. PICK j \in 1..(i - 1) : executed[j] = executed[i] - 1
          BY <2>3, <4>1, <4>3 DEF NoGapExecuted
        <5>2. j \in 1..Len(executed)
          BY <2>1, <4>1
        <5>3. executed'[j] = executed[j]
          BY <2>1, <5>2
        <5> QED BY <4>1, <5>1, <5>3
      <4> QED BY <4>2, <4>3
    <3> QED BY <3>1, <3>2
  <2> QED BY <2>3, <2>4 DEF NoGapExecuted
<1> QED BY <1>1, <1>2, RanKept

(* Where a first process is: what it finished, finalized and ran last.     *)
LEMMA HeadStep ==
    ASSUME ~ContinueOnError, TypeOK, L1Inv, HeadInv, [Next]_vars
    PROVE  HeadInv'
<1> USE DEF runnerVars, checkpointVars
<1>0. /\ Len(l1) \in Nat /\ read \in Nat /\ read <= Len(l1) /\ FirstNum \in Nat
      /\ done \in Nat /\ lastDerived \in Nat /\ finalized \in Nat /\ restarts \in Nat
  BY L1Facts, DerivationAssumption DEF TypeOK
<1>1. CASE Post
  <2>1. Len(l1') = Len(l1) + 1 /\ \A k \in 1..Len(l1) : l1'[k] = l1[k]
    BY <1>1, PostedL1
  <2>2. UNCHANGED <<read, pc, done, lastDerived, finalized, recorded, executed, restarts>>
    BY <1>1 DEF Post
  <2>3. Passed' = Passed
    BY <2>2 DEF Passed
  <2>4. Passed # 0 /\ pc # "stopped" => Passed \in 1..Len(l1)
    BY <1>0 DEF Passed, TypeOK
  <2>5. Passed # 0 /\ pc # "stopped" => l1'[Passed] = l1[Passed]
    BY <2>1, <2>4
  <2>6. read > 0 => l1'[read] = l1[read]
    BY <1>0, <2>1
  <2>7. pc = "execute" => Current' = Current
    BY <1>0, <2>2, <2>6 DEF Current, TypeOK
  <2> QED BY <2>2, <2>3, <2>5, <2>6, <2>7 DEF HeadInv
<1>2. ASSUME NEW p \in BOOLEAN, SetPaused(p) PROVE HeadInv'
  BY <1>2 DEF SetPaused, HeadInv, Passed, Current
<1>3. CASE UNCHANGED vars
  BY <1>3 DEF vars, HeadInv, Passed, Current
<1>4. CASE SourceFails \/ DeriveFails \/ RecordFails
  <2>1. pc' = "stopped"
    BY <1>4 DEF SourceFails, DeriveFails, RecordFails, AfterError
  <2> QED BY <2>1 DEF HeadInv
<1>5. CASE Restart
  <2>1. restarts' # 0
    BY <1>0, <1>5 DEF Restart
  <2> QED BY <2>1 DEF HeadInv
<1>6. CASE SkipBatch
  <2>1. /\ pc = "idle" /\ restarts' = restarts /\ read + 1 \in 1..Len(l1)
        /\ lastDerived # 0 /\ l1[read + 1].num <= lastDerived
    BY <1>0, <1>6 DEF SkipBatch, NextBatch, ShouldSkipBatch
  <2>2. l1[read + 1].num + 1 = FirstNum + (read + 1) /\ l1[read + 1].num \in Nat
    BY <2>1, L1Facts, BatchEnds DEF L1Inv
  <2>3. restarts = 0 => lastDerived < FirstNum + read
    BY <2>1 DEF HeadInv, Passed
  <2>4. restarts # 0
    BY <1>0, <2>1, <2>2, <2>3
  <2> QED BY <2>1, <2>4 DEF HeadInv
<1>7. CASE BeginBatch
  <2>1. /\ l1' = l1 /\ read' = read + 1 /\ pc = "idle" /\ pc' = "execute" /\ done' = 0
        /\ UNCHANGED <<lastDerived, finalized, recorded, executed, restarts>>
    BY <1>7 DEF BeginBatch, NextBatch
  <2>2. Passed' = Passed
    <3>1. Passed' = (read + 1) - 1 /\ Passed = read
      BY <2>1 DEF Passed
    <3> QED BY <1>0, <3>1
  <2> QED BY <2>1, <2>2 DEF HeadInv
<1>8. CASE ExecuteBlock
  <2>1. /\ l1' = l1 /\ read' = read /\ pc = "execute" /\ pc' = "execute"
        /\ done' = done + 1 /\ Current' = Current
        /\ UNCHANGED <<lastDerived, finalized, recorded, restarts>>
    BY <1>8 DEF ExecuteBlock, Current
  <2>2. Passed' = Passed
    BY <2>1 DEF Passed
  <2>3. /\ Len(executed) \in Nat /\ Len(executed') = Len(executed) + 1
        /\ executed'[Len(executed) + 1] = Current.blocks[done + 1]
    BY <1>8, RanGrows
  <2>4. executed' # << >>
    <3>1. executed' \in Seq(Nat \ {0})
      BY TypeNext DEF TypeOK
    <3>2. Len(executed') # 0
      BY <2>3
    <3> QED BY <3>1, <3>2, EmptySeq
  <2> QED BY <2>1, <2>2, <2>3, <2>4 DEF HeadInv
<1>9. CASE RecordBatch
  <2>1. /\ l1' = l1 /\ read' = read /\ pc = "execute" /\ pc' = "idle"
        /\ done = Len(Current.blocks) /\ lastDerived' = RecordBatchDerived(Current.num)
        /\ finalized' = finalized + BlocksInBatch
        /\ UNCHANGED <<done, executed, restarts>>
    BY <1>9 DEF RecordBatch
  <2>2. /\ read \in 1..Len(l1) /\ Current \in Batch /\ Consecutive(Current)
        /\ Current.num + 1 = FirstNum + read /\ Current.num \in Nat
        /\ Len(Current.blocks) \in Nat \ {0} /\ First(Current) \in Nat
        /\ Last(Current) \in Nat
        /\ Last(Current) + 1 = First(Current) + Len(Current.blocks)
    BY <2>1, CurrentFacts, BatchEnds
  <2>3. Passed' = read /\ Passed = read - 1 /\ read > 0
    BY <2>1, <2>2 DEF Passed
  <2> SUFFICES ASSUME restarts = 0
               PROVE  /\ lastDerived' # 0 => lastDerived' < FirstNum + read
                      /\ CountsRecorded => finalized' = Last(l1[read])
                      /\ executed # << >> /\ executed[Len(executed)] = Last(l1[read])
    BY <2>1, <2>2, <2>3 DEF HeadInv
  <2>4. lastDerived # 0 => lastDerived < FirstNum + (read - 1)
    BY <2>1, <2>3 DEF HeadInv
  <2>5. lastDerived' # 0 => lastDerived' < FirstNum + read
    BY <1>0, <2>1, <2>2, <2>4 DEF RecordBatchDerived
  <2>6. executed # << >> /\ executed[Len(executed)] = Last(l1[read])
    BY <2>1, <2>2 DEF HeadInv, Last, Current
  <2>7. ASSUME CountsRecorded PROVE finalized' = Last(l1[read])
    <3>1. finalized' = finalized + Len(Current.blocks)
      BY <2>1, <2>7 DEF BlocksInBatch
    <3>2. finalized = IF read - 1 = 0 THEN 0 ELSE Last(l1[read - 1])
      BY <2>1, <2>3, <2>7 DEF HeadInv
    <3>3. First(Current) = IF read = 1 THEN 1 ELSE Last(l1[read - 1]) + 1
      BY <2>2 DEF L1Inv, Current
    <3>4. First(Current) = finalized + 1
      <4>1. CASE read = 1
        BY <3>2, <3>3, <4>1
      <4>2. CASE read # 1
        <5>1. read - 1 # 0
          BY <2>2, <4>2
        <5> QED BY <3>2, <3>3, <4>2, <5>1
      <4> QED BY <4>1, <4>2
    <3>5. finalized + Len(Current.blocks) = Last(Current)
      <4> DEFINE x == finalized
                 n == Len(Current.blocks)
                 f == First(Current)
                 y == Last(Current)
      <4>1. x \in Nat /\ n \in Nat /\ f \in Nat /\ y \in Nat
        BY <1>0, <2>2
      <4>2. f = x + 1
        BY <3>4
      <4>3. y + 1 = f + n
        BY <2>2
      <4> HIDE DEF x, n, f, y
      <4>4. x + n = y
        BY <4>1, <4>2, <4>3
      <4> QED BY <4>4 DEF x, n, y
    <3> QED BY <3>1, <3>5 DEF Current
  <2> QED BY <2>5, <2>6, <2>7
<1> QED
  BY <1>1, <1>2, <1>3, <1>4, <1>5, <1>6, <1>7, <1>8, <1>9
     DEF Next, RunnerNext, TickStep, TickFault

(* Initially the invariant holds.                                          *)
LEMMA InvInit == Init => Inv
<1> SUFFICES ASSUME Init PROVE Inv
  OBVIOUS
<1>1. Len(l1) = 0 /\ Len(executed) = 0 /\ read = 0 /\ done = 0 /\ pc = "idle"
  BY DEF Init, RunnerInit
<1>2. TypeOK
  <2>1. /\ << >> \in Seq([num : Nat, blocks : Seq(Nat \ {0})])
        /\ << >> \in Seq(Nat \ {0})
    BY EmptySeq
  <2>2. /\ read \in 0..Len(l1) /\ done \in Nat /\ lastDerived \in Nat /\ saved \in Nat
        /\ finalized \in Nat /\ restarts \in 0..MaxRestarts
    BY <1>1, DerivationAssumption DEF Init, RunnerInit
  <2>3. pc \in {"idle", "execute", "stopped"} /\ pc # "execute"
    BY <1>1
  <2> QED BY <2>1, <2>2, <2>3, Zenon DEF Init, RunnerInit, TypeOK
<1>3. L1Inv /\ CoverInv /\ ReadInv /\ HeadInv
  BY <1>1 DEF Init, RunnerInit, L1Inv, CoverInv, Covers, ReadInv, HeadInv, Passed
<1>4. NoGapExecuted
  BY DEF Init, RunnerInit, NoGapExecuted
<1> QED BY <1>2, <1>3, <1>4 DEF Inv

(* The parts together are inductive, for a caller that stops at an error.  *)
LEMMA DerivationInvariant ==
    ASSUME ~ContinueOnError PROVE Spec => []Inv
<1>1. Inv /\ [Next]_vars => Inv'
  BY TypeNext, L1Step, CoverStep, ReadStep, NoGapStep, HeadStep DEF Inv
<1> QED BY InvInit, <1>1, PTL DEF Spec

-----------------------------------------------------------------------------
(* The theorems.                                                           *)

(* Over failures and restarts no block is executed before its predecessor, *)
(* and the finalized head, a sum of block counts, is the last block.       *)
THEOREM ExecutionIsInOrder ==
    ASSUME ~ContinueOnError PROVE Spec => []ExecutionInOrder
<1>1. Inv => ExecutionInOrder
  <2> SUFFICES ASSUME Inv, CountsRecorded, pc = "idle", recorded # {}, restarts = 0
               PROVE  finalized = executed[Len(executed)]
    BY DEF Inv, ExecutionInOrder, FinalizedIsLastDerived
  <2>1. Passed = read /\ read > 0 /\ read # 0
    BY DEF Inv, HeadInv, Passed
  <2> QED BY <2>1 DEF Inv, HeadInv
<1> QED BY DerivationInvariant, <1>1, PTL

(* The checkpoint in step with what was recorded, step by step.            *)
LEMMA OnceStep ==
    ASSUME ~ContinueOnError, FirstNum = 1, TypeOK, L1Inv, OnceInv, [Next]_vars
    PROVE  OnceInv'
<1> USE DEF runnerVars, checkpointVars
<1>0. /\ Len(l1) \in Nat /\ read \in Nat /\ read <= Len(l1)
      /\ lastDerived \in Nat /\ saved \in Nat
  BY L1Facts DEF TypeOK
<1>1. ASSUME NEW p \in BOOLEAN, SetPaused(p) PROVE OnceInv'
  BY <1>1 DEF SetPaused, OnceInv
<1>2. CASE Post \/ ExecuteBlock \/ UNCHANGED vars
  BY <1>2 DEF Post, ExecuteBlock, vars, OnceInv
<1>3. CASE SourceFails \/ DeriveFails \/ RecordFails
  <2>1. pc' = "stopped" /\ recorded' = recorded /\ saved' = saved
    BY <1>3 DEF SourceFails, DeriveFails, RecordFails, AfterError
  <2> QED BY <2>1 DEF OnceInv
<1>4. CASE Restart
  <2>1. /\ read' = 0 /\ pc' = "idle" /\ lastDerived' = saved
        /\ recorded' = recorded /\ saved' = saved
    BY <1>4 DEF Restart, RestartedAt
  <2> QED BY <1>0, <2>1 DEF OnceInv
<1>5. CASE SkipBatch \/ BeginBatch
  <2>1. /\ pc = "idle" /\ read' = read + 1 /\ read + 1 \in 1..Len(l1)
        /\ UNCHANGED <<recorded, saved, lastDerived>>
    BY <1>0, <1>5 DEF SkipBatch, BeginBatch, NextBatch
  <2>2. l1[read + 1].num + 1 = 1 + (read + 1) /\ l1[read + 1].num \in Nat
    BY <2>1, L1Facts, BatchEnds DEF L1Inv
  <2>3. l1[read + 1].num = read + 1
    BY <1>0, <2>2
  <2>4. CASE SkipBatch
    <3>1. pc' = "idle" /\ read + 1 <= lastDerived
      BY <2>1, <2>3, <2>4 DEF SkipBatch, ShouldSkipBatch
    <3> QED BY <2>1, <3>1 DEF OnceInv
  <2>5. CASE BeginBatch
    <3>1. pc' = "execute" /\ ~(lastDerived # 0 /\ read + 1 <= lastDerived)
      BY <2>3, <2>5 DEF BeginBatch, ShouldSkipBatch
    <3>2. read <= lastDerived
      BY <2>1 DEF OnceInv
    <3>3. read + 1 = lastDerived + 1
      BY <1>0, <3>1, <3>2
    <3> QED BY <2>1, <3>1, <3>3 DEF OnceInv
  <2> QED BY <1>5, <2>4, <2>5
<1>6. CASE RecordBatch
  <2>1. /\ pc = "execute" /\ pc' = "idle" /\ read' = read
        /\ lastDerived' = RecordBatchDerived(Current.num) /\ saved' = lastDerived'
        /\ recorded' = recorded \union {Current.num}
    BY <1>6 DEF RecordBatch
  <2>2. Current.num + 1 = 1 + read /\ Current.num \in Nat
    BY <2>1, CurrentFacts, BatchEnds
  <2>3. Current.num = lastDerived + 1 /\ lastDerived = saved /\ read = lastDerived + 1
    BY <1>0, <2>1, <2>2 DEF OnceInv
  <2>4. lastDerived' = saved + 1
    BY <1>0, <2>1, <2>3 DEF RecordBatchDerived
  <2>5. recorded' = 1..(saved + 1)
    <3>1. (1..saved) \union {saved + 1} = 1..(saved + 1)
      BY <1>0
    <3> QED BY <2>1, <2>3, <3>1 DEF OnceInv
  <2> QED BY <1>0, <2>1, <2>3, <2>4, <2>5 DEF OnceInv
<1> QED
  BY <1>1, <1>2, <1>3, <1>4, <1>5, <1>6 DEF Next, RunnerNext, TickStep, TickFault

(* should_skip_batch passes over what was derived and nothing else, also   *)
(* in a later process, when batches are numbered from 1.                   *)
THEOREM CheckpointIsExact ==
    ASSUME ~ContinueOnError, FirstNum = 1 PROVE Spec => DerivedOnce
<1>1. Init => OnceInv
  BY DEF Init, RunnerInit, OnceInv
<1>2. Inv /\ OnceInv /\ [Next]_vars => OnceInv'
  BY OnceStep DEF Inv
<1>3. ASSUME Inv, OnceInv, NextBatch
      PROVE  /\ pc = "idle" /\ lastDerived \in Nat /\ lastDerived = saved
             /\ l1[read + 1].num \in Nat \ {0}
             /\ recorded = 1..lastDerived
  <2>1. TypeOK /\ L1Inv
    BY <1>3 DEF Inv
  <2>2. read \in Nat /\ read + 1 \in 1..Len(l1) /\ pc = "idle" /\ lastDerived \in Nat
    BY <1>3, <2>1, L1Facts DEF NextBatch, TypeOK
  <2>3. l1[read + 1].num + 1 = 1 + (read + 1) /\ l1[read + 1].num \in Nat
    BY <2>1, <2>2, L1Facts, BatchEnds DEF L1Inv
  <2>4. l1[read + 1].num # 0
    BY <2>2, <2>3
  <2> QED BY <1>3, <2>2, <2>3, <2>4 DEF OnceInv
<1>4. Inv /\ OnceInv /\ [Next]_vars =>
        [SkipBatch => l1[read + 1].num \in recorded]_vars
  <2> SUFFICES ASSUME Inv, OnceInv, SkipBatch PROVE l1[read + 1].num \in recorded
    OBVIOUS
  <2>1. NextBatch /\ l1[read + 1].num <= lastDerived
    BY DEF SkipBatch, ShouldSkipBatch
  <2> QED BY <1>3, <2>1
<1>5. Inv /\ OnceInv /\ [Next]_vars =>
        [BeginBatch => l1[read + 1].num \notin recorded]_vars
  <2> SUFFICES ASSUME Inv, OnceInv, BeginBatch PROVE l1[read + 1].num \notin recorded
    OBVIOUS
  <2>1. NextBatch /\ ~(lastDerived # 0 /\ l1[read + 1].num <= lastDerived)
    BY DEF BeginBatch, ShouldSkipBatch
  <2> QED BY <1>3, <2>1
<1> QED BY DerivationInvariant, <1>1, <1>2, <1>4, <1>5, PTL
        DEF Spec, DerivedOnce, SkipsOnlyDerived, NotDerivedAgain
=============================================================================
