-------------------------- MODULE SequencerProofs --------------------------
(***************************************************************************)
(* Proofs about the sequencer role, for every chain length, batch size,    *)
(* threshold and number of workers: type correctness, the in-flight        *)
(* counter, the order of the batches on L1, the ordered log it implements, *)
(* and that no batch is lost on the way.                                   *)
(***************************************************************************)
EXTENDS Sequencer, TLAPS, FiniteSetTheorems, SequenceTheorems

-----------------------------------------------------------------------------
(* Lemmas on the operators.                                                *)

(* dynamic_max_blocks never returns 0, so no phase takes empty batches.    *)
LEMMA DynamicMaxPositive ==
    \A n \in Nat : DynamicMaxBlocks(n) \in Nat \ {0}
  BY BatchSizeAssumption DEF DynamicMaxBlocks

(* Min of two positive numbers.                                            *)
LEMMA MinOfBounds ==
    ASSUME NEW a \in Nat \ {0}, NEW b \in Nat \ {0}
    PROVE  MinOf(a, b) \in 1..a
  BY DEF MinOf

(* Splitting pending_blocks: the first n blocks and the rest.              *)
LEMMA Split ==
    ASSUME NEW s \in Seq(Nat), NEW n \in 1..Len(s)
    PROVE  /\ SubSeq(s, 1, n) \in Seq(Nat)
           /\ Len(SubSeq(s, 1, n)) = n
           /\ SubSeq(s, 1, n) # << >>
           /\ \A i \in 1..n : SubSeq(s, 1, n)[i] = s[i]
           /\ SubSeq(s, n + 1, Len(s)) \in Seq(Nat)
           /\ Len(SubSeq(s, n + 1, Len(s))) = Len(s) - n
           /\ \A i \in 1..(Len(s) - n) : SubSeq(s, n + 1, Len(s))[i] = s[n + i]
<1>1. /\ Len(s) \in Nat /\ n \in Nat /\ n <= Len(s)
      /\ \A i \in 1..Len(s) : s[i] \in Nat
  BY LenProperties, ElementOfSeq
<1>2. /\ SubSeq(s, 1, n) \in Seq(Nat)
      /\ Len(SubSeq(s, 1, n)) = n
      /\ \A i \in 1..n : SubSeq(s, 1, n)[i] = s[i]
  <2>1. \A i \in 1..n : s[i] \in Nat
    BY <1>1
  <2>2. /\ SubSeq(s, 1, n) \in Seq(Nat)
        /\ Len(SubSeq(s, 1, n)) = IF 1 <= n THEN n - 1 + 1 ELSE 0
        /\ \A i \in 1..(n - 1 + 1) : SubSeq(s, 1, n)[i] = s[1 + i - 1]
    BY <1>1, <2>1, SubSeqProperties
  <2> QED BY <1>1, <2>2
<1>3. /\ SubSeq(s, n + 1, Len(s)) \in Seq(Nat)
      /\ Len(SubSeq(s, n + 1, Len(s))) = Len(s) - n
      /\ \A i \in 1..(Len(s) - n) : SubSeq(s, n + 1, Len(s))[i] = s[n + i]
  <2>1. \A i \in (n + 1)..Len(s) : s[i] \in Nat
    BY <1>1
  <2>2. /\ SubSeq(s, n + 1, Len(s)) \in Seq(Nat)
        /\ Len(SubSeq(s, n + 1, Len(s))) =
              IF n + 1 <= Len(s) THEN Len(s) - (n + 1) + 1 ELSE 0
        /\ \A i \in 1..(Len(s) - (n + 1) + 1) :
              SubSeq(s, n + 1, Len(s))[i] = s[n + 1 + i - 1]
    BY <1>1, <2>1, SubSeqProperties
  <2> QED BY <1>1, <2>2
<1>4. SubSeq(s, 1, n) # << >>
  BY <1>1, <1>2, EmptySeq
<1> QED BY <1>2, <1>3, <1>4

-----------------------------------------------------------------------------
(* Type correctness.                                                       *)

(* Initially the types hold.                                               *)
LEMMA TypeInit == Init => TypeOK
<1> SUFFICES ASSUME Init PROVE TypeOK
  OBVIOUS
<1>1. << >> \in Seq(Nat) /\ << >> \in Seq(Batch)
  BY EmptySeq
<1>2. blockCh \in Seq(Nat) /\ pending \in Seq(Nat) /\ l1 \in Seq(Batch)
  BY <1>1 DEF Init
<1>3. /\ workers \subseteq Batch /\ ready \subseteq Batch
      /\ current \subseteq Batch /\ failed \subseteq Nat \ {0}
      /\ preparedCh \subseteq [ok : BOOLEAN, batch : Batch]
  BY DEF Init
<1>4. resumed \in 0..MaxResumed /\ lastSubmitted \in Nat /\ saved \in Nat
  BY LimitAssumption DEF Init
<1>5. feed \in Start..(LastBlock + 1)
  BY BlockAssumption DEF Init
<1>6. dynMax \in Nat \ {0}
  BY BatchSizeAssumption DEF Init
<1>7. /\ timeReady \in BOOLEAN /\ draining \in BOOLEAN
      /\ disconnected \in BOOLEAN /\ completed \in BOOLEAN
      /\ feederOpen \in BOOLEAN
  BY DEF Init
<1>8. pc \in PCs
  BY DEF Init, PCs
<1> QED
  BY <1>2, <1>3, <1>4, <1>5, <1>6, <1>7, <1>8 DEF Init, TypeOK

(* Handing the first n pending blocks to a worker keeps the types.         *)
LEMMA TypeSpawn ==
    ASSUME TypeOK, NEW n \in 1..Len(pending), SpawnPreparationWorker(n)
    PROVE  /\ pending' \in Seq(Nat)
           /\ nextBatch' \in Nat \ {0}
           /\ inFlight' \in Nat
           /\ workers' \subseteq Batch
<1>1. SubSeq(pending, 1, n) \in Seq(Nat) \ {<< >>}
  BY Split DEF TypeOK
<1>2. SubSeq(pending, n + 1, Len(pending)) \in Seq(Nat)
  BY Split DEF TypeOK
<1>3. [num |-> nextBatch, blocks |-> SubSeq(pending, 1, n)] \in Batch
  BY <1>1 DEF TypeOK, Batch
<1>4. workers' \subseteq Batch
  BY <1>3 DEF SpawnPreparationWorker, TypeOK
<1>5. nextBatch' \in Nat \ {0} /\ inFlight' \in Nat
  BY DEF SpawnPreparationWorker, TypeOK
<1>6. pending' \in Seq(Nat)
  BY <1>2 DEF SpawnPreparationWorker
<1> QED BY <1>4, <1>5, <1>6

(* The sizes the three spawn sites pass are within pending_blocks.         *)
LEMMA SpawnSizes ==
    ASSUME TypeOK, pending # << >>
    PROVE  /\ Len(pending) \in 1..Len(pending)
           /\ MinOf(Len(pending), MaxBlocksPerBatch) \in 1..Len(pending)
           /\ MinOf(Len(pending), DynamicMaxBlocks(EstimateBacklog))
                 \in 1..Len(pending)
<1>1. Len(pending) \in Nat \ {0} /\ Len(blockCh) \in Nat
  BY EmptySeq, LenProperties DEF TypeOK
<1>2. DynamicMaxBlocks(EstimateBacklog) \in Nat \ {0}
  BY <1>1, DynamicMaxPositive DEF EstimateBacklog
<1>3. MaxBlocksPerBatch \in Nat \ {0}
  BY BatchSizeAssumption
<1>4. MinOf(Len(pending), MaxBlocksPerBatch) \in 1..Len(pending)
  BY <1>1, <1>3, MinOfBounds
<1>5. MinOf(Len(pending), DynamicMaxBlocks(EstimateBacklog)) \in 1..Len(pending)
  BY <1>1, <1>2, MinOfBounds
<1> QED BY <1>1, <1>4, <1>5

(* Every step of the feeder, the workers and tick() keeps the types.       *)
LEMMA TypeNext == TypeOK /\ [Next]_vars => TypeOK'
<1> SUFFICES ASSUME TypeOK, [Next]_vars PROVE TypeOK'
  OBVIOUS
<1> USE DEF PCs, feederVars, batchVars, submitVars, tickVars
<1>1. CASE Feed
  <2>1. blockCh' \in Seq(Nat)
    BY <1>1, BlockAssumption, AppendProperties DEF Feed, TypeOK
  <2> QED BY <1>1, <2>1, BlockAssumption DEF Feed, TypeOK
<1>2. CASE FeederStops
  BY <1>2 DEF FeederStops, TypeOK
<1>3. CASE IntervalElapses
  BY <1>3 DEF IntervalElapses, TypeOK
<1>4. ASSUME NEW w \in workers, NEW ok \in BOOLEAN, Prepare(w, ok),
             failed' \subseteq Nat \ {0}
      PROVE  TypeOK'
  BY <1>4 DEF Prepare, TypeOK
<1>5. CASE WorkerDone
  <2>1. PICK w \in workers : Prepare(w, TRUE) /\ UNCHANGED failed
    BY <1>5 DEF WorkerDone
  <2> QED BY <1>4, <2>1 DEF TypeOK
<1>6. CASE WorkerFails
  <2>1. PICK w \in workers : Prepare(w, FALSE) /\ failed' = failed \union {w.num}
    BY <1>6 DEF WorkerFails
  <2>2. failed' \subseteq Nat \ {0}
    BY <2>1 DEF TypeOK, Batch
  <2> QED BY <1>4, <2>1, <2>2
<1>7. CASE NextTick
  BY <1>7 DEF NextTick, TypeOK
<1>8. CASE Collect
  <2>1. PICK m \in preparedCh :
          /\ preparedCh' = preparedCh \ {m}
          /\ ready' = IF m.ok THEN ready \union {m.batch} ELSE ready
    BY <1>8 DEF Collect
  <2>2. m.batch \in Batch
    BY <2>1 DEF TypeOK
  <2>3. preparedCh' \subseteq [ok : BOOLEAN, batch : Batch] /\ ready' \subseteq Batch
    BY <2>1, <2>2 DEF TypeOK
  <2> QED BY <1>8, <2>3 DEF Collect, TypeOK
<1>9. CASE CollectEmpty
  BY <1>9 DEF CollectEmpty, TypeOK
<1>10. CASE SkipBatch
  BY <1>10 DEF SkipBatch, TypeOK
<1>11. CASE SubmitBatch
  <2>1. PICK b \in ready : /\ ready' = ready \ {b}
                           /\ current' = {b}
                           /\ l1' = Append(l1, b)
    BY <1>11 DEF SubmitBatch
  <2>2. l1' \in Seq(Batch)
    BY <2>1, AppendProperties DEF TypeOK
  <2> QED BY <1>11, <2>1, <2>2 DEF SubmitBatch, TypeOK
<1>12. CASE SubmitFails
  <2>1. PICK b \in ready, included \in BOOLEAN :
           /\ ready' = ready \ {b}
           /\ current' = {b}
           /\ l1' = IF included THEN Append(l1, b) ELSE l1
    BY <1>12 DEF SubmitFails
  <2>2. l1' \in Seq(Batch)
    BY <2>1, AppendProperties DEF TypeOK
  <2> QED BY <1>12, <2>1, <2>2 DEF SubmitFails, TypeOK
<1>13. CASE RecordBatch
  <2>1. PICK b \in current : /\ lastSubmitted' = RecordBatchSubmitted(b.num)
                             /\ saved' = lastSubmitted'
    BY <1>13 DEF RecordBatch
  <2>2. lastSubmitted' \in Nat
    BY <2>1 DEF TypeOK, Batch, RecordBatchSubmitted
  <2>3. current' \subseteq Batch
    BY <1>13 DEF RecordBatch
  <2>4. timeReady' \in BOOLEAN
    BY <1>13 DEF RecordBatch
  <2>5. pc' \in PCs /\ nextSub' \in Nat \ {0}
    BY <1>13 DEF RecordBatch, TypeOK
  <2> QED BY <1>13, <2>1, <2>2, <2>3, <2>4, <2>5 DEF RecordBatch, TypeOK
<1>14. CASE RecordFails
  <2>1. PICK b \in current : lastSubmitted' = RecordBatchSubmitted(b.num)
    BY <1>14 DEF RecordFails
  <2>2. lastSubmitted' \in Nat
    BY <2>1 DEF TypeOK, Batch, RecordBatchSubmitted
  <2> QED BY <1>14, <2>1, <2>2 DEF RecordFails, TypeOK
<1>15. CASE SubmitNone
  <2>1. DynamicMaxBlocks(EstimateBacklog) \in Nat \ {0}
    <3>1. Len(blockCh) \in Nat /\ Len(pending) \in Nat
      BY LenProperties DEF TypeOK
    <3> QED BY <3>1, DynamicMaxPositive DEF EstimateBacklog
  <2> QED BY <1>15, <2>1 DEF SubmitNone, TypeOK
<1>16. CASE AccumulateBlock
  <2>1. Head(blockCh) \in Nat /\ Tail(blockCh) \in Seq(Nat)
    BY <1>16, HeadTailProperties DEF AccumulateBlock, TypeOK
  <2>2. Append(pending, Head(blockCh)) \in Seq(Nat)
    BY <2>1, AppendProperties DEF TypeOK
  <2> QED BY <1>16, <2>1, <2>2 DEF AccumulateBlock, TypeOK
<1>17. CASE AccumulateNone
  BY <1>17 DEF AccumulateNone, TypeOK
<1>18. CASE EnterCatchUp
  BY <1>18, LimitAssumption DEF EnterCatchUp, AvailableSlots, TypeOK
<1>19. CASE SpawnCatchUp
  <2>1. PICK n \in 1..Len(pending) : SpawnPreparationWorker(n)
    BY <1>19, SpawnSizes DEF SpawnCatchUp
  <2> QED BY <1>19, <2>1, TypeSpawn DEF SpawnCatchUp, TypeOK
<1>20. CASE CatchUpDone
  BY <1>20 DEF CatchUpDone, AfterSpawn, TypeOK
<1>21. CASE SpawnNormal
  <2>1. PICK n \in 1..Len(pending) : SpawnPreparationWorker(n)
    BY <1>21, SpawnSizes DEF SpawnNormal
  <2> QED BY <1>21, <2>1, TypeSpawn DEF SpawnNormal, AfterSpawn, TypeOK
<1>22. CASE SpawnNone
  BY <1>22 DEF SpawnNone, AfterSpawn, TypeOK
<1>23. CASE Flush
  <2>1. CASE NothingToFlush
    BY <1>23, <2>1 DEF Flush, TypeOK
  <2>2. CASE ~NothingToFlush
    <3>1. PICK n \in 1..Len(pending) : SpawnPreparationWorker(n)
      BY <1>23, <2>2, SpawnSizes DEF Flush, NothingToFlush
    <3> QED BY <1>23, <3>1, TypeSpawn DEF Flush, TypeOK
  <2> QED BY <2>1, <2>2
<1>24. CASE DrainMore
  BY <1>24 DEF DrainMore, TypeOK
<1>25. CASE DrainDone
  BY <1>25 DEF DrainDone, TypeOK
<1>26. CASE UNCHANGED vars
  BY <1>26 DEF vars, TypeOK
<1> QED
  BY <1>1, <1>2, <1>3, <1>5, <1>6, <1>7, <1>8, <1>9, <1>10, <1>11, <1>12,
     <1>13, <1>14, <1>15, <1>16, <1>17, <1>18, <1>19, <1>20, <1>21, <1>22,
     <1>23, <1>24, <1>25, <1>26
     DEF Next, TickStep, CollectPhase, SubmitPhase, SubmitFaults,
         AccumulatePhase, SpawnPhase, DrainPhase, Environment

(* The sequencer's variables keep their types for ever; no worker is ever  *)
(* spawned for an empty batch.                                             *)
THEOREM TypeCorrect == Spec => []TypeOK
  BY TypeInit, TypeNext, PTL DEF Spec

-----------------------------------------------------------------------------
(* The in-flight counter.                                                  *)

(* Inductive strengthening of PreparationSlots: a worker has a number of   *)
(* its own, below next_batch_number, which no result in the channel        *)
(* carries; catch-up mode never has more slots than are free; only the     *)
(* drain loop's phases run after the flush.                                *)
SlotInv ==
    /\ IsFiniteSet(workers) /\ IsFiniteSet(preparedCh)
    /\ inFlight = Cardinality(workers) + Cardinality(preparedCh)
    /\ inFlight <= IF draining THEN MaxConcurrent + 1 ELSE MaxConcurrent
    /\ \A w \in workers : w.num < nextBatch
    /\ \A v, w \in workers : v.num = w.num => v = w
    /\ \A m \in preparedCh : m.batch.num < nextBatch
    /\ \A w \in workers, m \in preparedCh : w.num # m.batch.num
    /\ pc = "catchup" => inFlight + slots <= MaxConcurrent
    /\ draining => pc \in {"drain", "collect", "submit", "record", "failed"}

(* A spawned worker is one more element of workers.                        *)
LEMMA SlotSpawn ==
    ASSUME TypeOK, SlotInv, NEW n \in 1..Len(pending),
           SpawnPreparationWorker(n), UNCHANGED preparedCh
    PROVE  /\ IsFiniteSet(workers') /\ IsFiniteSet(preparedCh')
           /\ inFlight' = Cardinality(workers') + Cardinality(preparedCh')
           /\ inFlight' = inFlight + 1
           /\ \A w \in workers' : w.num < nextBatch'
           /\ \A v, w \in workers' : v.num = w.num => v = w
           /\ \A m \in preparedCh' : m.batch.num < nextBatch'
           /\ \A w \in workers', m \in preparedCh' : w.num # m.batch.num
<1> DEFINE new == [num |-> nextBatch, blocks |-> SubSeq(pending, 1, n)]
<1>1. /\ workers' = workers \union {new}
      /\ nextBatch' = nextBatch + 1
      /\ inFlight' = inFlight + 1
  BY DEF SpawnPreparationWorker
<1>2. new.num = nextBatch /\ nextBatch \in Nat
  BY DEF TypeOK
<1>3. /\ \A w \in workers : w.num \in Nat
      /\ \A m \in preparedCh : m.batch.num \in Nat
  BY DEF TypeOK, Batch
<1> HIDE DEF new
<1>4. new \notin workers
  BY <1>2, <1>3 DEF SlotInv
<1>5. /\ IsFiniteSet(workers')
      /\ Cardinality(workers') = Cardinality(workers) + 1
  BY <1>1, <1>4, FS_AddElement DEF SlotInv
<1>6. Cardinality(workers) \in Nat /\ Cardinality(preparedCh) \in Nat
  BY FS_CardinalityType DEF SlotInv
<1>7. \A w \in workers' : w.num < nextBatch'
  BY <1>1, <1>2, <1>3 DEF SlotInv
<1>8. \A v, w \in workers' : v.num = w.num => v = w
  BY <1>1, <1>2, <1>3 DEF SlotInv
<1>9. /\ \A m \in preparedCh' : m.batch.num < nextBatch'
      /\ \A w \in workers', m \in preparedCh' : w.num # m.batch.num
  BY <1>1, <1>2, <1>3 DEF SlotInv
<1> QED BY <1>1, <1>5, <1>6, <1>7, <1>8, <1>9 DEF SlotInv

(* A worker that finishes, either way, moves from workers to the channel.  *)
LEMMA SlotPrepare ==
    ASSUME TypeOK, SlotInv, NEW w \in workers, NEW ok \in BOOLEAN, Prepare(w, ok)
    PROVE  SlotInv'
<1> DEFINE msg == [ok |-> ok, batch |-> w]
<1>1. /\ workers' = workers \ {w}
      /\ preparedCh' = preparedCh \union {msg}
      /\ UNCHANGED <<inFlight, nextBatch, slots, pc, draining>>
  BY DEF Prepare, tickVars
<1>2. msg.batch = w
  OBVIOUS
<1> HIDE DEF msg
<1>3. msg \notin preparedCh
  BY <1>2 DEF SlotInv
<1>4. /\ IsFiniteSet(workers') /\ IsFiniteSet(preparedCh')
      /\ Cardinality(workers') = Cardinality(workers) - 1
      /\ Cardinality(preparedCh') = Cardinality(preparedCh) + 1
  BY <1>1, <1>3, FS_AddElement, FS_RemoveElement DEF SlotInv
<1>5. Cardinality(workers) \in Nat /\ Cardinality(preparedCh) \in Nat
  BY FS_CardinalityType DEF SlotInv
<1>6. inFlight' = Cardinality(workers') + Cardinality(preparedCh')
  BY <1>1, <1>4, <1>5 DEF SlotInv
<1>7. /\ \A m \in preparedCh' : m.batch.num < nextBatch'
      /\ \A v \in workers', m \in preparedCh' : v.num # m.batch.num
  BY <1>1, <1>2 DEF SlotInv
<1>8. /\ \A v \in workers' : v.num < nextBatch'
      /\ \A u, v \in workers' : u.num = v.num => u = v
  BY <1>1 DEF SlotInv
<1> QED BY <1>1, <1>4, <1>6, <1>7, <1>8 DEF SlotInv

(* Initially nothing is in flight.                                         *)
LEMMA SlotInit == Init => SlotInv
  BY FS_EmptySet, LimitAssumption DEF Init, SlotInv

(* Every step keeps SlotInv.                                               *)
LEMMA SlotNext == TypeOK /\ SlotInv /\ [Next]_vars => SlotInv'
<1> SUFFICES ASSUME TypeOK, SlotInv, [Next]_vars PROVE SlotInv'
  OBVIOUS
<1> USE DEF feederVars, batchVars, submitVars, tickVars
<1>1. CASE Feed \/ FeederStops \/ IntervalElapses \/ UNCHANGED vars
  BY <1>1 DEF Feed, FeederStops, IntervalElapses, vars, SlotInv
<1>2. CASE WorkerDone \/ WorkerFails
  BY <1>2, SlotPrepare DEF WorkerDone, WorkerFails
<1>3. CASE Collect
  <2>1. PICK m \in preparedCh : preparedCh' = preparedCh \ {m}
    BY <1>3 DEF Collect
  <2>2. /\ IsFiniteSet(preparedCh')
        /\ Cardinality(preparedCh') = Cardinality(preparedCh) - 1
    BY <2>1, FS_RemoveElement DEF SlotInv
  <2>3. Cardinality(workers) \in Nat /\ Cardinality(preparedCh) \in Nat
        /\ Cardinality(preparedCh') \in Nat
    BY <2>2, FS_CardinalityType DEF SlotInv
  <2>4. /\ inFlight' = inFlight - 1
        /\ UNCHANGED <<workers, nextBatch, pc, draining, slots>>
        /\ pc = "collect"
    BY <1>3, <2>2, <2>3 DEF Collect, SlotInv
  <2>5. /\ inFlight' = Cardinality(workers') + Cardinality(preparedCh')
        /\ inFlight' <= IF draining' THEN MaxConcurrent + 1 ELSE MaxConcurrent
    BY <2>2, <2>3, <2>4, LimitAssumption DEF SlotInv
  <2> QED BY <2>1, <2>2, <2>4, <2>5 DEF SlotInv
<1>4. CASE NextTick \/ CollectEmpty \/ SubmitNone
  BY <1>4 DEF NextTick, CollectEmpty, SubmitNone, SlotInv
<1>5. CASE SkipBatch \/ SubmitBatch \/ SubmitFails \/ RecordBatch \/ RecordFails
  BY <1>5 DEF SkipBatch, SubmitBatch, SubmitFails, RecordBatch, RecordFails, SlotInv
<1>6. CASE AccumulateBlock \/ AccumulateNone
  BY <1>6 DEF AccumulateBlock, AccumulateNone, SlotInv
<1>7. CASE EnterCatchUp
  <2>1. inFlight + slots' <= MaxConcurrent
    BY <1>7, LimitAssumption DEF EnterCatchUp, AvailableSlots, TypeOK
  <2> QED BY <1>7, <2>1 DEF EnterCatchUp, SlotInv
<1>8. CASE SpawnCatchUp
  <2>1. PICK n \in 1..Len(pending) : SpawnPreparationWorker(n)
    BY <1>8, SpawnSizes DEF SpawnCatchUp
  <2>2. /\ pc = "catchup" /\ slots > 0 /\ slots' = slots - 1
        /\ UNCHANGED <<preparedCh, pc, draining>>
    BY <1>8 DEF SpawnCatchUp
  <2>3. inFlight' = inFlight + 1
    BY <2>1 DEF SpawnPreparationWorker
  <2>4. /\ inFlight' + slots' <= MaxConcurrent
        /\ inFlight' <= IF draining' THEN MaxConcurrent + 1 ELSE MaxConcurrent
    <3>1. inFlight + slots <= MaxConcurrent /\ ~draining
      BY <2>2 DEF SlotInv
    <3>2. inFlight \in Nat /\ slots \in Nat /\ MaxConcurrent \in Nat
      BY LimitAssumption DEF TypeOK
    <3> QED BY <2>2, <2>3, <3>1, <3>2
  <2> QED BY <2>1, <2>2, <2>4, SlotSpawn DEF SlotInv
<1>9. CASE CatchUpDone \/ SpawnNone
  BY <1>9 DEF CatchUpDone, SpawnNone, AfterSpawn, SlotInv
<1>10. CASE SpawnNormal
  <2>1. PICK n \in 1..Len(pending) : SpawnPreparationWorker(n)
    BY <1>10, SpawnSizes DEF SpawnNormal
  <2>2. /\ pc = "spawn" /\ AvailableSlots > 0 /\ pc' \in {"flush", "idle"}
        /\ UNCHANGED <<preparedCh, draining>>
    BY <1>10 DEF SpawnNormal, AfterSpawn
  <2>3. inFlight' = inFlight + 1
    BY <2>1 DEF SpawnPreparationWorker
  <2>4. ~draining
    BY <2>2 DEF SlotInv
  <2>5. inFlight' <= MaxConcurrent
    BY <2>2, <2>3, LimitAssumption DEF AvailableSlots, TypeOK
  <2> QED BY <2>1, <2>2, <2>4, <2>5, SlotSpawn DEF SlotInv
<1>11. CASE Flush
  <2>1. /\ pc = "flush" /\ pc' = "drain" /\ draining' /\ UNCHANGED preparedCh
    BY <1>11 DEF Flush
  <2>2. ~draining /\ inFlight <= MaxConcurrent
    BY <2>1 DEF SlotInv
  <2>3. CASE NothingToFlush
    BY <1>11, <2>1, <2>2, <2>3, LimitAssumption DEF Flush, SlotInv, TypeOK
  <2>4. CASE ~NothingToFlush
    <3>1. PICK n \in 1..Len(pending) : SpawnPreparationWorker(n)
      BY <1>11, <2>4, SpawnSizes DEF Flush, NothingToFlush
    <3>2. inFlight' <= MaxConcurrent + 1
      BY <2>2, <3>1, LimitAssumption DEF SpawnPreparationWorker, TypeOK
    <3> QED BY <2>1, <3>1, <3>2, SlotSpawn DEF SlotInv
  <2> QED BY <2>3, <2>4
<1>12. CASE DrainMore
  BY <1>12 DEF DrainMore, SlotInv
<1>13. CASE DrainDone
  <2>1. inFlight' = 0 /\ ~draining' /\ pc' = "idle"
    BY <1>13 DEF DrainDone, DrainFinished
  <2> QED BY <1>13, <2>1, LimitAssumption DEF DrainDone, SlotInv
<1> QED
  BY <1>1, <1>2, <1>3, <1>4, <1>5, <1>6, <1>7, <1>8, <1>9, <1>10, <1>11,
     <1>12, <1>13
     DEF Next, TickStep, CollectPhase, SubmitPhase, SubmitFaults,
         AccumulatePhase, SpawnPhase, DrainPhase, Environment

(* in_flight_preparations is exact at every moment and bounded by          *)
(* MAX_CONCURRENT_PREPARATIONS, plus one during the final drain.           *)
THEOREM SlotsCorrect == Spec => []PreparationSlots
<1>1. SlotInv => PreparationSlots
  BY DEF SlotInv, PreparationSlots
<1> QED BY TypeCorrect, SlotInit, SlotNext, <1>1, PTL DEF Spec

-----------------------------------------------------------------------------
(* The blocks between the feeder and the batches.                          *)

(* Number of the first block that has no batch yet.                        *)
PendingFirst == feed - Len(blockCh) - Len(pending)

(* The channel and pending_blocks hold the consecutive blocks up to feed.  *)
QueueInv ==
    /\ \A i \in 1..Len(blockCh) : blockCh[i] = feed - Len(blockCh) + i - 1
    /\ \A i \in 1..Len(pending) : pending[i] = PendingFirst + i - 1

(* Initially both are empty.                                               *)
LEMMA QueueInit == Init => QueueInv
  BY EmptySeq DEF Init, QueueInv

(* What a spawn leaves pending is what follows the blocks it took.         *)
LEMMA QueueSpawn ==
    ASSUME TypeOK, QueueInv, NEW n \in 1..Len(pending),
           SpawnPreparationWorker(n), UNCHANGED <<feed, blockCh>>
    PROVE  /\ QueueInv'
           /\ PendingFirst' = PendingFirst + n
           /\ PendingFirst \in Int
<1>1. /\ Len(pending) \in Nat /\ Len(blockCh) \in Nat /\ feed \in Nat
      /\ n \in Nat /\ n <= Len(pending)
  BY LenProperties, BlockAssumption DEF TypeOK
<1>2. /\ Len(pending') = Len(pending) - n
      /\ \A i \in 1..(Len(pending) - n) : pending'[i] = pending[n + i]
  BY Split DEF SpawnPreparationWorker, TypeOK
<1>3. PendingFirst' = PendingFirst + n /\ PendingFirst \in Int
  BY <1>1, <1>2 DEF PendingFirst
<1>4. ASSUME NEW i \in 1..Len(pending')
      PROVE  pending'[i] = PendingFirst' + i - 1
  <2>1. n + i \in 1..Len(pending) /\ i \in 1..(Len(pending) - n)
    BY <1>1, <1>2
  <2>2. pending[n + i] = PendingFirst + (n + i) - 1
    BY <2>1 DEF QueueInv
  <2> QED BY <1>1, <1>2, <1>3, <2>1, <2>2
<1> QED BY <1>3, <1>4 DEF QueueInv

(* A step that leaves the feeder, the channel and pending_blocks alone.    *)
LEMMA QueueUnchanged ==
    ASSUME QueueInv, UNCHANGED <<feed, blockCh, pending>>
    PROVE  QueueInv' /\ PendingFirst' = PendingFirst
  BY DEF QueueInv, PendingFirst

(* The feeder appends the next block.                                      *)
LEMMA QueueFeed ==
    ASSUME TypeOK, QueueInv, Feed
    PROVE  QueueInv' /\ PendingFirst' = PendingFirst
<1>1. /\ Len(pending) \in Nat /\ Len(blockCh) \in Nat /\ feed \in Nat
  BY LenProperties, BlockAssumption DEF TypeOK
<1>2. /\ feed' = feed + 1 /\ UNCHANGED pending
      /\ Len(blockCh') = Len(blockCh) + 1
      /\ \A i \in 1..Len(blockCh) : blockCh'[i] = blockCh[i]
      /\ blockCh'[Len(blockCh) + 1] = feed
  BY <1>1, AppendProperties DEF Feed, batchVars, TypeOK
<1>3. PendingFirst' = PendingFirst
  BY <1>1, <1>2 DEF PendingFirst
<1>4. ASSUME NEW i \in 1..Len(blockCh')
      PROVE  blockCh'[i] = feed' - Len(blockCh') + i - 1
  <2>1. CASE i = Len(blockCh) + 1
    BY <1>1, <1>2, <2>1
  <2>2. CASE i \in 1..Len(blockCh)
    <3>1. blockCh[i] = feed - Len(blockCh) + i - 1
      BY <2>2 DEF QueueInv
    <3> QED BY <1>1, <1>2, <2>2, <3>1
  <2> QED BY <1>1, <1>2, <2>1, <2>2
<1> QED BY <1>2, <1>3, <1>4 DEF QueueInv

(* Accumulating moves the head of the channel to the end of pending.       *)
LEMMA QueueAccumulate ==
    ASSUME TypeOK, QueueInv, AccumulateBlock
    PROVE  QueueInv' /\ PendingFirst' = PendingFirst
<1>1. /\ Len(pending) \in Nat /\ Len(blockCh) \in Nat /\ feed \in Nat
      /\ Len(blockCh) > 0
  BY LenProperties, EmptySeq, BlockAssumption DEF TypeOK, AccumulateBlock
<1>2. /\ UNCHANGED feed
      /\ Head(blockCh) = blockCh[1]
      /\ Head(blockCh) \in Nat
      /\ Len(blockCh') = Len(blockCh) - 1
      /\ \A i \in 1..Len(blockCh') : blockCh'[i] = blockCh[i + 1]
  BY <1>1, HeadTailProperties DEF AccumulateBlock, feederVars, TypeOK
<1>3. /\ Len(pending') = Len(pending) + 1
      /\ \A i \in 1..Len(pending) : pending'[i] = pending[i]
      /\ pending'[Len(pending) + 1] = Head(blockCh)
  BY <1>2, AppendProperties DEF AccumulateBlock, TypeOK
<1>4. PendingFirst' = PendingFirst
  BY <1>1, <1>2, <1>3 DEF PendingFirst
<1>5. ASSUME NEW i \in 1..Len(blockCh')
      PROVE  blockCh'[i] = feed' - Len(blockCh') + i - 1
  <2>1. i + 1 \in 1..Len(blockCh)
    BY <1>1, <1>2
  <2>2. blockCh[i + 1] = feed - Len(blockCh) + (i + 1) - 1
    BY <2>1 DEF QueueInv
  <2> QED BY <1>1, <1>2, <2>2
<1>6. ASSUME NEW i \in 1..Len(pending')
      PROVE  pending'[i] = PendingFirst' + i - 1
  <2>1. CASE i = Len(pending) + 1
    <3>1. blockCh[1] = feed - Len(blockCh) + 1 - 1
      BY <1>1 DEF QueueInv
    <3> QED BY <1>1, <1>2, <1>3, <1>4, <2>1, <3>1 DEF PendingFirst
  <2>2. CASE i \in 1..Len(pending)
    <3>1. pending[i] = PendingFirst + i - 1
      BY <2>2 DEF QueueInv
    <3> QED BY <1>3, <1>4, <2>2, <3>1
  <2> QED BY <1>1, <1>3, <2>1, <2>2
<1> QED BY <1>4, <1>5, <1>6 DEF QueueInv

-----------------------------------------------------------------------------
(* The chain of batches.                                                   *)

(* Every batch that exists: being prepared, ready, in submission, on L1.   *)
All == Live \union Posted

(* Batches are consecutive ranges of blocks in the order of their numbers, *)
(* the newest one ends where pending_blocks begins.  Nothing is said of a  *)
(* number whose batch failed or was skipped.                               *)
ChainInv ==
    /\ \A b \in All : Contiguous(b) /\ b.num < nextBatch
    /\ \A b \in All : b.num = nextBatch - 1 => Last(b) + 1 = PendingFirst
    /\ \A b, c \in All : c.num = b.num + 1 => First(c) = Last(b) + 1
    /\ \A b \in All : b.num = 1 => First(b) = Start
    /\ nextBatch = 1 => PendingFirst = Start

(* All batches are typed.                                                  *)
LEMMA AllTyped == TypeOK => All \subseteq Batch
<1> SUFFICES ASSUME TypeOK PROVE All \subseteq Batch
  OBVIOUS
<1>1. {m.batch : m \in preparedCh} \subseteq Batch
  BY DEF TypeOK
<1>2. Posted \subseteq Batch
  BY LenProperties DEF TypeOK, Posted
<1> QED BY <1>1, <1>2 DEF All, Live, TypeOK

(* A step takes a block from the feeder, moves one to pending_blocks,      *)
(* spawns a worker, or only moves or drops batches.                        *)
SpawnStep ==
    /\ \E n \in 1..Len(pending) : SpawnPreparationWorker(n)
    /\ UNCHANGED <<feed, blockCh, preparedCh, ready, current, l1>>

(* Every step of the specification is one of these four kinds.             *)
LEMMA StepKinds ==
    ASSUME TypeOK, [Next]_vars
    PROVE  \/ Feed
           \/ AccumulateBlock
           \/ SpawnStep
           \/ UNCHANGED <<feed, blockCh, pending, nextBatch>> /\ All' \subseteq All
<1> USE DEF feederVars, batchVars, submitVars, tickVars
<1> DEFINE Moves == UNCHANGED <<feed, blockCh, pending, nextBatch>> /\ All' \subseteq All
<1>1. ASSUME NEW w \in workers, NEW ok \in BOOLEAN, Prepare(w, ok)
      PROVE  Moves
  BY <1>1 DEF Prepare, All, Live, Posted
<1>2. CASE WorkerDone \/ WorkerFails
  BY <1>1, <1>2 DEF WorkerDone, WorkerFails
<1>3. CASE Collect
  BY <1>3 DEF Collect, All, Live, Posted
<1>4. CASE SkipBatch
  BY <1>4 DEF SkipBatch, All, Live, Posted
<1>5. ASSUME NEW b \in ready, ready' = ready \ {b}, current' = {b},
             l1' = Append(l1, b) \/ l1' = l1,
             UNCHANGED <<feed, blockCh, batchVars, preparedCh>>
      PROVE  Moves
  <2>1. b \in Batch
    BY DEF TypeOK
  <2>2. Posted' \subseteq Posted \union {b}
    <3>1. CASE l1' = l1
      BY <3>1 DEF Posted
    <3>2. CASE l1' = Append(l1, b)
      <4>1. /\ DOMAIN l1' = 1..(Len(l1) + 1) /\ DOMAIN l1 = 1..Len(l1)
            /\ Len(l1) \in Nat
            /\ \A i \in 1..Len(l1) : l1'[i] = l1[i]
            /\ l1'[Len(l1) + 1] = b
        BY <2>1, <3>2, AppendProperties, LenProperties DEF TypeOK
      <4> QED BY <4>1 DEF Posted
    <3> QED BY <1>5, <3>1, <3>2
  <2>3. /\ workers' = workers
        /\ {m.batch : m \in preparedCh'} = {m.batch : m \in preparedCh}
    BY <1>5
  <2> QED BY <1>5, <2>2, <2>3 DEF All, Live
<1>6. CASE SubmitBatch
  BY <1>5, <1>6 DEF SubmitBatch
<1>7. CASE SubmitFails
  <2>1. PICK b \in ready, included \in BOOLEAN :
           /\ ready' = ready \ {b}
           /\ current' = {b}
           /\ l1' = IF included THEN Append(l1, b) ELSE l1
    BY <1>7 DEF SubmitFails
  <2> QED BY <1>5, <1>7, <2>1 DEF SubmitFails
<1>8. CASE RecordBatch
  BY <1>8 DEF RecordBatch, All, Live, Posted
<1>9. CASE RecordFails
  BY <1>9 DEF RecordFails, All, Live, Posted
<1>10. CASE SpawnCatchUp
  BY <1>10, SpawnSizes DEF SpawnCatchUp, SpawnStep
<1>11. CASE SpawnNormal
  BY <1>11, SpawnSizes DEF SpawnNormal, SpawnStep
<1>12. CASE Flush
  <2>1. CASE NothingToFlush
    BY <1>12, <2>1 DEF Flush, All, Live, Posted
  <2>2. CASE ~NothingToFlush
    BY <1>12, <2>2, SpawnSizes DEF Flush, NothingToFlush, SpawnStep
  <2> QED BY <2>1, <2>2
<1>13. CASE FeederStops \/ IntervalElapses \/ UNCHANGED vars
  BY <1>13 DEF FeederStops, IntervalElapses, vars, All, Live, Posted
<1>14. CASE NextTick \/ CollectEmpty \/ SubmitNone \/ AccumulateNone
  BY <1>14 DEF NextTick, CollectEmpty, SubmitNone, AccumulateNone, All, Live, Posted
<1>15. CASE EnterCatchUp \/ CatchUpDone \/ SpawnNone \/ DrainMore \/ DrainDone
  BY <1>15 DEF EnterCatchUp, CatchUpDone, SpawnNone, DrainMore, DrainDone,
               All, Live, Posted
<1> QED
  BY <1>2, <1>3, <1>4, <1>6, <1>7, <1>8, <1>9, <1>10, <1>11, <1>12, <1>13,
     <1>14, <1>15
     DEF Next, TickStep, CollectPhase, SubmitPhase, SubmitFaults,
         AccumulatePhase, SpawnPhase, DrainPhase, Environment

(* Initially there is no batch.                                            *)
LEMMA ChainInit == Init => ChainInv
<1> SUFFICES ASSUME Init PROVE ChainInv
  OBVIOUS
<1>1. All = {}
  BY DEF Init, All, Live, Posted
<1>2. PendingFirst = Start
  BY EmptySeq, BlockAssumption DEF Init, PendingFirst
<1> QED BY <1>1, <1>2 DEF ChainInv

(* A spawn extends the chain at its end.                                   *)
LEMMA ChainSpawn ==
    ASSUME TypeOK, QueueInv, ChainInv, SpawnStep
    PROVE  ChainInv'
<1>1. PICK n \in 1..Len(pending) : SpawnPreparationWorker(n)
  BY DEF SpawnStep
<1> DEFINE new == [num |-> nextBatch, blocks |-> SubSeq(pending, 1, n)]
<1>2. All' = All \union {new}
  BY <1>1 DEF SpawnStep, SpawnPreparationWorker, All, Live, Posted
<1>3. nextBatch' = nextBatch + 1 /\ nextBatch \in Nat \ {0}
  BY <1>1 DEF SpawnPreparationWorker, TypeOK
<1>4. PendingFirst' = PendingFirst + n /\ PendingFirst \in Int
  BY <1>1, QueueSpawn DEF SpawnStep
<1>5. /\ new.num = nextBatch
      /\ Len(new.blocks) = n
      /\ \A i \in 1..n : new.blocks[i] = PendingFirst + i - 1
  <2>1. /\ Len(SubSeq(pending, 1, n)) = n
        /\ \A i \in 1..n : SubSeq(pending, 1, n)[i] = pending[i]
    BY Split DEF TypeOK
  <2>2. \A i \in 1..n : i \in 1..Len(pending)
    BY LenProperties DEF TypeOK
  <2> QED BY <2>1, <2>2 DEF QueueInv
<1> HIDE DEF new
<1>6. n \in Nat \ {0}
  BY LenProperties DEF TypeOK
<1>7. /\ First(new) = PendingFirst
      /\ Last(new) = PendingFirst + n - 1
      /\ Contiguous(new)
  BY <1>4, <1>5, <1>6 DEF First, Last, Contiguous
<1>8. \A b \in All : b.num \in Nat /\ b.num < nextBatch
  BY AllTyped DEF Batch, ChainInv
<1>9. \A b \in All' : Contiguous(b) /\ b.num < nextBatch'
  BY <1>2, <1>3, <1>5, <1>7, <1>8 DEF ChainInv
<1>10. \A b \in All' : b.num = nextBatch' - 1 => Last(b) + 1 = PendingFirst'
  BY <1>2, <1>3, <1>4, <1>5, <1>6, <1>7, <1>8
<1>11. \A b, c \in All' : c.num = b.num + 1 => First(c) = Last(b) + 1
  BY <1>2, <1>3, <1>5, <1>7, <1>8 DEF ChainInv
<1>12. \A b \in All' : b.num = 1 => First(b) = Start
  BY <1>2, <1>3, <1>5, <1>7, <1>8 DEF ChainInv
<1>13. nextBatch' # 1
  BY <1>3
<1> QED BY <1>9, <1>10, <1>11, <1>12, <1>13 DEF ChainInv

(* Every step keeps the queues and the chain.                              *)
LEMMA ChainNext ==
    TypeOK /\ QueueInv /\ ChainInv /\ [Next]_vars => QueueInv' /\ ChainInv'
<1> SUFFICES ASSUME TypeOK, QueueInv, ChainInv, [Next]_vars
             PROVE  QueueInv' /\ ChainInv'
  OBVIOUS
<1>1. ASSUME QueueInv', PendingFirst' = PendingFirst, UNCHANGED nextBatch,
             All' \subseteq All
      PROVE  QueueInv' /\ ChainInv'
  BY <1>1 DEF ChainInv
<1>2. CASE Feed
  <2>1. UNCHANGED nextBatch /\ All' \subseteq All
    BY <1>2 DEF Feed, batchVars, submitVars, All, Live, Posted
  <2> QED BY <1>1, <1>2, <2>1, QueueFeed
<1>3. CASE AccumulateBlock
  <2>1. UNCHANGED nextBatch /\ All' \subseteq All
    BY <1>3 DEF AccumulateBlock, submitVars, All, Live, Posted
  <2> QED BY <1>1, <1>3, <2>1, QueueAccumulate
<1>4. CASE SpawnStep
  <2>1. QueueInv'
    BY <1>4, QueueSpawn DEF SpawnStep
  <2> QED BY <1>4, <2>1, ChainSpawn
<1>5. CASE UNCHANGED <<feed, blockCh, pending, nextBatch>> /\ All' \subseteq All
  BY <1>1, <1>5, QueueUnchanged
<1> QED BY <1>2, <1>3, <1>4, <1>5, StepKinds

-----------------------------------------------------------------------------
(* Submission in the order of the numbers.                                 *)

(* Between submissions the checkpoint, its file and next_submission_number *)
(* agree with L1; during one, L1 is one batch ahead of them; after an      *)
(* error only the checkpoint's bounds are left.                            *)
NumberInv ==
    /\ \A i \in 1..Len(l1) : l1[i].num = resumed + i
    /\ pc \notin {"record", "failed"} =>
          /\ lastSubmitted = resumed + Len(l1)
          /\ saved = lastSubmitted
          /\ IF Len(l1) = 0 THEN nextSub <= resumed + 1
                            ELSE nextSub = resumed + Len(l1) + 1
    /\ pc = "record" =>
          /\ \A b \in current : b.num = nextSub
          /\ Len(l1) > 0
          /\ nextSub = resumed + Len(l1)
          /\ lastSubmitted = nextSub - 1
          /\ saved = lastSubmitted
    /\ pc = "failed" => CheckpointTracksL1

(* Initially the checkpoint is the one loaded from the file.               *)
LEMMA NumberInit == Init => NumberInv
<1> SUFFICES ASSUME Init PROVE NumberInv
  OBVIOUS
<1>1. Len(l1) = 0 /\ resumed \in Nat
  BY EmptySeq, LimitAssumption DEF Init
<1> QED BY <1>1 DEF Init, NumberInv

(* The batch that is submitted next carries the number L1 expects.         *)
LEMMA NextNumber ==
    ASSUME TypeOK, NumberInv, pc = "submit", NEW b \in ready,
           Submittable(b), ~ShouldSkipBatch(b.num)
    PROVE  b.num = nextSub /\ nextSub = resumed + Len(l1) + 1
<1>1. Len(l1) \in Nat /\ resumed \in Nat /\ nextSub \in Nat \ {0}
  BY LenProperties, LimitAssumption DEF TypeOK
<1>2. /\ lastSubmitted = resumed + Len(l1)
      /\ IF Len(l1) = 0 THEN nextSub <= resumed + 1
                        ELSE nextSub = resumed + Len(l1) + 1
  BY DEF NumberInv
<1>3. b.num = nextSub
  BY DEF Submittable
<1> QED BY <1>1, <1>2, <1>3 DEF ShouldSkipBatch

(* Appending that batch keeps the numbering of L1.                         *)
LEMMA NumberAppend ==
    ASSUME TypeOK, NumberInv, NEW b \in Batch, l1' = Append(l1, b),
           b.num = resumed + Len(l1) + 1, UNCHANGED resumed
    PROVE  /\ Len(l1') = Len(l1) + 1
           /\ \A i \in 1..Len(l1') : l1'[i].num = resumed' + i
<1>1. /\ Len(l1) \in Nat /\ resumed \in Nat
      /\ Len(l1') = Len(l1) + 1
      /\ \A i \in 1..Len(l1) : l1'[i] = l1[i]
      /\ l1'[Len(l1) + 1] = b
  BY AppendProperties, LenProperties, LimitAssumption DEF TypeOK
<1>2. ASSUME NEW i \in 1..Len(l1')
      PROVE  l1'[i].num = resumed' + i
  <2>1. CASE i \in 1..Len(l1)
    <3>1. l1[i].num = resumed + i
      BY <2>1 DEF NumberInv
    <3> QED BY <1>1, <2>1, <3>1
  <2>2. CASE i = Len(l1) + 1
    BY <1>1, <2>2
  <2> QED BY <1>1, <2>1, <2>2
<1> QED BY <1>1, <1>2

(* Every step keeps the numbering.                                         *)
LEMMA NumberNext == TypeOK /\ NumberInv /\ [Next]_vars => NumberInv'
<1> SUFFICES ASSUME TypeOK, NumberInv, [Next]_vars PROVE NumberInv'
  OBVIOUS
<1> USE DEF feederVars, batchVars, submitVars, tickVars
<1>0. /\ Len(l1) \in Nat /\ resumed \in Nat /\ nextSub \in Nat \ {0}
      /\ lastSubmitted \in Nat /\ saved \in Nat
  BY LenProperties, LimitAssumption DEF TypeOK
<1>1. ASSUME UNCHANGED <<nextSub, current, lastSubmitted, saved, l1, resumed>>,
             \/ UNCHANGED pc
             \/ /\ pc \notin {"record", "failed"}
                /\ pc' \notin {"record", "failed"}
      PROVE  NumberInv'
  BY <1>1 DEF NumberInv, CheckpointTracksL1
<1>2. CASE Feed \/ FeederStops \/ IntervalElapses \/ UNCHANGED vars
  BY <1>1, <1>2 DEF Feed, FeederStops, IntervalElapses, vars
<1>3. CASE WorkerDone \/ WorkerFails
  BY <1>1, <1>3 DEF WorkerDone, WorkerFails, Prepare
<1>4. CASE NextTick \/ Collect \/ CollectEmpty \/ SubmitNone
  BY <1>1, <1>4 DEF NextTick, Collect, CollectEmpty, SubmitNone
<1>5. CASE AccumulateBlock \/ AccumulateNone
  BY <1>1, <1>5 DEF AccumulateBlock, AccumulateNone
<1>6. CASE EnterCatchUp \/ SpawnCatchUp \/ CatchUpDone \/ SpawnNormal \/ SpawnNone
  BY <1>1, <1>6 DEF EnterCatchUp, SpawnCatchUp, CatchUpDone, SpawnNormal,
                    SpawnNone, AfterSpawn
<1>7. CASE Flush \/ DrainMore \/ DrainDone
  BY <1>1, <1>7 DEF Flush, DrainMore, DrainDone
<1>8. CASE SkipBatch
  <2>1. PICK b \in ready : Submittable(b) /\ ShouldSkipBatch(b.num)
    BY <1>8 DEF SkipBatch
  <2>2. b.num = nextSub /\ nextSub <= lastSubmitted
    BY <2>1 DEF Submittable, ShouldSkipBatch
  <2>3. /\ nextSub' = nextSub + 1 /\ pc = "submit"
        /\ UNCHANGED <<current, lastSubmitted, saved, l1, resumed, pc>>
    BY <1>8 DEF SkipBatch
  <2>4. Len(l1) = 0 /\ nextSub <= resumed
    BY <1>0, <2>2, <2>3 DEF NumberInv
  <2> QED BY <1>0, <2>3, <2>4 DEF NumberInv
<1>9. CASE SubmitBatch
  <2>1. PICK b \in ready : /\ Submittable(b) /\ ~ShouldSkipBatch(b.num)
                           /\ current' = {b} /\ l1' = Append(l1, b)
    BY <1>9 DEF SubmitBatch
  <2>2. /\ pc = "submit" /\ pc' = "record"
        /\ UNCHANGED <<nextSub, lastSubmitted, saved, resumed>>
    BY <1>9 DEF SubmitBatch
  <2>3. b.num = nextSub /\ nextSub = resumed + Len(l1) + 1 /\ b \in Batch
    BY <2>1, <2>2, NextNumber DEF TypeOK
  <2>4. /\ Len(l1') = Len(l1) + 1
        /\ \A i \in 1..Len(l1') : l1'[i].num = resumed' + i
    BY <2>1, <2>2, <2>3, NumberAppend
  <2>5. lastSubmitted = resumed + Len(l1) /\ saved = lastSubmitted
    BY <2>2 DEF NumberInv
  <2> QED BY <1>0, <2>1, <2>2, <2>3, <2>4, <2>5 DEF NumberInv
<1>10. CASE SubmitFails
  <2>1. PICK b \in ready, included \in BOOLEAN :
          /\ Submittable(b) /\ ~ShouldSkipBatch(b.num)
          /\ l1' = IF included THEN Append(l1, b) ELSE l1
    BY <1>10 DEF SubmitFails
  <2>2. /\ pc = "submit" /\ pc' = "failed"
        /\ UNCHANGED <<nextSub, lastSubmitted, saved, resumed>>
    BY <1>10 DEF SubmitFails
  <2>3. b.num = resumed + Len(l1) + 1 /\ b \in Batch
    BY <2>1, <2>2, NextNumber DEF TypeOK
  <2>4. lastSubmitted = resumed + Len(l1) /\ saved = lastSubmitted
    BY <2>2 DEF NumberInv
  <2>5. CASE l1' = Append(l1, b)
    <3>1. /\ Len(l1') = Len(l1) + 1
          /\ \A i \in 1..Len(l1') : l1'[i].num = resumed' + i
      BY <2>2, <2>3, <2>5, NumberAppend
    <3> QED BY <1>0, <2>2, <2>4, <3>1 DEF NumberInv, CheckpointTracksL1
  <2>6. CASE l1' = l1
    BY <1>0, <2>2, <2>4, <2>6 DEF NumberInv, CheckpointTracksL1
  <2> QED BY <2>1, <2>5, <2>6
<1>11. CASE RecordBatch
  <2>1. PICK b \in current : /\ lastSubmitted' = RecordBatchSubmitted(b.num)
                             /\ saved' = lastSubmitted'
    BY <1>11 DEF RecordBatch
  <2>2. /\ pc = "record" /\ pc' = "submit" /\ nextSub' = nextSub + 1
        /\ UNCHANGED <<l1, resumed>>
    BY <1>11 DEF RecordBatch
  <2>3. /\ b.num = nextSub /\ nextSub = resumed + Len(l1) /\ Len(l1) > 0
        /\ lastSubmitted = nextSub - 1
    BY <2>1, <2>2 DEF NumberInv
  <2>4. lastSubmitted' = nextSub
    BY <1>0, <2>1, <2>3 DEF RecordBatchSubmitted
  <2> QED BY <1>0, <2>1, <2>2, <2>3, <2>4 DEF NumberInv
<1>12. CASE RecordFails
  <2>1. PICK b \in current : lastSubmitted' = RecordBatchSubmitted(b.num)
    BY <1>12 DEF RecordFails
  <2>2. /\ pc = "record" /\ pc' = "failed"
        /\ UNCHANGED <<l1, resumed, nextSub, saved>>
    BY <1>12 DEF RecordFails
  <2>3. /\ b.num = nextSub /\ nextSub = resumed + Len(l1)
        /\ lastSubmitted = nextSub - 1 /\ saved = nextSub - 1
    BY <2>1, <2>2 DEF NumberInv
  <2>4. lastSubmitted' = nextSub
    BY <1>0, <2>1, <2>3 DEF RecordBatchSubmitted
  <2> QED BY <1>0, <2>2, <2>3, <2>4 DEF NumberInv, CheckpointTracksL1
<1> QED
  BY <1>2, <1>3, <1>4, <1>5, <1>6, <1>7, <1>8, <1>9, <1>10, <1>11, <1>12
     DEF Next, TickStep, CollectPhase, SubmitPhase, SubmitFaults,
         AccumulatePhase, SpawnPhase, DrainPhase, Environment

(* The checkpoint file is never ahead of L1 and at most one batch behind,  *)
(* at every moment the process may die.                                    *)
THEOREM CheckpointCorrect == Spec => []CheckpointTracksL1
<1>1. TypeOK /\ NumberInv => CheckpointTracksL1
  <2> SUFFICES ASSUME TypeOK, NumberInv PROVE CheckpointTracksL1
    OBVIOUS
  <2>1. Len(l1) \in Nat /\ resumed \in Nat /\ saved \in Nat /\ nextSub \in Nat
    BY LenProperties, LimitAssumption DEF TypeOK
  <2> QED BY <2>1 DEF NumberInv, CheckpointTracksL1
<1> QED BY TypeCorrect, NumberInit, NumberNext, <1>1, PTL DEF Spec

-----------------------------------------------------------------------------
(* The conjunction that is inductive and implies the order of L1.          *)
OrderInv == TypeOK /\ QueueInv /\ ChainInv /\ NumberInv

(* OrderInv holds in every reachable state.                                *)
LEMMA OrderInvariant == Spec => []OrderInv
<1>1. Init => OrderInv
  BY TypeInit, QueueInit, ChainInit, NumberInit DEF OrderInv
<1>2. OrderInv /\ [Next]_vars => OrderInv'
  BY TypeNext, ChainNext, NumberNext DEF OrderInv
<1> QED BY <1>1, <1>2, PTL DEF Spec

(* The chain read along L1.                                                *)
LEMMA OrderImplies == OrderInv => L1InOrder
<1> SUFFICES ASSUME OrderInv PROVE L1InOrder
  OBVIOUS
<1>1. /\ Len(l1) \in Nat /\ DOMAIN l1 = 1..Len(l1) /\ resumed \in Nat
      /\ l1 # << >> => Len(l1) > 0
  BY LenProperties, EmptySeq, LimitAssumption DEF OrderInv, TypeOK
<1>2. \A i \in 1..Len(l1) : l1[i] \in All /\ l1[i].num = resumed + i
  BY <1>1 DEF OrderInv, NumberInv, All, Posted
<1>3. \A i \in DOMAIN l1 : l1[i].num = resumed + i /\ Contiguous(l1[i])
  BY <1>1, <1>2 DEF OrderInv, ChainInv
<1>4. ASSUME NEW i \in 1..(Len(l1) - 1)
      PROVE  First(l1[i + 1]) = Last(l1[i]) + 1
  <2>1. /\ i \in 1..Len(l1) /\ i + 1 \in 1..Len(l1)
    BY <1>1
  <2>2. l1[i + 1].num = l1[i].num + 1
    BY <1>1, <1>2, <2>1
  <2> QED BY <1>2, <2>1, <2>2 DEF OrderInv, ChainInv
<1>5. ASSUME resumed = 0, l1 # << >>
      PROVE  First(l1[1]) = Start
  <2>1. l1[1] \in All /\ l1[1].num = 1
    BY <1>1, <1>2, <1>5
  <2> QED BY <2>1 DEF OrderInv, ChainInv
<1> QED BY <1>3, <1>4, <1>5 DEF L1InOrder

(* Whatever order the parallel workers finish in, whatever fails, batches  *)
(* appear on L1 in order and without gaps.                                 *)
THEOREM OrderCorrect == Spec => []L1InOrder
  BY OrderInvariant, OrderImplies, PTL

-----------------------------------------------------------------------------
(* Refinement of the ordered log.                                          *)

(* The entry of the abstract log that a batch is.                          *)
EntryOf(b) == [num |-> b.num, first |-> First(b), last |-> Last(b)]

(* The abstract log has the length of L1 and its entries.                  *)
LEMMA MappedLog ==
    ASSUME NEW s \in Seq(Batch)
    PROVE  LET log == [i \in DOMAIN s |-> EntryOf(s[i])]
           IN  /\ log \in Seq({EntryOf(b) : b \in Batch})
               /\ Len(log) = Len(s)
               /\ \A i \in 1..Len(s) : log[i] = EntryOf(s[i])
<1> DEFINE log == [i \in DOMAIN s |-> EntryOf(s[i])]
           E == {EntryOf(b) : b \in Batch}
<1>1. DOMAIN s = 1..Len(s) /\ Len(s) \in Nat /\ \A i \in 1..Len(s) : s[i] \in Batch
  BY LenProperties, ElementOfSeq
<1>2. \A i \in 1..Len(s) : log[i] = EntryOf(s[i]) /\ log[i] \in E
  BY <1>1
<1>3. log \in [1..Len(s) -> E]
  BY <1>1, <1>2
<1>4. log \in Seq(E)
  BY <1>1, <1>3, SeqDef
<1>5. DOMAIN log = 1..Len(s) /\ DOMAIN log = 1..Len(log) /\ Len(log) \in Nat
  <2>1. DOMAIN log = 1..Len(s)
    BY <1>1
  <2> HIDE DEF log, E
  <2> QED BY <1>4, <2>1, LenProperties
<1>6. Len(log) = Len(s)
  <2> HIDE DEF log
  <2> QED BY <1>1, <1>5
<1> QED BY <1>2, <1>4, <1>6

(* A step leaves L1 alone or appends one batch to it.                      *)
LEMMA L1Grows ==
    ASSUME TypeOK, [Next]_vars
    PROVE  l1' = l1 \/ \E b \in Batch : l1' = Append(l1, b)
<1> USE DEF feederVars, batchVars, submitVars, tickVars
<1>1. CASE SubmitBatch
  BY <1>1 DEF SubmitBatch, TypeOK
<1>2. CASE SubmitFails
  BY <1>2 DEF SubmitFails, TypeOK
<1>3. CASE WorkerDone \/ WorkerFails
  BY <1>3 DEF WorkerDone, WorkerFails, Prepare
<1>4. CASE Feed \/ FeederStops \/ IntervalElapses \/ UNCHANGED vars
  BY <1>4 DEF Feed, FeederStops, IntervalElapses, vars
<1>5. CASE NextTick \/ Collect \/ CollectEmpty \/ SubmitNone \/ SkipBatch
           \/ RecordBatch \/ RecordFails \/ AccumulateBlock \/ AccumulateNone
  BY <1>5 DEF NextTick, Collect, CollectEmpty, SubmitNone, SkipBatch,
              RecordBatch, RecordFails, AccumulateBlock, AccumulateNone
<1>6. CASE EnterCatchUp \/ SpawnCatchUp \/ CatchUpDone \/ SpawnNormal \/ SpawnNone
           \/ Flush \/ DrainMore \/ DrainDone
  BY <1>6 DEF EnterCatchUp, SpawnCatchUp, CatchUpDone, SpawnNormal, SpawnNone,
              Flush, DrainMore, DrainDone
<1> QED
  BY <1>1, <1>2, <1>3, <1>4, <1>5, <1>6
     DEF Next, TickStep, CollectPhase, SubmitPhase, SubmitFaults,
         AccumulatePhase, SpawnPhase, DrainPhase, Environment

(* The parallel pipeline implements the abstract ordered batch log.        *)
THEOREM BatchLogRefinement == Spec => ImplementsBatchLog
<1> DEFINE log == [i \in DOMAIN l1 |-> [num   |-> l1[i].num,
                                        first |-> First(l1[i]),
                                        last  |-> Last(l1[i])]]
<1>1. Init => BatchLog!Init
  <2> SUFFICES ASSUME Init PROVE log = << >>
    BY DEF BatchLog!Init
  <2> QED BY DEF Init
<1>2. OrderInv /\ OrderInv' /\ [Next]_vars => [BatchLog!Post]_log
  <2> SUFFICES ASSUME OrderInv, OrderInv', [Next]_vars, l1' # l1
               PROVE  BatchLog!Post
    OBVIOUS
  <2>1. PICK b \in Batch : l1' = Append(l1, b)
    BY L1Grows DEF OrderInv
  <2>2. /\ l1 \in Seq(Batch) /\ l1' \in Seq(Batch) /\ Len(l1) \in Nat
        /\ Len(l1') = Len(l1) + 1
        /\ \A i \in 1..Len(l1) : l1'[i] = l1[i]
        /\ l1'[Len(l1) + 1] = b
    <3>1. l1 \in Seq(Batch) /\ l1' \in Seq(Batch)
      BY DEF OrderInv, TypeOK
    <3>2. Len(l1) \in Nat
      BY <3>1, LenProperties
    <3> QED BY <2>1, <3>1, <3>2, AppendProperties
  <2>3. /\ log \in Seq({EntryOf(c) : c \in Batch})
        /\ Len(log) = Len(l1)
        /\ \A i \in 1..Len(l1) : log[i] = EntryOf(l1[i])
    BY <2>2, MappedLog DEF EntryOf
  <2>4. /\ log' \in Seq({EntryOf(c) : c \in Batch})
        /\ Len(log') = Len(l1')
        /\ \A i \in 1..Len(l1') : log'[i] = EntryOf(l1'[i])
    <3> DEFINE s == l1'
    <3>1. s \in Seq(Batch)
      BY <2>2
    <3> HIDE DEF s
    <3>2. LET t == [i \in DOMAIN s |-> EntryOf(s[i])]
          IN  /\ t \in Seq({EntryOf(c) : c \in Batch})
              /\ Len(t) = Len(s)
              /\ \A i \in 1..Len(s) : t[i] = EntryOf(s[i])
      BY <3>1, MappedLog
    <3> QED BY <3>2 DEF s, EntryOf
  <2>5. L1InOrder'
    BY OrderImplies, PTL
  <2> HIDE DEF log
  <2>6. Len(log') = Len(log) + 1
    BY <2>2, <2>3, <2>4
  <2>7. SubSeq(log', 1, Len(log)) = log
    <3>1. \A i \in 1..Len(log) : log'[i] = log[i]
      BY <2>2, <2>3, <2>4
    <3>2. \A i \in 1..Len(log) : log'[i] \in {EntryOf(c) : c \in Batch}
      BY <2>2, <2>3, <2>4, <2>6, ElementOfSeq
    <3>3. /\ SubSeq(log', 1, Len(log)) \in Seq({EntryOf(c) : c \in Batch})
          /\ Len(SubSeq(log', 1, Len(log))) = Len(log)
          /\ \A i \in 1..Len(log) : SubSeq(log', 1, Len(log))[i] = log'[i]
      BY <2>2, <2>3, <3>2, SubSeqProperties
    <3> QED BY <2>3, <3>1, <3>3, SeqEqual
  <2>8. log'[Len(log')] = EntryOf(b)
    BY <2>2, <2>3, <2>4, <2>6
  <2>9. First(b) <= Last(b)
    <3>1. Contiguous(b)
      BY <2>2, <2>5, LenProperties DEF L1InOrder
    <3>2. Len(b.blocks) \in Nat \ {0} /\ b.blocks \in Seq(Nat)
      BY EmptySeq DEF Batch
    <3>3. b.blocks[1] \in Nat
      BY <3>2, ElementOfSeq
    <3> QED BY <3>1, <3>2, <3>3 DEF Contiguous, First, Last
  <2>10. ASSUME log # << >>
         PROVE  /\ b.num = log[Len(log)].num + 1
                /\ First(b) = log[Len(log)].last + 1
    <3>1. Len(log) > 0 /\ Len(l1) > 0 /\ Len(l1) \in 1..Len(l1)
      BY <2>2, <2>3, <2>10, EmptySeq
    <3>2. log[Len(log)] = EntryOf(l1[Len(l1)])
      BY <2>2, <2>3, <3>1
    <3>3. /\ l1'[Len(l1)] = l1[Len(l1)] /\ l1'[Len(l1) + 1] = b
          /\ Len(l1) \in 1..(Len(l1') - 1)
      BY <2>2, <3>1
    <3>4. DOMAIN l1' = 1..Len(l1') /\ resumed' \in Nat
      BY <2>2, LenProperties, LimitAssumption DEF OrderInv, TypeOK
    <3>5. l1[Len(l1)].num = resumed' + Len(l1) /\ b.num = resumed' + Len(l1) + 1
      BY <2>2, <2>5, <3>1, <3>3, <3>4 DEF L1InOrder
    <3>6. First(b) = Last(l1[Len(l1)]) + 1
      BY <2>5, <3>3 DEF L1InOrder
    <3> QED BY <2>2, <3>2, <3>4, <3>5, <3>6 DEF EntryOf
  <2>11. LET e == log'[Len(log')]
         IN  /\ e.first <= e.last
             /\ log # << >> => /\ e.num   = log[Len(log)].num + 1
                               /\ e.first = log[Len(log)].last + 1
    BY <2>8, <2>9, <2>10 DEF EntryOf
  <2>12. BatchLog!Continues(log, log'[Len(log')])
    BY <2>11 DEF BatchLog!Continues
  <2> QED
    BY <2>6, <2>7, <2>12, Zenon DEF BatchLog!Post, log
<1> QED BY OrderInvariant, <1>1, <1>2, PTL
        DEF Spec, ImplementsBatchLog, BatchLog!Spec

-----------------------------------------------------------------------------
(* No batch is lost.                                                       *)

(* The batches of the workers W, the results P, the heap R and the         *)
(* submission in progress C.                                               *)
Held(W, P, R, C) == W \union {m.batch : m \in {x \in P : x.ok}} \union R \union C

(* No batch number is in two places, and none of them is a failed one.     *)
Apart(W, P, R, C, F) ==
    /\ \A v, w \in W : v.num = w.num => v = w
    /\ \A w \in W, m \in P : w.num # m.batch.num
    /\ \A w \in W, r \in R \union C : w.num # r.num
    /\ \A m, k \in P : m.batch.num = k.batch.num => m = k
    /\ \A m \in P, r \in R \union C : m.batch.num # r.num
    /\ \A r \in R, c \in C : r.num # c.num
    /\ \A r, s \in R \union C : r.num = s.num => r = s
    /\ \A w \in W : w.num \notin F
    /\ \A m \in P : m.ok <=> m.batch.num \notin F
    /\ \A r \in R \union C : r.num \notin F

(* The numbers held and the failed ones are those from lo up to hi.        *)
Covers(W, P, R, C, F, lo, hi) ==
    /\ lo <= hi
    /\ \A b \in Held(W, P, R, C) : b.num \in lo..(hi - 1)
    /\ F \subseteq lo..(hi - 1)
    /\ \A n \in lo..(hi - 1) : n \in F \/ \E b \in Held(W, P, R, C) : b.num = n

(* Inductive strengthening of BatchAccounting.                             *)
AccountInv ==
    /\ Apart(workers, preparedCh, ready, current, failed)
    /\ Covers(workers, preparedCh, ready, current, failed, nextSub, nextBatch)
    /\ IsFiniteSet(ready) /\ IsFiniteSet(current)
    /\ pc \notin {"record", "failed"} => current = {}
    /\ pc = "record" => current # {} /\ \A b \in current : b.num = nextSub

(* A disconnected channel is empty for good; the drain loop starts with    *)
(* nothing pending; after Complete nothing is left anywhere.               *)
DrainInv ==
    /\ disconnected => ~feederOpen /\ blockCh = << >>
    /\ pc = "flush" => disconnected
    /\ draining => disconnected /\ pending = << >>
    /\ pc = "drain" => draining
    /\ completed => /\ ~feederOpen /\ blockCh = << >> /\ pending = << >>
                    /\ inFlight = 0 /\ ready = {}
                    /\ pc \notin {"record", "failed"}

(* A fresh sequencer's L1 holds every block from Start to its last one.    *)
OnL1Inv ==
    resumed = 0 => OnL1 = Start..(IF Len(l1) = 0 THEN Start - 1
                                                 ELSE Last(l1[Len(l1)]))

(* The numbers that appear in the four places are below hi.                *)
LEMMA NumbersBelow ==
    ASSUME NEW W, NEW P, NEW R, NEW C, NEW F, NEW lo \in Nat, NEW hi \in Nat,
           Apart(W, P, R, C, F), Covers(W, P, R, C, F, lo, hi)
    PROVE  /\ \A w \in W : w.num \in lo..(hi - 1)
           /\ \A m \in P : m.batch.num \in lo..(hi - 1)
           /\ \A r \in R \union C : r.num \in lo..(hi - 1)
<1>1. \A w \in W : w.num \in lo..(hi - 1)
  BY DEF Covers, Held
<1>2. \A r \in R \union C : r.num \in lo..(hi - 1)
  BY DEF Covers, Held
<1>3. ASSUME NEW m \in P PROVE m.batch.num \in lo..(hi - 1)
  <2>1. CASE m.ok
    BY <2>1 DEF Covers, Held
  <2>2. CASE ~m.ok
    BY <2>2 DEF Covers, Apart
  <2> QED BY <2>1, <2>2
<1> QED BY <1>1, <1>2, <1>3

(* A batch with the next number goes to a new worker.                      *)
LEMMA AccountSpawn ==
    ASSUME NEW W, NEW P, NEW R, NEW C, NEW F, NEW lo \in Nat, NEW hi \in Nat,
           Apart(W, P, R, C, F), Covers(W, P, R, C, F, lo, hi),
           NEW new, new.num = hi
    PROVE  /\ Apart(W \union {new}, P, R, C, F)
           /\ Covers(W \union {new}, P, R, C, F, lo, hi + 1)
<1>1. /\ \A w \in W : w.num # hi
      /\ \A m \in P : m.batch.num # hi
      /\ \A r \in R \union C : r.num # hi
      /\ hi \notin F
  <2>1. hi \notin lo..(hi - 1)
    OBVIOUS
  <2>2. /\ \A w \in W : w.num \in lo..(hi - 1)
        /\ \A m \in P : m.batch.num \in lo..(hi - 1)
        /\ \A r \in R \union C : r.num \in lo..(hi - 1)
    BY NumbersBelow
  <2>3. F \subseteq lo..(hi - 1)
    BY DEF Covers
  <2> QED BY <2>1, <2>2, <2>3, Zenon
<1>2. Apart(W \union {new}, P, R, C, F)
  BY <1>1 DEF Apart
<1>3. Held(W \union {new}, P, R, C) = Held(W, P, R, C) \union {new}
  BY DEF Held
<1>4. Covers(W \union {new}, P, R, C, F, lo, hi + 1)
  <2> DEFINE top == hi + 1
  <2>1. lo <= hi /\ lo <= top
    BY DEF Covers
  <2>2. lo..(top - 1) = lo..(hi - 1) \union {hi}
    BY <2>1
  <2>3. /\ \A c \in Held(W, P, R, C) : c.num \in lo..(hi - 1)
        /\ F \subseteq lo..(hi - 1)
        /\ \A n \in lo..(hi - 1) : n \in F \/ \E c \in Held(W, P, R, C) : c.num = n
    BY DEF Covers
  <2> HIDE DEF top
  <2> DEFINE H == Held(W \union {new}, P, R, C)
  <2>4. \A c \in H : c.num \in lo..(top - 1)
    BY <1>3, <2>2, <2>3, Zenon
  <2>5. F \subseteq lo..(top - 1)
    BY <2>2, <2>3, Zenon
  <2>6. \A n \in lo..(top - 1) : n \in F \/ \E c \in H : c.num = n
    BY <1>3, <2>2, <2>3, Zenon
  <2> HIDE DEF H
  <2>7. Covers(W \union {new}, P, R, C, F, lo, top)
    BY <2>1, <2>4, <2>5, <2>6, Zenon DEF Covers, H
  <2> QED BY <2>7 DEF top
<1> QED BY <1>2, <1>4

(* A worker sends its result; a failed one leaves only its number.         *)
LEMMA AccountPrepare ==
    ASSUME NEW W, NEW P, NEW R, NEW C, NEW F, NEW lo \in Nat, NEW hi \in Nat,
           Apart(W, P, R, C, F), Covers(W, P, R, C, F, lo, hi),
           NEW w \in W, NEW ok \in BOOLEAN, NEW G,
           G = IF ok THEN F ELSE F \union {w.num}
    PROVE  LET V == W \ {w}
               Q == P \union {[ok |-> ok, batch |-> w]}
           IN  Apart(V, Q, R, C, G) /\ Covers(V, Q, R, C, G, lo, hi)
<1> DEFINE V == W \ {w}
           msg == [ok |-> ok, batch |-> w]
           Q == P \union {msg}
<1>1. msg.ok = ok /\ msg.batch = w
  OBVIOUS
<1> HIDE DEF msg
<1>2. Apart(V, Q, R, C, G)
  <2>1. /\ \A u, v \in V : u.num = v.num => u = v
        /\ \A v \in V, m \in Q : v.num # m.batch.num
        /\ \A v \in V, r \in R \union C : v.num # r.num
    BY <1>1 DEF Apart
  <2>2. /\ \A m, k \in Q : m.batch.num = k.batch.num => m = k
        /\ \A m \in Q, r \in R \union C : m.batch.num # r.num
    BY <1>1 DEF Apart
  <2>3. /\ \A v \in V : v.num \notin G
        /\ \A r \in R \union C : r.num \notin G
    BY DEF Apart
  <2>4. \A m \in Q : m.ok <=> m.batch.num \notin G
    BY <1>1 DEF Apart
  <2> QED BY <2>1, <2>2, <2>3, <2>4 DEF Apart
<1>3. CASE ok
  <2>1. Held(V, Q, R, C) = Held(W, P, R, C)
    BY <1>1, <1>3 DEF Held
  <2>2. G = F
    BY <1>3
  <2>3. Covers(V, Q, R, C, G, lo, hi)
    BY <2>1, <2>2 DEF Covers
  <2> QED BY <1>2, <2>3 DEF msg
<1>4. CASE ~ok
  <2>1. Held(V, Q, R, C) \subseteq Held(W, P, R, C)
    BY <1>1, <1>4 DEF Held
  <2>2. Held(W, P, R, C) \subseteq Held(V, Q, R, C) \union {w}
    BY <1>1, <1>4 DEF Held
  <2>3. w.num \in lo..(hi - 1)
    BY NumbersBelow
  <2>4. Covers(V, Q, R, C, G, lo, hi)
    BY <1>4, <2>1, <2>2, <2>3 DEF Covers
  <2> QED BY <1>2, <2>4 DEF msg
<1> QED BY <1>3, <1>4

(* A result is collected: to the heap, or, when it failed, nowhere.        *)
LEMMA AccountCollect ==
    ASSUME NEW W, NEW P, NEW R, NEW C, NEW F, NEW lo \in Nat, NEW hi \in Nat,
           Apart(W, P, R, C, F), Covers(W, P, R, C, F, lo, hi),
           NEW m \in P, NEW S, S = IF m.ok THEN R \union {m.batch} ELSE R
    PROVE  /\ Apart(W, P \ {m}, S, C, F)
           /\ Covers(W, P \ {m}, S, C, F, lo, hi)
<1> DEFINE Q == P \ {m}
<1>1. Apart(W, Q, S, C, F)
  <2>1. CASE m.ok
    <3>1. /\ \A w \in W, r \in S \union C : w.num # r.num
          /\ \A k \in Q, r \in S \union C : k.batch.num # r.num
      BY <2>1 DEF Apart
    <3>2. /\ \A r \in S, c \in C : r.num # c.num
          /\ \A r, s \in S \union C : r.num = s.num => r = s
          /\ \A r \in S \union C : r.num \notin F
      BY <2>1 DEF Apart
    <3> QED BY <3>1, <3>2 DEF Apart
  <2>2. CASE ~m.ok
    BY <2>2 DEF Apart
  <2> QED BY <2>1, <2>2
<1>2. Held(W, Q, S, C) = Held(W, P, R, C)
  BY DEF Held
<1>3. Covers(W, Q, S, C, F, lo, hi)
  BY <1>2 DEF Covers
<1> QED BY <1>1, <1>3

(* The heap's batch lo becomes the one being submitted.                    *)
LEMMA AccountSubmit ==
    ASSUME NEW W, NEW P, NEW R, NEW F, NEW lo \in Nat, NEW hi \in Nat,
           Apart(W, P, R, {}, F), Covers(W, P, R, {}, F, lo, hi), NEW b \in R
    PROVE  /\ Apart(W, P, R \ {b}, {b}, F)
           /\ Covers(W, P, R \ {b}, {b}, F, lo, hi)
<1>1. Apart(W, P, R \ {b}, {b}, F)
  BY DEF Apart
<1>2. Held(W, P, R \ {b}, {b}) = Held(W, P, R, {})
  BY DEF Held
<1> QED BY <1>1, <1>2 DEF Covers

(* Batch lo leaves the heap or the submission and lo is passed.            *)
LEMMA AccountPass ==
    ASSUME NEW W, NEW P, NEW R, NEW C, NEW F, NEW lo \in Nat, NEW hi \in Nat,
           Apart(W, P, R, C, F), Covers(W, P, R, C, F, lo, hi),
           NEW b \in R \union C, b.num = lo
    PROVE  /\ Apart(W, P, R \ {b}, C \ {b}, F)
           /\ Covers(W, P, R \ {b}, C \ {b}, F, lo + 1, hi)
<1>1. Apart(W, P, R \ {b}, C \ {b}, F)
  BY DEF Apart
<1>2. lo \in lo..(hi - 1) /\ lo \notin F
  BY NumbersBelow DEF Apart
<1>3. Held(W, P, R, C) = Held(W, P, R \ {b}, C \ {b}) \union {b}
  BY DEF Held
<1>4. \A c \in Held(W, P, R \ {b}, C \ {b}) : c.num # lo
  BY DEF Held, Apart
<1>5. Covers(W, P, R \ {b}, C \ {b}, F, lo + 1, hi)
  <2>1. lo..(hi - 1) = {lo} \union (lo + 1)..(hi - 1) /\ lo + 1 <= hi
    BY <1>2
  <2>2. /\ \A c \in Held(W, P, R, C) : c.num \in lo..(hi - 1)
        /\ F \subseteq lo..(hi - 1)
        /\ \A n \in lo..(hi - 1) : n \in F \/ \E c \in Held(W, P, R, C) : c.num = n
    BY DEF Covers
  <2>3. lo \notin (lo + 1)..(hi - 1)
    OBVIOUS
  <2> HIDE DEF Held
  <2> QED BY <1>2, <1>3, <1>4, <2>1, <2>2, <2>3, Zenon DEF Covers
<1> QED BY <1>1, <1>5

(* The size of a union of sets that have nothing in common.                *)
LEMMA DisjointUnion ==
    ASSUME NEW S, NEW T, IsFiniteSet(S), IsFiniteSet(T), S \cap T = {}
    PROVE  /\ IsFiniteSet(S \union T)
           /\ Cardinality(S \union T) = Cardinality(S) + Cardinality(T)
<1>1. Cardinality(S) \in Nat /\ Cardinality(T) \in Nat
  BY FS_CardinalityType
<1>2. Cardinality(S \cap T) = 0
  BY FS_EmptySet
<1>3. /\ IsFiniteSet(S \union T)
      /\ Cardinality(S \union T) =
           Cardinality(S) + Cardinality(T) - Cardinality(S \cap T)
  BY FS_Union
<1> QED BY <1>1, <1>2, <1>3

(* Initially there is no batch.                                            *)
LEMMA AccountInit == Init => AccountInv
<1> SUFFICES ASSUME Init PROVE AccountInv
  OBVIOUS
<1>1. /\ workers = {} /\ preparedCh = {} /\ ready = {} /\ current = {}
      /\ failed = {} /\ nextSub = 1 /\ nextBatch = 1 /\ pc = "idle"
  BY DEF Init
<1>2. Apart({}, {}, {}, {}, {})
  BY DEF Apart
<1>3. Held({}, {}, {}, {}) = {}
  BY DEF Held
<1>4. Covers({}, {}, {}, {}, {}, 1, 1)
  BY <1>3 DEF Covers
<1> QED BY <1>1, <1>2, <1>4, FS_EmptySet DEF AccountInv

(* Every step keeps the account of the batches.                            *)
LEMMA AccountNext == TypeOK /\ AccountInv /\ [Next]_vars => AccountInv'
<1> SUFFICES ASSUME TypeOK, AccountInv, [Next]_vars PROVE AccountInv'
  OBVIOUS
<1> USE DEF feederVars, batchVars, submitVars, tickVars
<1>0. /\ nextSub \in Nat /\ nextBatch \in Nat
      /\ Apart(workers, preparedCh, ready, current, failed)
      /\ Covers(workers, preparedCh, ready, current, failed, nextSub, nextBatch)
      /\ IsFiniteSet(ready) /\ IsFiniteSet(current)
  BY DEF TypeOK, AccountInv
<1>1. ASSUME UNCHANGED <<workers, preparedCh, ready, current, failed, nextSub,
                         nextBatch>>,
             \/ UNCHANGED pc
             \/ /\ pc \notin {"record", "failed"}
                /\ pc' \notin {"record", "failed"}
      PROVE  AccountInv'
  BY <1>1 DEF AccountInv
<1>2. CASE Feed \/ FeederStops \/ IntervalElapses \/ UNCHANGED vars
  BY <1>1, <1>2 DEF Feed, FeederStops, IntervalElapses, vars
<1>3. CASE NextTick \/ CollectEmpty \/ SubmitNone \/ AccumulateBlock
           \/ AccumulateNone
  BY <1>1, <1>3 DEF NextTick, CollectEmpty, SubmitNone, AccumulateBlock,
                    AccumulateNone
<1>4. CASE EnterCatchUp \/ CatchUpDone \/ SpawnNone \/ DrainMore \/ DrainDone
  BY <1>1, <1>4 DEF EnterCatchUp, CatchUpDone, SpawnNone, AfterSpawn, DrainMore,
                    DrainDone
<1>5. ASSUME NEW n \in 1..Len(pending), SpawnPreparationWorker(n),
             UNCHANGED <<preparedCh, ready, current, failed, nextSub>>,
             pc \notin {"record", "failed"}, pc' \notin {"record", "failed"}
      PROVE  AccountInv'
  <2> DEFINE new == [num |-> nextBatch, blocks |-> SubSeq(pending, 1, n)]
  <2>1. /\ workers' = workers \union {new} /\ nextBatch' = nextBatch + 1
    BY <1>5 DEF SpawnPreparationWorker
  <2>2. new.num = nextBatch
    OBVIOUS
  <2> HIDE DEF new
  <2>3. /\ Apart(workers \union {new}, preparedCh, ready, current, failed)
        /\ Covers(workers \union {new}, preparedCh, ready, current, failed,
                  nextSub, nextBatch + 1)
    BY <1>0, <2>2, AccountSpawn
  <2>4. /\ Apart(workers', preparedCh', ready', current', failed')
        /\ Covers(workers', preparedCh', ready', current', failed', nextSub',
                  nextBatch')
    BY <1>5, <2>1, <2>3
  <2> QED BY <1>0, <1>5, <2>4 DEF AccountInv
<1>6. CASE SpawnCatchUp
  <2>1. PICK n \in 1..Len(pending) : SpawnPreparationWorker(n)
    BY <1>6, SpawnSizes DEF SpawnCatchUp
  <2> QED BY <1>5, <1>6, <2>1 DEF SpawnCatchUp
<1>7. CASE SpawnNormal
  <2>1. PICK n \in 1..Len(pending) : SpawnPreparationWorker(n)
    BY <1>7, SpawnSizes DEF SpawnNormal
  <2> QED BY <1>5, <1>7, <2>1 DEF SpawnNormal, AfterSpawn
<1>8. CASE Flush
  <2>1. CASE NothingToFlush
    BY <1>1, <1>8, <2>1 DEF Flush
  <2>2. CASE ~NothingToFlush
    <3>1. PICK n \in 1..Len(pending) : SpawnPreparationWorker(n)
      BY <1>8, <2>2, SpawnSizes DEF Flush, NothingToFlush
    <3> QED BY <1>5, <1>8, <3>1 DEF Flush
  <2> QED BY <2>1, <2>2
<1>9. ASSUME NEW w \in workers, NEW ok \in BOOLEAN, Prepare(w, ok),
             failed' = IF ok THEN failed ELSE failed \union {w.num}
      PROVE  AccountInv'
  <2>1. /\ workers' = workers \ {w}
        /\ preparedCh' = preparedCh \union {[ok |-> ok, batch |-> w]}
        /\ UNCHANGED <<ready, current, nextSub, nextBatch, pc>>
    BY <1>9 DEF Prepare
  <2> DEFINE G == IF ok THEN failed ELSE failed \union {w.num}
             Q == preparedCh \union {[ok |-> ok, batch |-> w]}
  <2>2. /\ Apart(workers \ {w}, Q, ready, current, G)
        /\ Covers(workers \ {w}, Q, ready, current, G, nextSub, nextBatch)
    BY <1>0, AccountPrepare
  <2>3. /\ Apart(workers', preparedCh', ready', current', failed')
        /\ Covers(workers', preparedCh', ready', current', failed', nextSub',
                  nextBatch')
    <3>1. preparedCh' = Q /\ failed' = G
      BY <1>9, <2>1
    <3> HIDE DEF Q, G
    <3> QED BY <2>1, <2>2, <3>1
  <2> QED BY <2>1, <2>3 DEF AccountInv
<1>10. CASE WorkerDone
  <2>1. PICK w \in workers : Prepare(w, TRUE) /\ UNCHANGED failed
    BY <1>10 DEF WorkerDone
  <2> QED BY <1>9, <2>1
<1>11. CASE WorkerFails
  <2>1. PICK w \in workers : Prepare(w, FALSE) /\ failed' = failed \union {w.num}
    BY <1>11 DEF WorkerFails
  <2> QED BY <1>9, <2>1
<1>12. CASE Collect
  <2>1. PICK m \in preparedCh :
          /\ preparedCh' = preparedCh \ {m}
          /\ ready' = IF m.ok THEN ready \union {m.batch} ELSE ready
    BY <1>12 DEF Collect
  <2>2. UNCHANGED <<workers, current, failed, nextSub, nextBatch, pc>>
    BY <1>12 DEF Collect
  <2> DEFINE S == IF m.ok THEN ready \union {m.batch} ELSE ready
  <2>3. /\ Apart(workers, preparedCh \ {m}, S, current, failed)
        /\ Covers(workers, preparedCh \ {m}, S, current, failed, nextSub,
                  nextBatch)
    BY <1>0, AccountCollect
  <2>4. IsFiniteSet(S)
    BY <1>0, FS_AddElement
  <2>5. ready' = S
    BY <2>1
  <2> HIDE DEF S
  <2>6. /\ Apart(workers', preparedCh', ready', current', failed')
        /\ Covers(workers', preparedCh', ready', current', failed', nextSub',
                  nextBatch')
    BY <2>1, <2>2, <2>3, <2>5
  <2> QED BY <2>2, <2>4, <2>5, <2>6 DEF AccountInv
<1>13. CASE SkipBatch
  <2>1. PICK b \in ready : Submittable(b) /\ ready' = ready \ {b}
    BY <1>13 DEF SkipBatch
  <2>2. /\ pc = "submit" /\ nextSub' = nextSub + 1 /\ current = {}
        /\ UNCHANGED <<workers, preparedCh, current, failed, nextBatch, pc>>
    BY <1>13 DEF SkipBatch, AccountInv
  <2>3. b.num = nextSub
    BY <2>1 DEF Submittable
  <2>4. /\ Apart(workers, preparedCh, ready \ {b}, current \ {b}, failed)
        /\ Covers(workers, preparedCh, ready \ {b}, current \ {b}, failed,
                  nextSub + 1, nextBatch)
    BY <1>0, <2>3, AccountPass
  <2>5. current' = current \ {b}
    BY <2>2
  <2>6. /\ Apart(workers', preparedCh', ready', current', failed')
        /\ Covers(workers', preparedCh', ready', current', failed', nextSub',
                  nextBatch')
    BY <2>1, <2>2, <2>4, <2>5
  <2>7. IsFiniteSet(ready') /\ IsFiniteSet(current')
    BY <1>0, <2>1, <2>2, FS_RemoveElement
  <2> QED BY <2>2, <2>6, <2>7 DEF AccountInv
<1>14. ASSUME NEW b \in ready, Submittable(b), ready' = ready \ {b},
              current' = {b}, pc = "submit", pc' \in {"record", "failed"},
              UNCHANGED <<workers, preparedCh, failed, nextSub, nextBatch>>
       PROVE  AccountInv'
  <2>1. current = {} /\ b.num = nextSub
    BY <1>14 DEF AccountInv, Submittable
  <2>2. /\ Apart(workers, preparedCh, ready \ {b}, {b}, failed)
        /\ Covers(workers, preparedCh, ready \ {b}, {b}, failed, nextSub,
                  nextBatch)
    BY <1>0, <2>1, AccountSubmit
  <2>3. /\ Apart(workers', preparedCh', ready', current', failed')
        /\ Covers(workers', preparedCh', ready', current', failed', nextSub',
                  nextBatch')
    BY <1>14, <2>2
  <2>4. IsFiniteSet(ready') /\ IsFiniteSet(current')
    BY <1>0, <1>14, FS_RemoveElement, FS_Singleton
  <2>5. current' # {} /\ \A c \in current' : c.num = nextSub'
    BY <1>14, <2>1
  <2> QED BY <1>14, <2>3, <2>4, <2>5 DEF AccountInv
<1>15. CASE SubmitBatch
  BY <1>14, <1>15 DEF SubmitBatch
<1>16. CASE SubmitFails
  BY <1>14, <1>16 DEF SubmitFails
<1>17. CASE RecordBatch
  <2>1. PICK b \in current : b.num = nextSub
    BY <1>17 DEF RecordBatch, AccountInv
  <2>2. /\ pc = "record" /\ pc' = "submit" /\ nextSub' = nextSub + 1
        /\ current' = {}
        /\ UNCHANGED <<workers, preparedCh, ready, failed, nextBatch>>
    BY <1>17 DEF RecordBatch
  <2>3. /\ Apart(workers, preparedCh, ready \ {b}, current \ {b}, failed)
        /\ Covers(workers, preparedCh, ready \ {b}, current \ {b}, failed,
                  nextSub + 1, nextBatch)
    BY <1>0, <2>1, AccountPass
  <2>4. ready \ {b} = ready /\ current \ {b} = {}
    <3>1. b \notin ready
      BY <1>0 DEF Apart
    <3>2. \A c \in current : c = b
      BY <1>0, <2>1, <2>2 DEF Apart, AccountInv
    <3> QED BY <3>1, <3>2
  <2>5. /\ Apart(workers', preparedCh', ready', current', failed')
        /\ Covers(workers', preparedCh', ready', current', failed', nextSub',
                  nextBatch')
    BY <2>2, <2>3, <2>4
  <2> QED BY <1>0, <2>2, <2>5, FS_EmptySet DEF AccountInv
<1>18. CASE RecordFails
  BY <1>18 DEF RecordFails, AccountInv
<1> QED
  BY <1>2, <1>3, <1>4, <1>6, <1>7, <1>8, <1>10, <1>11, <1>12, <1>13, <1>15,
     <1>16, <1>17, <1>18
     DEF Next, TickStep, CollectPhase, SubmitPhase, SubmitFaults,
         AccumulatePhase, SpawnPhase, DrainPhase, Environment

(* An account in which no number is in two places is one of as many        *)
(* batches as the places hold together.                                    *)
LEMMA AccountImplies == TypeOK /\ SlotInv /\ AccountInv => BatchAccounting
<1> SUFFICES ASSUME TypeOK, SlotInv, AccountInv PROVE BatchAccounting
  OBVIOUS
<1> DEFINE Ok == {x \in preparedCh : x.ok}
           D == {m.batch : m \in Ok}
           H == workers \union D \union ready \union current
<1>1. H = Held(workers, preparedCh, ready, current)
  BY DEF Held
<1>2. /\ Apart(workers, preparedCh, ready, current, failed)
      /\ Covers(workers, preparedCh, ready, current, failed, nextSub, nextBatch)
      /\ IsFiniteSet(ready) /\ IsFiniteSet(current) /\ IsFiniteSet(workers)
      /\ IsFiniteSet(preparedCh)
  BY DEF AccountInv, SlotInv
<1>3. {b.num : b \in H} \union failed = nextSub..(nextBatch - 1)
  <2> HIDE DEF H
  <2> QED BY <1>1, <1>2 DEF Covers
<1>4. \A b \in H : b.num \notin failed
  BY <1>2 DEF Apart
<1>5. \A b, c \in H : b.num = c.num => b = c
  <2>1. \A b \in D : \E m \in preparedCh : b = m.batch
    OBVIOUS
  <2>2. \A b, c \in D : b.num = c.num => b = c
    BY <1>2, <2>1 DEF Apart
  <2>3. \A b \in D, c \in workers \union ready \union current : b.num # c.num
    BY <1>2, <2>1 DEF Apart
  <2> HIDE DEF D
  <2> QED BY <1>2, <2>2, <2>3 DEF Apart
<1>6. IsFiniteSet(Ok) /\ IsFiniteSet(D) /\ Cardinality(D) = Cardinality(Ok)
  <2>1. IsFiniteSet(Ok)
    BY <1>2, FS_Subset
  <2> DEFINE f == [m \in Ok |-> m.batch]
  <2>2. f \in [Ok -> D] /\ \A m \in Ok : f[m] = m.batch
    OBVIOUS
  <2>3. \A m, k \in Ok : f[m] = f[k] => m = k
    BY <1>2, <2>2 DEF Apart
  <2>4. \A d \in D : \E m \in Ok : f[m] = d
    BY <2>2
  <2>5. f \in Bijection(Ok, D)
    <3> HIDE DEF f, D, Ok
    <3> QED BY <2>2, <2>3, <2>4 DEF Bijection, Injection, Surjection, IsInjective
  <2> HIDE DEF f, D, Ok
  <2> QED BY <2>1, <2>5, FS_Bijection DEF ExistsBijection
<1>7. /\ workers \cap D = {}
      /\ (workers \union D) \cap ready = {}
      /\ (workers \union D \union ready) \cap current = {}
  BY <1>2 DEF Apart
<1> HIDE DEF D, Ok
<1>8. /\ IsFiniteSet(workers \union D)
      /\ Cardinality(workers \union D) = Cardinality(workers) + Cardinality(Ok)
  BY <1>2, <1>6, <1>7, DisjointUnion
<1>9. /\ IsFiniteSet(workers \union D \union ready)
      /\ Cardinality(workers \union D \union ready) =
           Cardinality(workers) + Cardinality(Ok) + Cardinality(ready)
  BY <1>2, <1>7, <1>8, DisjointUnion
<1>10. Cardinality(H) = Cardinality(workers) + Cardinality(Ok)
                          + Cardinality(ready) + Cardinality(current)
  BY <1>2, <1>7, <1>9, DisjointUnion
<1> HIDE DEF H
<1>11. /\ {b.num : b \in H} \union failed = nextSub..(nextBatch - 1)
       /\ \A b \in H : b.num \notin failed
       /\ \A b, c \in H : b.num = c.num => b = c
       /\ Cardinality(workers) + Cardinality(Ok)
            + Cardinality(ready) + Cardinality(current) = Cardinality(H)
  BY <1>3, <1>4, <1>5, <1>10
<1> QED BY <1>11 DEF BatchAccounting, H, D, Ok

-----------------------------------------------------------------------------
(* Complete means submitted.                                               *)

(* Initially the feeder is connected.                                      *)
LEMMA DrainInit == Init => DrainInv
  BY DEF Init, DrainInv

(* Every step keeps DrainInv: once the channel is disconnected nothing     *)
(* arrives, and after Complete there is nothing to collect, to submit or   *)
(* to spawn.                                                               *)
LEMMA DrainNext ==
    TypeOK /\ SlotInv /\ DrainInv /\ [Next]_vars => DrainInv'
<1> SUFFICES ASSUME TypeOK, SlotInv, DrainInv, [Next]_vars PROVE DrainInv'
  OBVIOUS
<1> USE DEF feederVars, batchVars, submitVars, tickVars
<1>0. inFlight = 0 => workers = {} /\ preparedCh = {}
  <2>1. Cardinality(workers) \in Nat /\ Cardinality(preparedCh) \in Nat
    BY FS_CardinalityType DEF SlotInv
  <2>2. inFlight = 0 => Cardinality(workers) = 0 /\ Cardinality(preparedCh) = 0
    BY <2>1 DEF SlotInv
  <2> QED BY <2>2, FS_EmptySet DEF SlotInv
<1>1. CASE Feed \/ FeederStops \/ IntervalElapses \/ UNCHANGED vars
  BY <1>1 DEF Feed, FeederStops, IntervalElapses, vars, DrainInv
<1>2. CASE WorkerDone \/ WorkerFails
  BY <1>0, <1>2 DEF WorkerDone, WorkerFails, Prepare, DrainInv
<1>3. CASE Collect
  <2>1. preparedCh # {}
    BY <1>3 DEF Collect
  <2>2. ~completed
    BY <1>0, <2>1 DEF DrainInv
  <2> QED BY <1>3, <2>2 DEF Collect, DrainInv
<1>4. CASE NextTick
  <2>1. pc = "idle" /\ ~draining
    BY <1>4 DEF NextTick, SlotInv
  <2> QED BY <1>4, <2>1 DEF NextTick, DrainInv
<1>5. CASE CollectEmpty \/ SubmitNone
  BY <1>5 DEF CollectEmpty, SubmitNone, DrainInv
<1>6. CASE SkipBatch \/ SubmitBatch \/ SubmitFails
  <2>1. ready # {}
    BY <1>6 DEF SkipBatch, SubmitBatch, SubmitFails
  <2>2. ~completed
    BY <2>1 DEF DrainInv
  <2> QED BY <1>6, <2>2 DEF SkipBatch, SubmitBatch, SubmitFails, DrainInv
<1>7. CASE RecordBatch \/ RecordFails
  <2>1. pc = "record"
    BY <1>7 DEF RecordBatch, RecordFails
  <2>2. ~completed
    BY <2>1 DEF DrainInv
  <2> QED BY <1>7, <2>1, <2>2 DEF RecordBatch, RecordFails, DrainInv
<1>8. CASE AccumulateBlock
  <2>1. /\ pc = "accumulate" /\ blockCh # << >>
        /\ pc' \in {"spawn", "accumulate"}
        /\ UNCHANGED <<disconnected, draining, completed>>
    BY <1>8 DEF AccumulateBlock
  <2>2. ~disconnected /\ ~draining /\ ~completed
    BY <2>1 DEF DrainInv, SlotInv
  <2> QED BY <2>1, <2>2 DEF DrainInv
<1>9. CASE AccumulateNone
  <2>1. ~draining
    BY <1>9 DEF AccumulateNone, SlotInv
  <2> QED BY <1>9, <2>1 DEF AccumulateNone, DrainInv
<1>10. CASE EnterCatchUp \/ CatchUpDone \/ SpawnNone
  BY <1>10 DEF EnterCatchUp, CatchUpDone, SpawnNone, AfterSpawn, DrainInv
<1>11. CASE SpawnCatchUp \/ SpawnNormal
  <2>1. /\ pending # << >> /\ pc \in {"spawn", "catchup"}
        /\ UNCHANGED <<feederOpen, blockCh, disconnected, draining, completed>>
        /\ pc' = pc \/ pc' = AfterSpawn
    BY <1>11 DEF SpawnCatchUp, SpawnNormal
  <2>2. ~draining /\ ~completed
    BY <2>1 DEF DrainInv, SlotInv
  <2> QED BY <2>1, <2>2 DEF DrainInv, AfterSpawn
<1>12. CASE Flush
  <2>1. /\ pc = "flush" /\ pc' = "drain" /\ draining'
        /\ UNCHANGED <<feederOpen, blockCh, disconnected, completed, ready>>
    BY <1>12 DEF Flush
  <2>2. disconnected /\ ~feederOpen /\ blockCh = << >>
    BY <2>1 DEF DrainInv
  <2>3. pending' = << >>
    <3>1. CASE NothingToFlush
      BY <1>12, <3>1 DEF Flush, NothingToFlush
    <3>2. CASE ~NothingToFlush
      <4>1. /\ Len(pending) \in 1..Len(pending)
            /\ SpawnPreparationWorker(Len(pending))
        BY <1>12, <3>2, SpawnSizes DEF Flush, NothingToFlush
      <4>2. pending' = SubSeq(pending, Len(pending) + 1, Len(pending))
        BY <4>1 DEF SpawnPreparationWorker
      <4>3. pending' \in Seq(Nat) /\ Len(pending') = Len(pending) - Len(pending)
        BY <4>1, <4>2, Split DEF TypeOK
      <4>4. Len(pending') = 0
        BY <4>1, <4>3
      <4> QED BY <4>3, <4>4, EmptySeq
    <3> QED BY <3>1, <3>2
  <2>4. completed => inFlight' = inFlight
    BY <1>12 DEF Flush, NothingToFlush, DrainInv
  <2> QED BY <2>1, <2>2, <2>3, <2>4 DEF DrainInv
<1>13. CASE DrainMore
  BY <1>13 DEF DrainMore, DrainInv
<1>14. CASE DrainDone
  <2>1. /\ pc = "drain" /\ pc' = "idle" /\ inFlight' = 0 /\ ready' = {}
        /\ ~draining' /\ UNCHANGED <<feederOpen, blockCh, pending, disconnected>>
    BY <1>14 DEF DrainDone, DrainFinished
  <2>2. draining /\ disconnected /\ pending = << >>
    BY <2>1 DEF DrainInv
  <2> QED BY <2>1, <2>2 DEF DrainInv
<1> QED
  BY <1>1, <1>2, <1>3, <1>4, <1>5, <1>6, <1>7, <1>8, <1>9, <1>10, <1>11,
     <1>12, <1>13, <1>14
     DEF Next, TickStep, CollectPhase, SubmitPhase, SubmitFaults,
         AccumulatePhase, SpawnPhase, DrainPhase, Environment

(* A batch of consecutive blocks covers the range between its ends.        *)
LEMMA BlocksOfBatch ==
    ASSUME NEW b \in Batch, Contiguous(b)
    PROVE  /\ First(b) \in Nat /\ Last(b) \in Nat /\ First(b) <= Last(b)
           /\ {b.blocks[i] : i \in DOMAIN b.blocks} = First(b)..Last(b)
<1>1. /\ b.blocks \in Seq(Nat) /\ Len(b.blocks) \in Nat \ {0}
      /\ DOMAIN b.blocks = 1..Len(b.blocks)
  BY EmptySeq, LenProperties DEF Batch
<1>2. First(b) \in Nat
  BY <1>1, ElementOfSeq DEF First
<1>3. \A i \in 1..Len(b.blocks) : b.blocks[i] = First(b) + i - 1
  BY DEF Contiguous
<1>4. Last(b) = First(b) + Len(b.blocks) - 1
  BY <1>1, <1>3 DEF Last
<1>5. ASSUME NEW x \in First(b)..Last(b)
      PROVE  \E i \in 1..Len(b.blocks) : b.blocks[i] = x
  <2>1. x - First(b) + 1 \in 1..Len(b.blocks)
    BY <1>1, <1>2, <1>4
  <2>2. b.blocks[x - First(b) + 1] = First(b) + (x - First(b) + 1) - 1
    BY <1>3, <2>1
  <2> QED BY <1>2, <1>4, <2>1, <2>2
<1>6. \A i \in 1..Len(b.blocks) : b.blocks[i] \in First(b)..Last(b)
  BY <1>1, <1>2, <1>3, <1>4
<1>7. Last(b) \in Nat /\ First(b) <= Last(b)
  BY <1>1, <1>2, <1>4
<1>8. {b.blocks[i] : i \in 1..Len(b.blocks)} = First(b)..Last(b)
  BY <1>5, <1>6, Zenon
<1>9. {b.blocks[i] : i \in DOMAIN b.blocks} = First(b)..Last(b)
  BY <1>1, <1>8
<1> QED BY <1>2, <1>7, <1>9

(* The number the role started with does not change.                       *)
LEMMA ResumedFixed ==
    ASSUME [Next]_vars
    PROVE  resumed' = resumed
<1> USE DEF feederVars, batchVars, submitVars, tickVars
<1>1. CASE WorkerDone \/ WorkerFails \/ Feed \/ FeederStops \/ IntervalElapses
           \/ UNCHANGED vars
  BY <1>1 DEF WorkerDone, WorkerFails, Prepare, Feed, FeederStops,
              IntervalElapses, vars
<1>2. CASE NextTick \/ Collect \/ CollectEmpty \/ SubmitNone \/ SkipBatch
           \/ SubmitBatch \/ SubmitFails \/ RecordBatch \/ RecordFails
  BY <1>2 DEF NextTick, Collect, CollectEmpty, SubmitNone, SkipBatch,
              SubmitBatch, SubmitFails, RecordBatch, RecordFails
<1>3. CASE AccumulateBlock \/ AccumulateNone \/ EnterCatchUp \/ SpawnCatchUp
           \/ CatchUpDone \/ SpawnNormal \/ SpawnNone \/ Flush \/ DrainMore
           \/ DrainDone
  BY <1>3 DEF AccumulateBlock, AccumulateNone, EnterCatchUp, SpawnCatchUp,
              CatchUpDone, SpawnNormal, SpawnNone, Flush, DrainMore, DrainDone
<1> QED
  BY <1>1, <1>2, <1>3
     DEF Next, TickStep, CollectPhase, SubmitPhase, SubmitFaults,
         AccumulatePhase, SpawnPhase, DrainPhase, Environment

(* Initially L1 is empty.                                                  *)
LEMMA OnL1Init == Init => OnL1Inv
<1> SUFFICES ASSUME Init PROVE OnL1Inv
  OBVIOUS
<1>1. l1 = << >> /\ DOMAIN l1 = {} /\ Len(l1) = 0
  BY DEF Init
<1>2. OnL1 = {}
  BY <1>1 DEF OnL1, Posted
<1>3. Start..(Start - 1) = {}
  BY BlockAssumption
<1> QED BY <1>1, <1>2, <1>3 DEF OnL1Inv

(* Appending the batch that continues L1 extends the range.                *)
LEMMA OnL1Next ==
    OrderInv /\ OrderInv' /\ OnL1Inv /\ [Next]_vars => OnL1Inv'
<1> SUFFICES ASSUME OrderInv, OrderInv', OnL1Inv, [Next]_vars, resumed' = 0
             PROVE  OnL1' = Start..(IF Len(l1') = 0 THEN Start - 1
                                                    ELSE Last(l1'[Len(l1')]))
  BY DEF OnL1Inv
<1>0. resumed = 0
  BY ResumedFixed
<1>1. CASE l1' = l1
  <2>1. OnL1' = OnL1
    BY <1>1 DEF OnL1, Posted
  <2> QED BY <1>0, <1>1, <2>1 DEF OnL1Inv
<1>2. CASE l1' # l1
  <2>1. PICK b \in Batch : l1' = Append(l1, b)
    BY <1>2, L1Grows DEF OrderInv
  <2>2. /\ Len(l1) \in Nat /\ l1 \in Seq(Batch) /\ DOMAIN l1 = 1..Len(l1)
        /\ DOMAIN l1' = 1..(Len(l1) + 1)
        /\ Len(l1') = Len(l1) + 1
        /\ \A i \in 1..Len(l1) : l1'[i] = l1[i]
        /\ l1'[Len(l1) + 1] = b
    BY <2>1, AppendProperties, LenProperties DEF OrderInv, TypeOK
  <2>3. L1InOrder'
    BY OrderImplies, PTL
  <2>4. Contiguous(b)
    BY <2>2, <2>3 DEF L1InOrder
  <2>5. /\ First(b) \in Nat /\ Last(b) \in Nat /\ First(b) <= Last(b)
        /\ {b.blocks[i] : i \in DOMAIN b.blocks} = First(b)..Last(b)
    BY <2>4, BlocksOfBatch
  <2>6. Posted' = Posted \union {b}
    BY <2>2 DEF Posted
  <2>7. OnL1' = OnL1 \union First(b)..Last(b)
    BY <2>5, <2>6 DEF OnL1
  <2>8. CASE Len(l1) = 0
    <3>1. l1' # << >> /\ l1'[1] = b
      BY <2>2, <2>8
    <3>2. First(b) = Start
      BY <2>3, <3>1 DEF L1InOrder
    <3>3. OnL1 = Start..(Start - 1)
      BY <1>0, <2>8 DEF OnL1Inv
    <3>4. Start..(Start - 1) = {}
      BY BlockAssumption
    <3> QED BY <2>2, <2>7, <2>8, <3>2, <3>3, <3>4
  <2>9. CASE Len(l1) # 0
    <3>1. Len(l1) \in 1..Len(l1) /\ Len(l1) \in 1..(Len(l1') - 1)
      BY <2>2, <2>9
    <3>2. First(b) = Last(l1[Len(l1)]) + 1
      BY <2>2, <2>3, <3>1 DEF L1InOrder
    <3>3. OnL1 = Start..Last(l1[Len(l1)])
      BY <1>0, <2>9 DEF OnL1Inv
    <3>4. /\ l1[Len(l1)] \in Batch
      BY <2>2, <3>1, ElementOfSeq
    <3>5. Contiguous(l1[Len(l1)])
      BY <2>2, <3>1, OrderImplies DEF L1InOrder
    <3>6. Last(l1[Len(l1)]) \in Nat
      BY <3>4, <3>5, BlocksOfBatch
    <3>7. Start <= Last(l1[Len(l1)]) + 1
      <4>1. CASE OnL1 = {}
        <5>1. Last(l1[Len(l1)]) \in OnL1
          <6>1. l1[Len(l1)] \in Posted
            BY <2>2, <3>1 DEF Posted
          <6>2. /\ l1[Len(l1)].blocks \in Seq(Nat)
                /\ Len(l1[Len(l1)].blocks) \in DOMAIN l1[Len(l1)].blocks
            BY <3>4, EmptySeq, LenProperties DEF Batch
          <6> QED BY <6>1, <6>2 DEF OnL1, Last
        <5> QED BY <4>1, <5>1
      <4>2. CASE OnL1 # {}
        BY <3>3, <3>6, <4>2, BlockAssumption
      <4> QED BY <4>1, <4>2
    <3> DEFINE k == Last(l1[Len(l1)])
               f == First(b)
               y == Last(b)
    <3>8. /\ k \in Nat /\ Start \in Nat /\ Start <= k + 1 /\ f = k + 1
          /\ y \in Nat /\ f <= y
      BY <2>5, <3>2, <3>6, <3>7, BlockAssumption
    <3>9. OnL1' = (Start..k) \union (f..y)
      BY <2>7, <3>3
    <3> HIDE DEF k, f, y
    <3>10. (Start..k) \union (f..y) = Start..y
      BY <3>8
    <3>11. Len(l1') # 0 /\ Last(l1'[Len(l1')]) = y
      BY <2>2 DEF y
    <3> QED BY <3>9, <3>10, <3>11
  <2> QED BY <2>2, <2>8, <2>9
<1> QED BY <1>1, <1>2

(* When tick() has returned Complete and nothing failed, all numbers are   *)
(* passed, so L1 ends where the blocks do.                                 *)
LEMMA CompleteImplies ==
    OrderInv /\ SlotInv /\ AccountInv /\ DrainInv /\ OnL1Inv
      => CompleteMeansSubmitted
<1> SUFFICES ASSUME OrderInv, SlotInv, AccountInv, DrainInv, OnL1Inv,
                    completed, failed = {}
             PROVE  /\ resumed = 0 => OnL1 = Start..(feed - 1)
                    /\ l1 # << >> => Last(l1[Len(l1)]) = feed - 1
  BY DEF CompleteMeansSubmitted
<1>1. /\ Len(l1) \in Nat /\ DOMAIN l1 = 1..Len(l1) /\ resumed \in Nat
      /\ nextSub \in Nat \ {0} /\ nextBatch \in Nat \ {0} /\ feed \in Nat
      /\ l1 # << >> => Len(l1) # 0
  BY LenProperties, EmptySeq, LimitAssumption, BlockAssumption DEF OrderInv, TypeOK
<1>2. /\ blockCh = << >> /\ pending = << >> /\ inFlight = 0 /\ ready = {}
      /\ pc \notin {"record", "failed"} /\ current = {}
  BY DEF DrainInv, AccountInv
<1>3. workers = {} /\ preparedCh = {}
  <2>1. Cardinality(workers) \in Nat /\ Cardinality(preparedCh) \in Nat
    BY FS_CardinalityType DEF SlotInv
  <2>2. Cardinality(workers) = 0 /\ Cardinality(preparedCh) = 0
    BY <1>2, <2>1 DEF SlotInv
  <2> QED BY <2>2, FS_EmptySet DEF SlotInv
<1>4. nextSub = nextBatch
  <2>1. Held(workers, preparedCh, ready, current) = {}
    BY <1>2, <1>3 DEF Held
  <2>2. /\ nextSub <= nextBatch
        /\ \A n \in nextSub..(nextBatch - 1) : n \in failed
    BY <2>1 DEF AccountInv, Covers
  <2> QED BY <1>1, <2>2
<1>5. PendingFirst = feed
  BY <1>1, <1>2, EmptySeq DEF PendingFirst
<1>6. ASSUME Len(l1) # 0 PROVE Last(l1[Len(l1)]) = feed - 1
  <2>1. /\ nextSub = resumed + Len(l1) + 1
        /\ l1[Len(l1)].num = resumed + Len(l1)
    BY <1>1, <1>2, <1>6 DEF OrderInv, NumberInv
  <2>2. l1[Len(l1)] \in All /\ l1[Len(l1)] \in Batch
    <3>1. Len(l1) \in DOMAIN l1
      BY <1>1, <1>6
    <3>2. l1[Len(l1)] \in All
      BY <3>1 DEF All, Posted
    <3> QED BY <3>2, AllTyped DEF OrderInv
  <2>3. l1[Len(l1)].num = nextBatch - 1
    BY <1>1, <1>4, <2>1
  <2>4. Last(l1[Len(l1)]) + 1 = feed /\ Contiguous(l1[Len(l1)])
    BY <1>5, <2>2, <2>3 DEF OrderInv, ChainInv
  <2>5. Last(l1[Len(l1)]) \in Nat
    BY <2>2, <2>4, BlocksOfBatch
  <2> QED BY <1>1, <2>4, <2>5
<1>7. ASSUME resumed = 0 PROVE OnL1 = Start..(feed - 1)
  <2>1. CASE Len(l1) = 0
    <3>1. nextSub <= 1
      BY <1>2, <1>7, <2>1 DEF OrderInv, NumberInv
    <3>2. nextBatch = 1
      BY <1>1, <1>4, <3>1
    <3>3. feed = Start
      BY <1>5, <3>2 DEF OrderInv, ChainInv
    <3> QED BY <1>7, <2>1, <3>3 DEF OnL1Inv
  <2>2. CASE Len(l1) # 0
    BY <1>6, <1>7, <2>2 DEF OnL1Inv
  <2> QED BY <2>1, <2>2
<1> QED BY <1>1, <1>6, <1>7

(* Every numbered batch is in exactly one place until it is on L1, and     *)
(* when tick() returns Complete every block the feeder sent is there.      *)
THEOREM NothingIsLost == Spec => []NothingLost
<1> DEFINE LossInv == OrderInv /\ SlotInv /\ AccountInv /\ DrainInv /\ OnL1Inv
<1>1. Init => SlotInv /\ AccountInv /\ DrainInv /\ OnL1Inv
  BY SlotInit, AccountInit, DrainInit, OnL1Init
<1>2. OrderInv /\ OrderInv' /\ SlotInv /\ AccountInv /\ DrainInv /\ OnL1Inv
        /\ [Next]_vars
        => SlotInv' /\ AccountInv' /\ DrainInv' /\ OnL1Inv'
  BY SlotNext, AccountNext, DrainNext, OnL1Next DEF OrderInv
<1>3. LossInv => NothingLost
  BY AccountImplies, CompleteImplies DEF OrderInv, NothingLost
<1> QED BY OrderInvariant, <1>1, <1>2, <1>3, PTL DEF Spec
=============================================================================
