-------------------------- MODULE DerivationRunner --------------------------
(***************************************************************************)
(* The derivation runner (crates/consensus/derivation-runner/src): tick()  *)
(* takes the next batch from L1, executes its blocks and records it in the *)
(* checkpoint.                                                             *)
(*                                                                         *)
(* L1 is the sequence of batches posted so far; the source hands out each  *)
(* one once.  A restarted process reads L1 from its beginning and resumes  *)
(* from the checkpoint file (with_checkpoint).  A block is its number,     *)
(* counted from 1; latencies and byte counts are left out.                 *)
(***************************************************************************)
EXTENDS Naturals, Sequences

CONSTANTS
    FirstNum,         \* number of the first batch: 0 or 1, by who submits
    ContinueOnError,  \* does the caller call tick() again after an error
    CountsRecorded,   \* does the caller use record_batch_block_count
    MayFail,          \* may decoding, execution or the checkpoint file fail
    MaxBatches,       \* bound: batches posted
    MaxBatchBlocks,   \* bound: blocks of a batch
    MaxRestarts       \* bound: restarts of the process

ASSUME DerivationAssumption ==
    /\ FirstNum \in {0, 1}
    /\ ContinueOnError \in BOOLEAN
    /\ CountsRecorded \in BOOLEAN
    /\ MayFail \in BOOLEAN
    /\ MaxBatches \in Nat
    /\ MaxBatchBlocks \in Nat
    /\ MaxRestarts \in Nat

VARIABLES
    l1,           \* batches posted
    read,         \* batches the source has handed out
    pc,           \* "idle" between ticks, "execute", "stopped" by an error
    paused,       \* paused
    done,         \* blocks of the current batch executed
    lastDerived,  \* checkpoint.last_batch_derived, in memory
    saved,        \* checkpoint.last_batch_derived, in the file
    finalized,    \* last_finalized_block, also metrics.last_block_in_batch
    executed,     \* history: blocks executed, by all processes
    recorded,     \* history: numbers of batches recorded as derived
    restarts      \* history: restarts

checkpointVars == <<lastDerived, saved, finalized, recorded>>
runnerVars == <<read, pc, paused, done, checkpointVars, executed, restarts>>
vars == <<l1, runnerVars>>

Current == l1[read]

-----------------------------------------------------------------------------
RunnerInit ==
    /\ read = 0
    /\ pc = "idle"
    /\ paused = FALSE
    /\ done = 0
    /\ lastDerived = 0
    /\ saved = 0
    /\ finalized = 0
    /\ executed = << >>
    /\ recorded = {}
    /\ restarts = 0

Init == l1 = << >> /\ RunnerInit

(* The submitter: the next batch holds the next blocks.                    *)
Posted == IF l1 = << >> THEN 0 ELSE LET b == l1[Len(l1)] IN b.blocks[Len(b.blocks)]

Post ==
    /\ Len(l1) < MaxBatches
    /\ \E n \in 1..MaxBatchBlocks :
          l1' = Append(l1, [num    |-> FirstNum + Len(l1),
                            blocks |-> [i \in 1..n |-> Posted + i]])
    /\ UNCHANGED runnerVars

SetPaused(p) ==
    /\ pc = "idle"
    /\ paused' = p
    /\ UNCHANGED <<l1, read, pc, done, checkpointVars, executed, restarts>>

-----------------------------------------------------------------------------
(* tick() and derive_batch().                                              *)

(* Slips: off by one above, and below.                                     *)
ShouldSkipBatch_Above(n) == lastDerived # 0 /\ n <= lastDerived + 1
ShouldSkipBatch_Below(n) == lastDerived # 0 /\ n < lastDerived

ShouldSkipBatch(n) == lastDerived # 0 /\ n <= lastDerived

NextBatch ==
    /\ pc = "idle"
    /\ ~paused
    /\ read < Len(l1)
    /\ read' = read + 1
    /\ done' = 0
    /\ UNCHANGED <<l1, paused, checkpointVars, executed, restarts>>

SkipBatch ==
    /\ NextBatch
    /\ ShouldSkipBatch(l1[read + 1].num)
    /\ UNCHANGED pc

BeginBatch ==
    /\ NextBatch
    /\ ~ShouldSkipBatch(l1[read + 1].num)
    /\ pc' = "execute"

ExecuteBlock ==
    /\ pc = "execute"
    /\ done < Len(Current.blocks)
    /\ executed' = Append(executed, Current.blocks[done + 1])
    /\ done' = done + 1
    /\ UNCHANGED <<l1, read, pc, paused, checkpointVars, restarts>>

(* Slip: run() goes on after an error.                                     *)
AfterError_GoesOn == "idle"

AfterError == IF ContinueOnError THEN "idle" ELSE "stopped"

(* next_batch returns an error: nothing was handed out.                    *)
SourceFails ==
    /\ MayFail
    /\ pc = "idle"
    /\ ~paused
    /\ pc' = AfterError
    /\ UNCHANGED <<l1, read, paused, done, checkpointVars, executed, restarts>>

(* Decompression, decoding or the execution of a block fails.  The source  *)
(* has handed the batch out and will not do so again.                      *)
DeriveFails ==
    /\ MayFail
    /\ pc = "execute"
    /\ done < Len(Current.blocks)
    /\ pc' = AfterError
    /\ UNCHANGED <<l1, read, paused, done, checkpointVars, executed, restarts>>

RecordBatchDerived(n) == IF n > lastDerived THEN n ELSE lastDerived

(* A count nobody recorded counts as one block.                            *)
BlocksInBatch == IF CountsRecorded THEN Len(Current.blocks) ELSE 1

RecordBatch ==
    /\ pc = "execute"
    /\ done = Len(Current.blocks)
    /\ lastDerived' = RecordBatchDerived(Current.num)
    /\ saved' = lastDerived'
    /\ finalized' = finalized + BlocksInBatch
    /\ recorded' = recorded \union {Current.num}
    /\ pc' = "idle"
    /\ UNCHANGED <<l1, read, paused, done, executed, restarts>>

RecordFails ==
    /\ MayFail
    /\ pc = "execute"
    /\ done = Len(Current.blocks)
    /\ lastDerived' = RecordBatchDerived(Current.num)
    /\ pc' = AfterError
    /\ UNCHANGED <<l1, read, paused, done, saved, finalized, recorded, executed,
                   restarts>>

RestartedAt == "idle"

(* The process dies, at any point, and a new one resumes from the file.    *)
Restart ==
    /\ restarts < MaxRestarts
    /\ restarts' = restarts + 1
    /\ read' = 0
    /\ pc' = RestartedAt
    /\ paused' = FALSE
    /\ done' = 0
    /\ lastDerived' = saved
    /\ finalized' = 0
    /\ UNCHANGED <<l1, saved, executed, recorded>>

-----------------------------------------------------------------------------
TickStep == SkipBatch \/ BeginBatch \/ ExecuteBlock \/ RecordBatch
TickFault == SourceFails \/ DeriveFails \/ RecordFails

RunnerNext == TickStep \/ TickFault \/ Restart \/ \E p \in BOOLEAN : SetPaused(p)

Next == Post \/ RunnerNext

Spec == Init /\ [][Next]_vars

(* tick() is called for ever.                                              *)
FairSpec == Spec /\ WF_vars(TickStep)

-----------------------------------------------------------------------------
(* Properties.                                                             *)

(* Every variable keeps its type; the source is never read past its end.   *)
TypeOK ==
    /\ l1 \in Seq([num : Nat, blocks : Seq(Nat \ {0})])
    /\ read \in 0..Len(l1)
    /\ pc \in {"idle", "execute", "stopped"}
    /\ pc = "execute" => read > 0 /\ done <= Len(Current.blocks)
    /\ paused \in BOOLEAN
    /\ done \in Nat
    /\ lastDerived \in Nat
    /\ saved \in Nat
    /\ finalized \in Nat
    /\ executed \in Seq(Nat \ {0})
    /\ recorded \subseteq Nat
    /\ restarts \in 0..MaxRestarts

(* Over failures and restarts no block is executed before its predecessor: *)
(* the first execution of a block comes after that of every earlier one.   *)
NoGapExecuted ==
    \A i \in DOMAIN executed :
        executed[i] = 1 \/ \E j \in 1..(i - 1) : executed[j] = executed[i] - 1

(* "last_batch_derived = N means batch N was successfully derived, so we   *)
(* should skip any batch with number <= N": what should_skip_batch skips   *)
(* was derived.                                                            *)
SkipsOnlyDerived == [][SkipBatch => l1[read + 1].num \in recorded]_vars

(* The other half: a batch recorded as derived is never derived again,     *)
(* also by a later process.  It needs numbers from 1, as the sequencer     *)
(* role assigns them: last_batch_derived = 0 stands for no batch at all.   *)
NotDerivedAgain == [][BeginBatch => l1[read + 1].num \notin recorded]_vars

(* The finalized head, a sum of block counts, is the last block executed,  *)
(* as long as every count was recorded and the process read L1 from its    *)
(* beginning: without a count the sum falls behind (blocks_in_batch        *)
(* defaults to 1), and after a restart skipped batches are not added.      *)
FinalizedIsLastDerived ==
    (CountsRecorded /\ pc = "idle" /\ recorded # {} /\ restarts = 0) =>
        finalized = executed[Len(executed)]

(* Execution keeps the order of the chain, and the finalized head with it. *)
ExecutionInOrder == TypeOK /\ NoGapExecuted /\ FinalizedIsLastDerived

(* The checkpoint tells exactly what was derived: should_skip_batch passes *)
(* over what was and nothing else, also in a later process.                *)
DerivedOnce == SkipsOnlyDerived /\ NotDerivedAgain

(* Every batch on L1 is derived, by this process or a later one, unless    *)
(* the runner is paused or an error ended it.                              *)
EveryBatchDerived ==
    \A k \in 1..MaxBatches :
        (Len(l1) >= k) ~> \/ FirstNum + k - 1 \in recorded
                          \/ paused
                          \/ pc = "stopped"
=============================================================================
