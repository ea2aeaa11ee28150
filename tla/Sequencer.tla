----------------------------- MODULE Sequencer -----------------------------
(***************************************************************************)
(* The sequencer role: crates/node/roles/src/sequencer.rs, fed by the      *)
(* block feeder thread (crates/consensus/block-feeder/src/lib.rs).         *)
(*                                                                         *)
(* The role's tick() is a pipeline of phases: collect what the compression *)
(* workers prepared, submit in order what is ready, accumulate blocks from *)
(* the unbounded channel, spawn workers for what is pending.  The feeder   *)
(* (a thread of its own) and the workers (tokio tasks) run between any two *)
(* accesses to the channels, so every access is a step of its own and pc   *)
(* says which loop of tick() the role is in.                               *)
(*                                                                         *)
(* A block is its number, a batch its number and its blocks.  Bytes,       *)
(* events, callbacks, logs and the Progress/Idle result are left out.      *)
(***************************************************************************)
EXTENDS Integers, Sequences, FiniteSets

CONSTANTS
    Start,              \* first block the feeder fetches (--start)
    LastBlock,          \* bound: the chain's last block in this instance
    MaxBlocksPerBatch,  \* BatcherConfig::max_blocks_per_batch
    LightThreshold, ModerateThreshold, HeavyThreshold,
    LightMax, ModerateMax, HeavyMax,
    MaxConcurrent,      \* MAX_CONCURRENT_PREPARATIONS
    MaxResumed,         \* bound: largest last_batch_submitted loaded
    MaxPrepFailures,    \* bound: preparations that may fail
    IOMayFail           \* may the L1 sink or the checkpoint file fail

ASSUME BlockAssumption ==
    /\ Start \in Nat
    /\ LastBlock \in Nat
    /\ Start <= LastBlock

ASSUME BatchSizeAssumption ==
    /\ MaxBlocksPerBatch \in Nat \ {0}
    /\ LightMax \in Nat \ {0}
    /\ ModerateMax \in Nat \ {0}
    /\ HeavyMax \in Nat \ {0}
    /\ LightThreshold \in Nat
    /\ ModerateThreshold \in Nat
    /\ HeavyThreshold \in Nat

ASSUME LimitAssumption ==
    /\ MaxConcurrent \in Nat \ {0}
    /\ MaxResumed \in Nat
    /\ MaxPrepFailures \in Nat
    /\ IOMayFail \in BOOLEAN

VARIABLES
    feed,           \* feeder: number of the next block to fetch
    feederOpen,     \* the feeder still holds the channel's sender
    blockCh,        \* block_rx: unbounded channel of blocks
    pending,        \* pending_blocks
    nextBatch,      \* next_batch_number
    nextSub,        \* next_submission_number
    inFlight,       \* in_flight_preparations
    workers,        \* batches being compressed by spawned tasks
    preparedCh,     \* prepared_rx: results the workers sent back
    ready,          \* ready_batches: the heap of prepared batches
    current,        \* the batch submit_prepared_batch holds, as a set
    lastSubmitted,  \* checkpoint.last_batch_submitted, in memory
    saved,          \* checkpoint.last_batch_submitted, in the file
    timeReady,      \* batch_interval elapsed since last_submission
    pc,             \* which loop of tick() the role is in
    draining,       \* in the loop that waits for in-flight preparations
    disconnected,   \* channel_disconnected
    dynMax,         \* dynamic_max of this tick
    slots,          \* workers catch-up mode may still spawn in this tick
    completed,      \* tick() returned Complete
    l1,             \* batches included on L1, in order
    resumed,        \* history: last_batch_submitted the role started with
    failed          \* history: numbers of batches whose preparation failed

feederVars   == <<feed, feederOpen>>
batchVars    == <<pending, nextBatch, inFlight, workers>>
submitVars   == <<nextSub, current, lastSubmitted, saved, l1>>
tickVars     == <<draining, disconnected, dynMax, slots, completed>>
vars == <<feederVars, blockCh, batchVars, preparedCh, ready, submitVars,
          timeReady, pc, tickVars, resumed, failed>>

Batch == [num : Nat \ {0}, blocks : Seq(Nat) \ {<< >>}]
First(b) == b.blocks[1]
Last(b)  == b.blocks[Len(b.blocks)]

PCs == {"collect", "submit", "record", "accumulate", "spawn", "catchup",
        "flush", "drain", "idle", "failed"}

-----------------------------------------------------------------------------
(* Batch sizing.                                                           *)

MinOf(a, b) == IF a <= b THEN a ELSE b

DynamicMaxBlocks(backlog) ==
    IF backlog >= HeavyThreshold THEN HeavyMax
    ELSE IF backlog >= ModerateThreshold THEN ModerateMax
    ELSE IF backlog >= LightThreshold THEN LightMax
    ELSE MaxBlocksPerBatch

EstimateBacklog == Len(blockCh) + Len(pending)

IsBacklogged == EstimateBacklog >= LightThreshold

(* Slip: the interval is not looked at.                                    *)
ShouldSubmit_NoTimer(sizeReady) == sizeReady \/ Len(pending) >= MaxBlocksPerBatch

(* sizeReady abstracts current_batch_size >= min_batch_size.               *)
ShouldSubmit(sizeReady) ==
    \/ sizeReady
    \/ timeReady
    \/ Len(pending) >= MaxBlocksPerBatch

(* Slip: off by one.                                                       *)
ShouldSkipBatch_Below(n) == lastSubmitted # 0 /\ n < lastSubmitted

ShouldSkipBatch(n) == lastSubmitted # 0 /\ n <= lastSubmitted

-----------------------------------------------------------------------------
Init ==
    /\ feed = Start
    /\ feederOpen = TRUE
    /\ blockCh = << >>
    /\ pending = << >>
    /\ nextBatch = 1
    /\ nextSub = 1
    /\ inFlight = 0
    /\ workers = {}
    /\ preparedCh = {}
    /\ ready = {}
    /\ current = {}
    /\ resumed \in 0..MaxResumed
    /\ lastSubmitted = resumed
    /\ saved = resumed
    /\ timeReady = FALSE
    /\ pc = "idle"
    /\ draining = FALSE
    /\ disconnected = FALSE
    /\ dynMax = MaxBlocksPerBatch
    /\ slots = 0
    /\ completed = FALSE
    /\ l1 = << >>
    /\ failed = {}

-----------------------------------------------------------------------------
(* The feeder thread, the clock and the compression workers.  The process  *)
(* exits when tick() returns an error, and they stop with it.              *)

Feed ==
    /\ pc # "failed"
    /\ feederOpen
    /\ feed <= LastBlock
    /\ blockCh' = Append(blockCh, feed)
    /\ feed' = feed + 1
    /\ UNCHANGED <<feederOpen, batchVars, preparedCh, ready, submitVars,
                   timeReady, pc, tickVars, resumed, failed>>

(* Any RPC error ends the feeder and drops the channel's sender.           *)
FeederStops ==
    /\ pc # "failed"
    /\ feederOpen
    /\ feederOpen' = FALSE
    /\ UNCHANGED <<feed, blockCh, batchVars, preparedCh, ready, submitVars,
                   timeReady, pc, tickVars, resumed, failed>>

IntervalElapses ==
    /\ pc # "failed"
    /\ ~timeReady
    /\ timeReady' = TRUE
    /\ UNCHANGED <<feederVars, blockCh, batchVars, preparedCh, ready,
                   submitVars, pc, tickVars, resumed, failed>>

(* A worker's Err carries a message and no batch: nothing reads the batch  *)
(* of a message that is not ok.  The channel is first-in-first-out, but    *)
(* its reader empties it into a heap, so a set is enough.                  *)
Prepare(w, ok) ==
    /\ pc # "failed"
    /\ workers' = workers \ {w}
    /\ preparedCh' = preparedCh \union {[ok |-> ok, batch |-> w]}
    /\ UNCHANGED <<feederVars, blockCh, pending, nextBatch, inFlight, ready,
                   submitVars, timeReady, pc, tickVars, resumed>>

WorkerDone == \E w \in workers : Prepare(w, TRUE) /\ UNCHANGED failed

WorkerFails ==
    /\ Cardinality(failed) < MaxPrepFailures
    /\ \E w \in workers : Prepare(w, FALSE) /\ failed' = failed \union {w.num}

-----------------------------------------------------------------------------
(* tick(), phase 1: collect_prepared_batches.                              *)

NextTick ==
    /\ pc = "idle"
    /\ pc' = "collect"
    /\ disconnected' = FALSE
    /\ UNCHANGED <<feederVars, blockCh, batchVars, preparedCh, ready,
                   submitVars, timeReady, draining, dynMax, slots, completed,
                   resumed, failed>>

Collect ==
    /\ pc = "collect"
    /\ \E m \in preparedCh :
          /\ preparedCh' = preparedCh \ {m}
          /\ ready' = IF m.ok THEN ready \union {m.batch} ELSE ready
    /\ inFlight' = IF inFlight = 0 THEN 0 ELSE inFlight - 1
    /\ UNCHANGED <<feederVars, blockCh, pending, nextBatch, workers,
                   submitVars, timeReady, pc, tickVars, resumed, failed>>

CollectEmpty ==
    /\ pc = "collect"
    /\ preparedCh = {}
    /\ pc' = "submit"
    /\ UNCHANGED <<feederVars, blockCh, batchVars, preparedCh, ready,
                   submitVars, timeReady, tickVars, resumed, failed>>

-----------------------------------------------------------------------------
(* Phase 2: submit_ready_batches.  The heap's smallest batch is submitted  *)
(* only when it is the one next_submission_number asks for.                *)

Peek(b) ==
    /\ b \in ready
    /\ \A c \in ready : b.num <= c.num

(* Slip: whatever is ready first is submitted first.                       *)
Submittable_AnyReady(b) == Peek(b)

Submittable(b) == Peek(b) /\ b.num = nextSub

SkipBatch ==
    /\ pc = "submit"
    /\ \E b \in ready :
          /\ Submittable(b)
          /\ ShouldSkipBatch(b.num)
          /\ ready' = ready \ {b}
    /\ nextSub' = nextSub + 1
    /\ UNCHANGED <<feederVars, blockCh, batchVars, preparedCh, current,
                   lastSubmitted, saved, l1, timeReady, pc, tickVars,
                   resumed, failed>>

SubmitBatch ==
    /\ pc = "submit"
    /\ \E b \in ready :
          /\ Submittable(b)
          /\ ~ShouldSkipBatch(b.num)
          /\ ready' = ready \ {b}
          /\ current' = {b}
          /\ l1' = Append(l1, b)
    /\ pc' = "record"
    /\ UNCHANGED <<feederVars, blockCh, batchVars, preparedCh, nextSub,
                   lastSubmitted, saved, timeReady, tickVars, resumed, failed>>

(* sink.submit returns an error: the transaction was rejected, or it was   *)
(* included and its receipt never came.  tick() propagates the error.      *)
SubmitFails ==
    /\ IOMayFail
    /\ pc = "submit"
    /\ \E b \in ready, included \in BOOLEAN :
          /\ Submittable(b)
          /\ ~ShouldSkipBatch(b.num)
          /\ ready' = ready \ {b}
          /\ current' = {b}
          /\ l1' = IF included THEN Append(l1, b) ELSE l1
    /\ pc' = "failed"
    /\ UNCHANGED <<feederVars, blockCh, batchVars, preparedCh, nextSub,
                   lastSubmitted, saved, timeReady, tickVars, resumed, failed>>

(* Checkpoint::record_batch_submitted: a recorded number never decreases.  *)
RecordBatchSubmitted(n) == IF n > lastSubmitted THEN n ELSE lastSubmitted

RecordBatch ==
    /\ pc = "record"
    /\ \E b \in current : lastSubmitted' = RecordBatchSubmitted(b.num)
    /\ saved' = lastSubmitted'
    /\ nextSub' = nextSub + 1
    /\ timeReady' = FALSE
    /\ current' = {}
    /\ pc' = "submit"
    /\ UNCHANGED <<feederVars, blockCh, batchVars, preparedCh, ready, l1,
                   tickVars, resumed, failed>>

(* checkpoint.save fails after record_batch_submitted changed it.          *)
RecordFails ==
    /\ IOMayFail
    /\ pc = "record"
    /\ \E b \in current : lastSubmitted' = RecordBatchSubmitted(b.num)
    /\ pc' = "failed"
    /\ UNCHANGED <<feederVars, blockCh, batchVars, preparedCh, ready, nextSub,
                   current, saved, l1, timeReady, tickVars, resumed, failed>>

(* Nothing more to submit: the drain loop goes round, or phase 3 begins    *)
(* with the batch size the backlog of this moment calls for.               *)
SubmitNone ==
    /\ pc = "submit"
    /\ \A b \in ready : ~Submittable(b)
    /\ pc' = IF draining THEN "drain" ELSE "accumulate"
    /\ dynMax' = IF draining THEN dynMax ELSE DynamicMaxBlocks(EstimateBacklog)
    /\ UNCHANGED <<feederVars, blockCh, batchVars, preparedCh, ready,
                   submitVars, timeReady, draining, disconnected, slots,
                   completed, resumed, failed>>

-----------------------------------------------------------------------------
(* Phase 3: accumulate blocks from the channel.                            *)

AccumulateBlock ==
    /\ pc = "accumulate"
    /\ blockCh # << >>
    /\ pending' = Append(pending, Head(blockCh))
    /\ blockCh' = Tail(blockCh)
    /\ pc' = IF Len(pending') >= dynMax THEN "spawn" ELSE "accumulate"
    /\ UNCHANGED <<feederVars, nextBatch, inFlight, workers, preparedCh, ready,
                   submitVars, timeReady, tickVars, resumed, failed>>

AccumulateNone ==
    /\ pc = "accumulate"
    /\ blockCh = << >>
    /\ disconnected' = ~feederOpen
    /\ pc' = "spawn"
    /\ UNCHANGED <<feederVars, blockCh, batchVars, preparedCh, ready,
                   submitVars, timeReady, draining, dynMax, slots, completed,
                   resumed, failed>>

-----------------------------------------------------------------------------
(* Phase 4: spawn preparation workers.                                     *)

(* Slip: the disconnection is not acted on.                                *)
AfterSpawn_NoFlush == "idle"

AfterSpawn == IF disconnected THEN "flush" ELSE "idle"

(* Slip: preparations already in flight are not subtracted.                *)
AvailableSlots_Fresh == MaxConcurrent

AvailableSlots == IF inFlight >= MaxConcurrent THEN 0 ELSE MaxConcurrent - inFlight

(* Slip: drain(..n - 1) leaves the batch's last block pending.             *)
SpawnPreparationWorker_KeepsLast(n) ==
    /\ workers' = workers \union
                    {[num |-> nextBatch, blocks |-> SubSeq(pending, 1, n)]}
    /\ pending' = SubSeq(pending, IF n > 1 THEN n ELSE n + 1, Len(pending))
    /\ nextBatch' = nextBatch + 1
    /\ inFlight' = inFlight + 1

(* Drain the first n pending blocks into the next batch and hand it to a   *)
(* new worker.                                                             *)
SpawnPreparationWorker(n) ==
    /\ workers' = workers \union
                    {[num |-> nextBatch, blocks |-> SubSeq(pending, 1, n)]}
    /\ pending' = SubSeq(pending, n + 1, Len(pending))
    /\ nextBatch' = nextBatch + 1
    /\ inFlight' = inFlight + 1

EnterCatchUp ==
    /\ pc = "spawn"
    /\ AvailableSlots > 0
    /\ pending # << >>
    /\ IsBacklogged
    /\ slots' = AvailableSlots
    /\ pc' = "catchup"
    /\ UNCHANGED <<feederVars, blockCh, batchVars, preparedCh, ready,
                   submitVars, timeReady, draining, disconnected, dynMax,
                   completed, resumed, failed>>

MinForSpawn(effectiveMax) ==
    IF effectiveMax \div 2 > 1 THEN effectiveMax \div 2 ELSE 1

SpawnCatchUp ==
    /\ pc = "catchup"
    /\ slots > 0
    /\ pending # << >>
    /\ LET effectiveMax == DynamicMaxBlocks(EstimateBacklog)
       IN  /\ Len(pending) >= MinForSpawn(effectiveMax)
           /\ SpawnPreparationWorker(MinOf(Len(pending), effectiveMax))
    /\ slots' = slots - 1
    /\ UNCHANGED <<feederVars, blockCh, preparedCh, ready, submitVars,
                   timeReady, pc, draining, disconnected, dynMax, completed,
                   resumed, failed>>

CatchUpDone ==
    /\ pc = "catchup"
    /\ \/ slots = 0
       \/ pending = << >>
       \/ Len(pending) < MinForSpawn(DynamicMaxBlocks(EstimateBacklog))
    /\ pc' = AfterSpawn
    /\ UNCHANGED <<feederVars, blockCh, batchVars, preparedCh, ready,
                   submitVars, timeReady, tickVars, resumed, failed>>

SpawnNormal ==
    /\ pc = "spawn"
    /\ AvailableSlots > 0
    /\ pending # << >>
    /\ ~IsBacklogged
    /\ \E sizeReady \in BOOLEAN : ShouldSubmit(sizeReady)
    /\ SpawnPreparationWorker(MinOf(Len(pending), MaxBlocksPerBatch))
    /\ pc' = AfterSpawn
    /\ UNCHANGED <<feederVars, blockCh, preparedCh, ready, submitVars,
                   timeReady, tickVars, resumed, failed>>

SpawnNone ==
    /\ pc = "spawn"
    /\ \/ AvailableSlots = 0
       \/ pending = << >>
       \/ ~IsBacklogged /\ \E sizeReady \in BOOLEAN : ~ShouldSubmit(sizeReady)
    /\ pc' = AfterSpawn
    /\ UNCHANGED <<feederVars, blockCh, batchVars, preparedCh, ready,
                   submitVars, timeReady, tickVars, resumed, failed>>

-----------------------------------------------------------------------------
(* The channel is disconnected: the last blocks go to one more worker,     *)
(* whatever the slots, and the tick waits for every preparation.           *)

(* Slip: the final worker is spawned for no blocks.                        *)
NothingToFlush_Never == FALSE

NothingToFlush == pending = << >>

Flush ==
    /\ pc = "flush"
    /\ IF NothingToFlush THEN UNCHANGED batchVars
                         ELSE SpawnPreparationWorker(Len(pending))
    /\ draining' = TRUE
    /\ pc' = "drain"
    /\ UNCHANGED <<feederVars, blockCh, preparedCh, ready, submitVars,
                   timeReady, disconnected, dynMax, slots, completed, resumed,
                   failed>>

(* Slip: preparations in flight are not waited for.                        *)
DrainFinished_ReadyOnly == ready = {}

DrainFinished == inFlight = 0 /\ ready = {}

DrainMore ==
    /\ pc = "drain"
    /\ ~DrainFinished
    /\ pc' = "collect"
    /\ UNCHANGED <<feederVars, blockCh, batchVars, preparedCh, ready,
                   submitVars, timeReady, tickVars, resumed, failed>>

DrainDone ==
    /\ pc = "drain"
    /\ DrainFinished
    /\ draining' = FALSE
    /\ completed' = TRUE
    /\ pc' = "idle"
    /\ UNCHANGED <<feederVars, blockCh, batchVars, preparedCh, ready,
                   submitVars, timeReady, disconnected, dynMax, slots, resumed,
                   failed>>

-----------------------------------------------------------------------------
CollectPhase    == Collect \/ CollectEmpty
SubmitPhase     == SkipBatch \/ SubmitBatch \/ RecordBatch \/ SubmitNone
SubmitFaults    == SubmitFails \/ RecordFails
AccumulatePhase == AccumulateBlock \/ AccumulateNone
SpawnPhase      == \/ EnterCatchUp \/ SpawnCatchUp \/ CatchUpDone
                   \/ SpawnNormal \/ SpawnNone
DrainPhase      == Flush \/ DrainMore \/ DrainDone

(* The steps of tick(), called again and again by the node's active stage. *)
TickStep == NextTick \/ CollectPhase \/ SubmitPhase \/ AccumulatePhase
                     \/ SpawnPhase \/ DrainPhase

Environment == Feed \/ FeederStops \/ IntervalElapses \/ WorkerFails

Next == TickStep \/ SubmitFaults \/ WorkerDone \/ Environment

Spec == Init /\ [][Next]_vars

(* The node calls tick() for ever, the runtime has threads to run spawned  *)
(* workers on, and time passes.  Nothing obliges the chain to grow.        *)
Fairness ==
    /\ WF_vars(TickStep)
    /\ WF_vars(WorkerDone)
    /\ WF_vars(IntervalElapses)

FairSpec == Spec /\ Fairness

-----------------------------------------------------------------------------
(* Properties.                                                             *)

Live == workers \union {m.batch : m \in preparedCh} \union ready \union current

Posted == {l1[i] : i \in DOMAIN l1}

Contiguous(b) == \A i \in 1..Len(b.blocks) : b.blocks[i] = First(b) + i - 1

OnL1 == UNION {{b.blocks[i] : i \in DOMAIN b.blocks} : b \in Posted}

(* Every variable keeps its type; in particular no worker is ever given an *)
(* empty batch (drain(..batch_size), mem::take at the flush).              *)
TypeOK ==
    /\ feed \in Start..(LastBlock + 1)
    /\ feederOpen \in BOOLEAN
    /\ blockCh \in Seq(Nat)
    /\ pending \in Seq(Nat)
    /\ nextBatch \in Nat \ {0}
    /\ nextSub \in Nat \ {0}
    /\ inFlight \in Nat
    /\ workers \subseteq Batch
    /\ preparedCh \subseteq [ok : BOOLEAN, batch : Batch]
    /\ ready \subseteq Batch
    /\ current \subseteq Batch
    /\ lastSubmitted \in Nat
    /\ saved \in Nat
    /\ timeReady \in BOOLEAN
    /\ pc \in PCs
    /\ draining \in BOOLEAN
    /\ disconnected \in BOOLEAN
    /\ dynMax \in Nat \ {0}
    /\ slots \in Nat
    /\ completed \in BOOLEAN
    /\ l1 \in Seq(Batch)
    /\ resumed \in 0..MaxResumed
    /\ failed \subseteq Nat \ {0}

(* Parallel preparation never reorders L1: batches are included with       *)
(* consecutive numbers from the one after the checkpoint, each holds       *)
(* consecutive blocks, and each starts where the previous one ended, the   *)
(* first of a fresh sequencer at Start (submit_ready_batches' check of     *)
(* next_submission_number against workers that finish in any order).       *)
L1InOrder ==
    /\ \A i \in DOMAIN l1 : l1[i].num = resumed + i /\ Contiguous(l1[i])
    /\ \A i \in 1..(Len(l1) - 1) : First(l1[i + 1]) = Last(l1[i]) + 1
    /\ (resumed = 0 /\ l1 # << >>) => First(l1[1]) = Start

(* No batch is lost or doubled between its number being assigned and its   *)
(* submission: every number from next_submission_number on that was        *)
(* assigned is with exactly one of a worker, the channel, the heap, the    *)
(* submission in progress and the failed preparations.                     *)
BatchAccounting ==
    LET held == workers \union {m.batch : m \in {x \in preparedCh : x.ok}}
                        \union ready \union current
    IN  /\ {b.num : b \in held} \union failed = nextSub..(nextBatch - 1)
        /\ \A b \in held : b.num \notin failed
        /\ \A b, c \in held : b.num = c.num => b = c
        /\ Cardinality(workers) + Cardinality({x \in preparedCh : x.ok})
             + Cardinality(ready) + Cardinality(current) = Cardinality(held)

(* in_flight_preparations counts exactly the workers running and the       *)
(* results not collected, so its saturating_sub never saturates; it stays  *)
(* within MAX_CONCURRENT_PREPARATIONS, but for the one flush worker that   *)
(* the disconnect path spawns without looking at the slots.                *)
PreparationSlots ==
    /\ inFlight = Cardinality(workers) + Cardinality(preparedCh)
    /\ inFlight <= IF draining THEN MaxConcurrent + 1 ELSE MaxConcurrent

(* Wherever the process stops, the checkpoint file never claims a batch    *)
(* that is not on L1, and is at most one batch behind L1 (the window       *)
(* between sink.submit and checkpoint.save in submit_prepared_batch).      *)
CheckpointTracksL1 ==
    /\ saved <= lastSubmitted
    /\ lastSubmitted <= resumed + Len(l1)
    /\ resumed + Len(l1) <= saved + 1

(* When tick() returns Complete and no preparation failed, every block the *)
(* feeder sent is on L1 (behind the checkpoint, for a resumed sequencer).  *)
(* After a failed preparation Complete promises nothing about its blocks.  *)
CompleteMeansSubmitted ==
    (completed /\ failed = {}) =>
        /\ resumed = 0 => OnL1 = Start..(feed - 1)
        /\ l1 # << >> => Last(l1[Len(l1)]) = feed - 1

(* The pipeline loses nothing: while it runs every numbered batch is in    *)
(* exactly one place, and when it reports Complete they are all on L1.     *)
NothingLost == BatchAccounting /\ CompleteMeansSubmitted

(* The L1 log of the parallel pipeline is the abstract ordered log.        *)
BatchLog == INSTANCE OrderedBatchLog WITH
    log <- [i \in DOMAIN l1 |-> [num   |-> l1[i].num,
                                 first |-> First(l1[i]),
                                 last  |-> Last(l1[i])]]
ImplementsBatchLog == BatchLog!Spec

(* Once the feeder is gone, the role submits everything and completes: the *)
(* flush and drain loop at the end of tick() terminates.                   *)
DisconnectDrains ==
    ~feederOpen ~> (completed /\ OnL1 = Start..(feed - 1))

(* Every batch that got a number reaches L1, whatever order the workers    *)
(* finish in and whether or not the chain grows.                           *)
BatchesReachL1 ==
    \A n \in 1..(LastBlock - Start + 1) :
        nextBatch > n ~> n \in {b.num : b \in Posted}

(* Below the backlog threshold no block waits for ever in pending_blocks,  *)
(* however small the batch: time_ready of should_submit.                   *)
SmallBacklogSubmitted ==
    \A n \in Start..LastBlock :
        feed > n ~> (n \in OnL1 \/ IsBacklogged)

(* Below the backlog threshold a block waits neither for more blocks nor   *)
(* for a particular order of the workers.                                  *)
BacklogReachesL1 == BatchesReachL1 /\ SmallBacklogSubmitted
=============================================================================
