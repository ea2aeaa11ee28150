------------------------------- MODULE Shadow -------------------------------
(***************************************************************************)
(* The shadow binary (examples/shadow/src/main.rs): a batch runner and a   *)
(* derivation runner as two tasks that meet in one BatchContext, and the   *)
(* terminal's input loop, which pauses both and shows the App the tasks    *)
(* report to (app.rs).                                                     *)
(*                                                                         *)
(* Each runner sits behind a mutex.  The batch task locks it once, for the *)
(* whole of run(); the derivation task locks it for one tick() at a time;  *)
(* the key `p` locks the one, then the other.  The App has a lock of its   *)
(* own, taken for one update: a batch is on L1 before the batch runner's   *)
(* callback reports it, and a tick is over before its outcome is reported. *)
(***************************************************************************)
EXTENDS Naturals, Sequences, FiniteSets

CONSTANTS
    LastBlock, MaxBlocksPerBatch, MaxFailures, SourceMayFail,   \* BatchRunner
    MayFail,                                                \* DerivationRunner
    MaxKeys,    \* bound: presses of `p` and `r`
    MaxSamples  \* latency samples kept

ASSUME KeysAssumption == MaxKeys \in Nat /\ MaxSamples \in Nat \ {0}
ASSUME ChainAssumption == LastBlock \in Nat /\ MaxBlocksPerBatch \in Nat \ {0}

VARIABLES
    head, pc, paused, cur, num, pending, full, backlogged, left, got, missed,
    l1, lost,                                                   \* BatchRunner
    read, dpc, dpaused, done, lastDerived, saved, finalized, executed, recorded,
    restarts,                                               \* DerivationRunner
    batchLock,  \* who holds batch_runner: "free", "task" or "ui"
    tickLock,   \* who holds derivation_runner
    ui,         \* the input loop: "loop", or which lock `p` waits for
    isPaused,   \* App::is_paused
    keys,       \* history: keys pressed
    resets,     \* history: presses of `r`
    stats,      \* App::stats
    times,      \* App::batch_submission_times: the batches that have one
    callback,   \* a submitted batch the runner has yet to report, or none
    outcome     \* what the derivation task has yet to report of its tick

(* The queue keeps the numbers run() assigns, from 0; Anvil's source       *)
(* counts what is in the inbox from 1, which nothing here looks at.  The   *)
(* derivation task logs an error and goes on; nobody records block counts; *)
(* no checkpoint is written, so only the source and derivation fail.       *)
B == INSTANCE BatchRunner WITH StartBlock <- 1

D == INSTANCE DerivationRunner WITH
        FirstNum <- 0, ContinueOnError <- TRUE, CountsRecorded <- FALSE,
        MaxBatches <- 0, MaxBatchBlocks <- 0, MaxRestarts <- 0,
        pc <- dpc, paused <- dpaused

batchOwn == <<head, pc, paused, cur, num, pending, full, backlogged, left, got,
              missed, lost>>
runnerOwn == <<read, dpc, dpaused, done, lastDerived, saved, finalized,
               executed, recorded, restarts>>
uiVars == <<ui, isPaused, keys, resets>>
appVars == <<stats, times>>
vars == <<batchOwn, l1, runnerOwn, batchLock, tickLock, uiVars, appVars, callback, outcome>>

-----------------------------------------------------------------------------
(* The App.  A latency sample is the pair of the batch that was derived    *)
(* and the batch whose submission time it was measured from.               *)
NoBatch == [num |-> 0, blocks |-> << >>]

EmptyStats ==
    [batches_submitted |-> 0, blocks_processed |-> 0, batches_derived |-> 0,
     blocks_derived |-> 0, derivation_healthy |-> TRUE, latencies |-> << >>]

(* The footer's IN SYNC.                                                   *)
InSync == stats.batches_submitted = stats.batches_derived

AppNew ==
    /\ isPaused = FALSE
    /\ stats = EmptyStats
    /\ times = {}

RecordLatency(samples, x) ==
    Append(IF Len(samples) >= MaxSamples THEN Tail(samples) ELSE samples, x)

Init ==
    /\ B!Init
    /\ D!RunnerInit
    /\ batchLock = "free"
    /\ tickLock = "free"
    /\ ui = "loop"
    /\ AppNew
    /\ keys = 0
    /\ resets = 0
    /\ callback = NoBatch
    /\ outcome = "none"

ChainGrows ==
    /\ B!ChainGrows
    /\ UNCHANGED <<runnerOwn, batchLock, tickLock, uiVars, appVars, callback, outcome>>

-----------------------------------------------------------------------------
(* The batch task: run() never returns, so the guard is never dropped.     *)
BatchTaskLocks ==
    /\ batchLock = "free"
    /\ batchLock' = "task"
    /\ B!Run
    /\ UNCHANGED <<runnerOwn, tickLock, uiVars, appVars, callback, outcome>>

BatchTaskRuns ==
    /\ batchLock = "task"
    /\ callback = NoBatch
    /\ UNCHANGED <<runnerOwn, batchLock, tickLock, uiVars, times, outcome>>

(* on_chain_head_updated and on_block_processed show head and cur.         *)
BatchTaskFetches ==
    /\ BatchTaskRuns
    /\ B!BeginRound \/ B!FetchBlock \/ B!FetchDone \/ B!FetchFails
    /\ UNCHANGED <<stats, callback>>

(* The sink has the batch; the callback is yet to come.                    *)
Submits ==
    /\ BatchTaskRuns
    /\ B!SubmitBatch
    /\ callback' = B!ThisBatch
    /\ UNCHANGED stats

(* on_batch_failed only logs.                                              *)
SubmitFails ==
    /\ BatchTaskRuns
    /\ B!SubmitFails
    /\ UNCHANGED <<stats, callback>>

AfterSubmission ==
    [stats EXCEPT !.batches_submitted = @ + 1,
                  !.blocks_processed = @ + Len(callback.blocks)]

OnBatchSubmitted ==
    /\ callback # NoBatch
    /\ stats' = AfterSubmission
    /\ times' = times \union {callback.num}
    /\ callback' = NoBatch
    /\ UNCHANGED <<batchOwn, l1, runnerOwn, batchLock, tickLock, uiVars, outcome>>

-----------------------------------------------------------------------------
(* The derivation task: lock, one tick(), unlock, then report.             *)
DerivationLocks ==
    /\ tickLock = "free"
    /\ outcome = "none"
    /\ tickLock' = "task"
    /\ UNCHANGED <<batchOwn, l1, runnerOwn, batchLock, uiVars, appVars, callback, outcome>>

DerivationTicks ==
    /\ tickLock = "task"
    /\ \/ D!TickStep /\ outcome' = IF recorded' # recorded THEN "derived" ELSE "none"
       \/ D!DeriveFails /\ outcome' = "error"
    /\ tickLock' = IF dpc' = "idle" THEN "free" ELSE "task"
    /\ UNCHANGED <<batchOwn, batchLock, uiVars, appVars, callback>>

(* next_batch() returns an error, as Anvil's source does when an RPC call  *)
(* fails: nothing was handed out and tick() returns the error.             *)
SourceErrs ==
    /\ tickLock = "task"
    /\ D!SourceFails
    /\ outcome' = "error"
    /\ tickLock' = "free"
    /\ UNCHANGED <<batchOwn, batchLock, uiVars, appVars, callback>>

(* Slip: a paused tick() sleeps with the lock until it is resumed.         *)
DerivationIdles_Holds ==
    /\ tickLock = "task"
    /\ dpc = "idle"
    /\ ~dpaused /\ read = Len(l1)
    /\ tickLock' = "free"
    /\ UNCHANGED <<batchOwn, l1, runnerOwn, batchLock, uiVars, appVars, callback, outcome>>

(* Paused, or no batch available.                                          *)
DerivationIdles ==
    /\ tickLock = "task"
    /\ dpc = "idle"
    /\ dpaused \/ read = Len(l1)
    /\ tickLock' = "free"
    /\ UNCHANGED <<batchOwn, l1, runnerOwn, batchLock, uiVars, appVars, callback, outcome>>

(* What the task shows as the number of the batch it derived.              *)
ShownNumber(derived) == IF derived = 0 THEN 0 ELSE derived - 1

(* Slip: every batch read counts, also the ones that failed.               *)
BatchesDerived_Read == read

BatchesDerived == Cardinality(recorded)

(* The runner's counters are totals.  The submission time is looked up     *)
(* under the number shown, and a time that is not there is not waited for. *)
ReportsDerived ==
    /\ outcome = "derived"
    /\ LET n     == ShownNumber(BatchesDerived)
           shown == [stats EXCEPT !.batches_derived = BatchesDerived,
                                  !.blocks_derived = finalized,
                                  !.derivation_healthy = TRUE]
       IN  /\ times' = times \ {n}
           /\ stats' = IF n \in times
                       THEN [shown EXCEPT !.latencies =
                               RecordLatency(@, <<l1[read].num, n>>)]
                       ELSE shown
    /\ outcome' = "none"
    /\ UNCHANGED <<batchOwn, l1, runnerOwn, batchLock, tickLock, uiVars, callback>>

ReportsError ==
    /\ outcome = "error"
    /\ stats' = [stats EXCEPT !.derivation_healthy = FALSE]
    /\ outcome' = "none"
    /\ UNCHANGED <<batchOwn, l1, runnerOwn, batchLock, tickLock, uiVars, times, callback>>

-----------------------------------------------------------------------------
(* The input loop.                                                         *)
PressPause ==
    /\ ui = "loop"
    /\ keys < MaxKeys
    /\ keys' = keys + 1
    /\ isPaused' = ~isPaused
    /\ ui' = "batch"
    /\ UNCHANGED <<batchOwn, l1, runnerOwn, batchLock, tickLock, resets, appVars,
                   callback, outcome>>

(* App::reset: the App alone is reset, neither runner hears of it.         *)
PressReset ==
    /\ ui = "loop"
    /\ keys < MaxKeys
    /\ keys' = keys + 1
    /\ resets' = resets + 1
    /\ isPaused' = FALSE
    /\ stats' = EmptyStats
    /\ times' = {}
    /\ UNCHANGED <<batchOwn, l1, runnerOwn, batchLock, tickLock, ui, callback, outcome>>

UILocksBatch ==
    /\ ui = "batch"
    /\ batchLock = "free"
    /\ batchLock' = "ui"
    /\ ui' = "derivation"
    /\ UNCHANGED <<batchOwn, l1, runnerOwn, tickLock, isPaused, keys, resets, appVars,
                   callback, outcome>>

(* With both locks held both runners are set, and both locks released.     *)
UISetsRunners ==
    /\ ui = "derivation"
    /\ tickLock = "free"
    /\ D!SetPaused(isPaused)
    /\ B!SetPaused(isPaused)
    /\ batchLock' = "free"
    /\ ui' = "loop"
    /\ UNCHANGED <<tickLock, isPaused, keys, resets, appVars, callback, outcome>>

-----------------------------------------------------------------------------
BatchTask == \/ BatchTaskLocks \/ BatchTaskFetches \/ Submits \/ SubmitFails \/ OnBatchSubmitted
DerivationTask == \/ DerivationLocks \/ DerivationTicks \/ SourceErrs
                  \/ DerivationIdles \/ ReportsDerived \/ ReportsError
UITask == UILocksBatch \/ UISetsRunners

Next == \/ ChainGrows \/ BatchTask \/ DerivationTask
        \/ PressPause \/ PressReset \/ UITask

Spec == Init /\ [][Next]_vars

(* Both tasks and the input loop run for ever.  tokio's mutex serves its   *)
(* waiters in turn, so a lock that is released again and again is obtained.*)
(* A source that is asked again and again answers in the end.              *)
FairSpec ==
    /\ Spec
    /\ WF_vars(BatchTask) /\ SF_vars(BatchTaskFetches /\ B!FetchBlock)
    /\ WF_vars(DerivationTask) /\ SF_vars(DerivationLocks) /\ SF_vars(DerivationTicks)
    /\ SF_vars(UITask)

-----------------------------------------------------------------------------
(* Properties.                                                             *)

(* Every variable keeps its type, and a task that is inside a runner holds *)
(* the runner's lock.                                                      *)
TypeOK ==
    /\ B!TypeOK
    /\ D!TypeOK
    /\ batchLock \in {"free", "task", "ui"}
    /\ tickLock \in {"free", "task"}
    /\ ui \in {"loop", "batch", "derivation"}
    /\ isPaused \in BOOLEAN
    /\ keys \in 0..MaxKeys
    /\ resets \in 0..keys
    /\ times \subseteq Nat
    /\ outcome \in {"none", "derived", "error"}
    /\ Len(stats.latencies) <= MaxSamples
    /\ (pc # "ready") => batchLock = "task"
    /\ (dpc = "execute") => tickLock = "task"

(* End to end: what derivation executes is what the batch runner posted,   *)
(* in order and without repetition, and as long as no submission failed    *)
(* and no batch was given up it is the L2 chain from its first block on.   *)
ExecutesChain ==
    /\ \A i \in 1..(Len(executed) - 1) : executed[i] < executed[i + 1]
    /\ \A i \in DOMAIN executed : executed[i] \in B!BlocksOf(l1)
    /\ (lost = << >> /\ {l1[k].num : k \in 1..(read - 1)} \subseteq recorded) =>
          \A i \in DOMAIN executed : executed[i] = i

(* No callback and no report of the derivation task is outstanding.        *)
Reported == callback = NoBatch /\ outcome = "none"

(* A submission that failed after the batch was included.                  *)
FailedButIncluded == {b \in {lost[i] : i \in DOMAIN lost} : \E k \in DOMAIN l1 : l1[k] = b}

(* The counters shown are those of the two runners, whatever overtakes     *)
(* whatever: every batch posted is counted once with its blocks, unless    *)
(* its submission was taken for failed, and the footer's IN SYNC then      *)
(* means that every batch on L1 has been executed to its end.              *)
CountersAgree ==
    (resets = 0 /\ Reported) =>
        /\ stats.batches_submitted = Len(l1) - Cardinality(FailedButIncluded)
        /\ stats.batches_submitted <= stats.blocks_processed
        /\ (FailedButIncluded = {}) =>
              stats.blocks_processed = Cardinality(B!BlocksOf(l1))
        /\ (FailedButIncluded = {} /\ InSync) =>
              Len(executed) = Cardinality(B!BlocksOf(l1))

(* A latency sample is measured from the submission of the batch that was  *)
(* derived, as long as nothing failed: the number shown is a count.        *)
SamplesOwnBatch ==
    (lost = << >> /\ \A k \in 1..(read - 1) : l1[k].num \in recorded) =>
        \A i \in DOMAIN stats.latencies : stats.latencies[i][1] = stats.latencies[i][2]

(* What the screen shows is what the runners did.                          *)
DisplayTruthful == TypeOK /\ CountersAgree /\ SamplesOwnBatch

(* A batch whose submission failed, or whose derivation did.               *)
SomethingFailed ==
    \/ lost # << >>
    \/ \E k \in 1..read : l1[k].num \notin recorded /\ (k < read \/ dpc = "idle")

(* Every block of the chain is batched, posted and executed, unless a      *)
(* batch failed on either side or a pause reached the runners; a pause the *)
(* input loop is stuck with, or has not applied yet, stops nobody.         *)
EveryBlockExecuted ==
    []<>(\/ \A n \in 1..head : \E i \in DOMAIN executed : executed[i] = n
         \/ SomethingFailed
         \/ paused \/ dpaused)

(* The one thing that can hold up the input loop, and with it the screen   *)
(* and the quit key, is the batch task, which has its lock from run() on   *)
(* and never gives it back: short of that every `p` is applied, through    *)
(* both locks, whatever the derivation task is doing.                      *)
InputReturns == (ui # "loop") ~> (ui = "loop" \/ batchLock = "task")
=============================================================================
