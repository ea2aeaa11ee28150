-------------------------------- MODULE Node --------------------------------
(***************************************************************************)
(* The node's life cycle (crates/node/node/src/builder.rs), its sync stage *)
(* (crates/node/node/src/sync.rs) and the checkpoint file shared by the    *)
(* node and its roles (crates/node/checkpoint/src/lib.rs).                 *)
(*                                                                         *)
(* Three objects hold a copy of the checkpoint: the node, the sequencer    *)
(* and the validator.  All of them save to one path, which                 *)
(* crates/node/runtime/src/builder.rs gives to all three.  A process       *)
(* may die at any step; the next one starts from the file.                 *)
(*                                                                         *)
(* The roles are reduced to what they do to checkpoints and to L1: the     *)
(* sequencer submits numbered batches, the validator derives them.  What   *)
(* is in a batch is the subject of module Sequencer.  L1 belongs to the    *)
(* process (BatchContext makes it), so it starts empty.  It hands batches   *)
(* out in the order of their submission: the in-memory queue under the     *)
(* sink's numbers, Anvil, the default, under its own, from 1.              *)
(***************************************************************************)
EXTENDS Naturals, Sequences

CONSTANTS
    Sequences,      \* role.runs_sequencer()
    Validates,      \* role.runs_validator()
    SkipSyncModes,  \* values of --skip-sync the starts may use
    SyncThreshold,  \* SyncConfig::sync_threshold
    BlocksPerTick,  \* SyncConfig::blocks_per_tick
    MaxPerTick,     \* MAX_BATCHES_PER_TICK of the validator
    MaxTip,         \* bound: last block of the L2 chain
    MaxStarts,      \* bound: starts of the process
    MayFail,        \* may the process die, a step or the L1 source fail
    ProducerLags,   \* may the RPC miss a block below the tip
    MayMessage,     \* is the shutdown channel used
    SourceModes     \* values of renumbers: is L1 Anvil's

ASSUME RoleAssumption ==
    /\ Sequences \in BOOLEAN
    /\ Validates \in BOOLEAN
    /\ SkipSyncModes \subseteq BOOLEAN
    /\ MayFail \in BOOLEAN
    /\ ProducerLags \in BOOLEAN
    /\ MayMessage \in BOOLEAN
    /\ SourceModes \subseteq BOOLEAN

ASSUME BoundAssumption ==
    /\ SyncThreshold \in Nat
    /\ BlocksPerTick \in Nat \ {0}
    /\ MaxPerTick \in Nat \ {0}
    /\ MaxTip \in Nat
    /\ MaxStarts \in Nat

VARIABLES
    state,      \* NodeState, "down" when no process runs
    pc,         \* where run() is
    skipSync,   \* config.skip_sync of this process
    nodeCp,     \* Node::checkpoint
    seqCp,      \* Sequencer::checkpoint
    valCp,      \* Validator::checkpoint
    file,       \* the checkpoint file
    current,    \* SyncStage::current_block
    target,     \* SyncStage::target_block
    feeding,    \* does the sequencer's block channel have a sender
    feed,       \* batches there were blocks for when the sender was dropped
    hole,       \* the preparation of batch number next failed
    next,       \* the sequencer's next_submission_number
    l1,         \* batches on L1 the validator has not fetched
    renumbers,  \* L1 is Anvil's (the mode of every start is the same)
    given,      \* AnvilBatchSource::next_batch_number
    fetched,    \* batches the validator fetched in this tick
    tip,        \* tip of the L2 chain
    message,    \* the shutdown channel holds a message
    flag,       \* the global shutdown flag (Ctrl+C, TUI exit)
    derived,    \* history: batches some process derived
    kept,       \* history: batches submitted and derived, as far as the
                \*   file did not forget them since
    got,        \* history: blocks some process's sync stage fetched
    starts      \* history: processes started

feedVars == <<feeding, feed, hole>>
sourceVars == <<l1, renumbers, given, fetched>>
roleVars == <<seqCp, valCp, next, feedVars, sourceVars, derived, kept>>
syncVars == <<current, target, got>>
stopVars == <<message, flag>>
vars == <<state, pc, skipSync, nodeCp, roleVars, file, syncVars, tip, stopVars,
          starts>>

Checkpoint == [submitted : Nat, derived : Nat, executed : Nat, synced : Nat]

Default == [submitted |-> 0, derived |-> 0, executed |-> 0, synced |-> 0]

Nothing == [submitted |-> 0, derived |-> 0]

States == {"down", "starting", "syncing", "active", "stopping", "stopped"}

PCs == {"run", "check", "tick", "resume", "sequencer", "drain", "validator",
        "save"}

-----------------------------------------------------------------------------
(* Checkpoint: a recorded value never decreases.                           *)

Largest(a, b) == IF a > b THEN a ELSE b

RecordBatchSubmitted(cp, n) == [cp EXCEPT !.submitted = Largest(cp.submitted, n)]

RecordBatchDerived(cp, n) == [cp EXCEPT !.derived = Largest(cp.derived, n)]

RecordBlockExecuted(cp, n) == [cp EXCEPT !.executed = Largest(cp.executed, n)]

RecordSyncProgress(cp, n) == [cp EXCEPT !.synced = Largest(cp.synced, n)]

(* Checkpoint::load; before the first save the file is as good as Default. *)
Load == file

(* Checkpoint::save writes a temporary file and renames it: one step.      *)
Save(cp) == file' = cp

ShouldSkipBatch(cp, n) == cp.submitted # 0 /\ n <= cp.submitted

-----------------------------------------------------------------------------
Init ==
    /\ state = "down"
    /\ pc = "run"
    /\ skipSync \in SkipSyncModes
    /\ nodeCp = Default
    /\ seqCp = Default
    /\ valCp = Default
    /\ file = Default
    /\ current = 0
    /\ target = 0
    /\ got = {}
    /\ feeding = FALSE
    /\ feed = 0
    /\ hole = FALSE
    /\ next = 1
    /\ l1 = << >>
    /\ renumbers \in SourceModes
    /\ given = 1
    /\ fetched = 0
    /\ derived = {}
    /\ kept = Nothing
    /\ tip = 0
    /\ message = FALSE
    /\ flag = FALSE
    /\ starts = 0

(* A process starts: the node and both roles load the file.  The feeder    *)
(* runs only with --skip-sync: otherwise the channel's sender is dropped   *)
(* when the node has been built.                                           *)
Start ==
    /\ state \in {"down", "stopped"}
    /\ starts < MaxStarts
    /\ starts' = starts + 1
    /\ state' = "starting"
    /\ pc' = "run"
    /\ skipSync' \in SkipSyncModes
    /\ nodeCp' = Load
    /\ seqCp' = Load
    /\ valCp' = Load
    /\ feeding' = skipSync'
    /\ feed' = 0
    /\ hole' = FALSE
    /\ next' = 1
    /\ l1' = << >>
    /\ given' = 1
    /\ fetched' = 0
    /\ current' = 0
    /\ target' = 0
    /\ message' = FALSE
    /\ flag' = FALSE
    /\ UNCHANGED <<renumbers, derived, kept, got, file, tip>>

(* The process dies, or an error makes run() return without saving: what   *)
(* the file does not hold now is forgotten.                                *)
Crash ==
    /\ MayFail
    /\ state \notin {"down", "stopped"}
    /\ state' = "down"
    /\ kept' = [submitted |-> file.submitted, derived |-> file.derived]
    /\ UNCHANGED <<pc, skipSync, nodeCp, seqCp, valCp, next, feedVars, sourceVars,
                   derived, file, syncVars, tip, stopVars, starts>>

ChainGrows ==
    /\ tip < MaxTip
    /\ tip' = tip + 1
    /\ UNCHANGED <<state, pc, skipSync, nodeCp, roleVars, file, syncVars,
                   stopVars, starts>>

(* A message on the channel shutdown_handle() returns; its capacity is 1.  *)
SendShutdown ==
    /\ MayMessage
    /\ state \in {"starting", "syncing", "active"}
    /\ ~message
    /\ message' = TRUE
    /\ UNCHANGED <<state, pc, skipSync, nodeCp, roleVars, file, syncVars, tip,
                   flag, starts>>

RequestShutdown ==
    /\ state \in {"starting", "syncing", "active"}
    /\ ~flag
    /\ flag' = TRUE
    /\ UNCHANGED <<state, pc, skipSync, nodeCp, roleVars, file, syncVars, tip,
                   message, starts>>

-----------------------------------------------------------------------------
(* run() and run_sync_stage().                                             *)

(* Slip: only the channel is looked at.                                    *)
ShutdownRequested_ChannelOnly == message

ShutdownRequested == message \/ flag

(* SyncStage::initialize: from the checkpoint to the tip of the moment.     *)
Initialize(start) == current' = start /\ target' = tip

RunSync ==
    /\ state = "starting"
    /\ ~skipSync
    /\ Initialize(nodeCp.synced)
    /\ state' = "syncing"
    /\ pc' = "check"
    /\ UNCHANGED <<skipSync, nodeCp, roleVars, file, got, tip, stopVars, starts>>

RunSkipSync ==
    /\ state = "starting"
    /\ skipSync
    /\ pc # "resume"
    /\ pc' = "resume"
    /\ UNCHANGED <<state, skipSync, nodeCp, roleVars, file, syncVars, tip,
                   stopVars, starts>>

(* try_recv takes the message; the sync stage returns Ok and run() goes on *)
(* to the active stage.                                                    *)
SyncShutdown ==
    /\ state = "syncing"
    /\ pc = "check"
    /\ ShutdownRequested
    /\ message' = FALSE
    /\ pc' = "resume"
    /\ UNCHANGED <<state, skipSync, nodeCp, roleVars, file, syncVars, tip,
                   flag, starts>>

SyncContinue ==
    /\ state = "syncing"
    /\ pc = "check"
    /\ ~ShutdownRequested
    /\ pc' = "tick"
    /\ UNCHANGED <<state, skipSync, nodeCp, roleVars, file, syncVars, tip,
                   stopVars, starts>>

IsSynced(cur, tgt) == cur + SyncThreshold >= tgt

(* The tip may be refreshed before the stage decides what to do.           *)
Targets == {target, tip}

(* SyncStage::checkpoint: the stage knows nothing of the roles' progress,  *)
(* and takes the blocks it fetched for executed.                           *)
SyncCheckpoint == [Default EXCEPT !.executed = current, !.synced = current]

SyncComplete ==
    /\ state = "syncing"
    /\ pc = "tick"
    /\ target' \in Targets
    /\ IsSynced(current, target')
    /\ nodeCp' = SyncCheckpoint
    /\ Save(nodeCp')
    /\ kept' = Nothing
    /\ pc' = "resume"
    /\ UNCHANGED <<state, skipSync, seqCp, valCp, next, feedVars, sourceVars,
                   derived, current, got, tip, stopVars, starts>>

(* Slip: the block the producer did not have is counted.                   *)
Reached_CountsMiss(n) == current + n + 1

(* current_block after n blocks of a tick.                                 *)
Reached(n) == current + n

(* Up to blocks_per_tick blocks, fewer when synced before or when the      *)
(* producer has no block; then maybe_save_checkpoint, then the progress is *)
(* recorded in memory.                                                     *)
SyncBlocks ==
    /\ state = "syncing"
    /\ pc = "tick"
    /\ target' \in Targets
    /\ ~IsSynced(current, target')
    /\ LET missing == target' - SyncThreshold - current
           most == IF missing < BlocksPerTick THEN missing ELSE BlocksPerTick
       IN  \E n \in IF ProducerLags THEN 0..most ELSE {most} :
             /\ current' = Reached(n)
             /\ got' = got \union (current + 1)..(current + n)
             /\ nodeCp' = RecordSyncProgress(nodeCp, current')
    /\ Save(nodeCp) \/ UNCHANGED file
    /\ pc' = "check"
    /\ UNCHANGED <<state, skipSync, roleVars, tip, stopVars, starts>>

(* Each role's resume() replaces its checkpoint by the node's.             *)
ResumeSequencer == seqCp' = IF Sequences THEN nodeCp ELSE seqCp
ResumeValidator == valCp' = IF Validates THEN nodeCp ELSE valCp

Resume ==
    /\ state \in {"starting", "syncing"}
    /\ pc = "resume"
    /\ state' = "active"
    /\ ResumeSequencer /\ ResumeValidator
    /\ pc' = "check"
    /\ UNCHANGED <<skipSync, nodeCp, next, feedVars, sourceVars, derived, kept,
                   file, syncVars, tip, stopVars, starts>>

-----------------------------------------------------------------------------
(* run_active_stage().                                                     *)

ActiveShutdown ==
    /\ state = "active"
    /\ pc = "check"
    /\ ShutdownRequested
    /\ message' = FALSE
    /\ state' = "stopping"
    /\ UNCHANGED <<pc, skipSync, nodeCp, roleVars, file, syncVars, tip, flag,
                   starts>>

ActiveContinue ==
    /\ state = "active"
    /\ pc = "check"
    /\ ~ShutdownRequested
    /\ pc' = "sequencer"
    /\ UNCHANGED <<state, skipSync, nodeCp, roleVars, file, syncVars, tip,
                   stopVars, starts>>

(* The feeder ends with an error, which a tick notices when it begins; any *)
(* number of blocks below the tip may not have been sent.                  *)
FeederEnds ==
    /\ MayFail
    /\ state = "active" /\ pc = "check"
    /\ feeding
    /\ feeding' = FALSE
    /\ feed' \in {n \in 0..tip : next <= n + 1}
    /\ UNCHANGED <<state, pc, skipSync, nodeCp, seqCp, valCp, next, hole,
                   sourceVars, derived, kept, file, syncVars, tip, stopVars,
                   starts>>

(* Batches there are blocks for, one per block at most.                    *)
Fed == IF feeding THEN tip ELSE feed

(* submit_ready_batches: a prepared batch has the number to be submitted.  *)
BatchReady ==
    /\ state = "active" /\ pc = "sequencer"
    /\ Sequences
    /\ next <= Fed
    /\ ~hole

SequencerSkips ==
    /\ BatchReady
    /\ ShouldSkipBatch(seqCp, next)
    /\ next' = next + 1
    /\ UNCHANGED <<state, pc, skipSync, nodeCp, seqCp, valCp, feedVars, sourceVars,
                   derived, kept, file, syncVars, tip, stopVars, starts>>

SequencerSubmits ==
    /\ BatchReady
    /\ ~ShouldSkipBatch(seqCp, next)
    /\ l1' = Append(l1, next)
    /\ seqCp' = RecordBatchSubmitted(seqCp, next)
    /\ Save(seqCp')
    /\ kept' = [kept EXCEPT !.submitted = Largest(kept.submitted, next)]
    /\ next' = next + 1
    /\ UNCHANGED <<state, pc, skipSync, nodeCp, valCp, feedVars, renumbers, given,
                   fetched, derived, syncVars, tip, stopVars, starts>>

(* A preparation fails: its number is never submitted, nor a later one.    *)
PreparationFails ==
    /\ MayFail
    /\ BatchReady
    /\ hole' = TRUE
    /\ UNCHANGED <<state, pc, skipSync, nodeCp, seqCp, valCp, next, feeding, feed,
                   sourceVars, derived, kept, file, syncVars, tip, stopVars,
                   starts>>

(* Without a sender tick() drains: a batch ready behind the failed one     *)
(* keeps its loop going for ever, and the loop looks at nothing else.      *)
SequencerSpins ==
    /\ state = "active" /\ pc = "sequencer"
    /\ Sequences
    /\ ~feeding /\ hole /\ next < feed
    /\ pc' = "drain"
    /\ UNCHANGED <<state, skipSync, nodeCp, roleVars, file, syncVars, tip,
                   stopVars, starts>>

(* sequencer.tick() returns; the node takes over what the role reports.    *)
SequencerTicked ==
    /\ state = "active" /\ pc = "sequencer"
    /\ Sequences => feeding \/ hole \/ feed < next
    /\ nodeCp' = IF Sequences
                 THEN RecordBlockExecuted(
                        RecordBatchSubmitted(nodeCp, seqCp.submitted),
                        seqCp.executed)
                 ELSE nodeCp
    /\ fetched' = 0
    /\ pc' = "validator"
    /\ UNCHANGED <<state, skipSync, seqCp, valCp, next, feedVars, l1, renumbers,
                   given, derived, kept, file, syncVars, tip, stopVars, starts>>

(* Slip: a batch too many is skipped.                                      *)
AlreadyDerived_Above(n) == n <= valCp.derived + 1

MoreBatches == fetched < MaxPerTick

AlreadyDerived(n) == n <= valCp.derived

(* The number under which the source hands the next batch out.             *)
SourceNumber == IF renumbers THEN given ELSE Head(l1)

ValidatorFetches ==
    /\ state = "active" /\ pc = "validator"
    /\ Validates
    /\ l1 # << >>
    /\ MoreBatches
    /\ fetched' = fetched + 1
    /\ l1' = Tail(l1)
    /\ given' = given + 1

ValidatorSkips ==
    /\ ValidatorFetches
    /\ AlreadyDerived(SourceNumber)
    /\ UNCHANGED <<state, pc, skipSync, nodeCp, seqCp, valCp, next, feedVars,
                   renumbers, derived, kept, file, syncVars, tip, stopVars,
                   starts>>

ValidatorDerives ==
    /\ ValidatorFetches
    /\ ~AlreadyDerived(SourceNumber)
    /\ valCp' = RecordBatchDerived(valCp, SourceNumber)
    /\ Save(valCp')
    /\ derived' = derived \union {Head(l1)}
    /\ kept' = [kept EXCEPT !.derived = Largest(kept.derived, SourceNumber)]
    /\ UNCHANGED <<state, pc, skipSync, nodeCp, seqCp, next, feedVars, renumbers,
                   syncVars, tip, stopVars, starts>>

(* The loop ends with the queue empty, at its limit, or at the first error *)
(* of the source.                                                          *)
ValidatorTicked ==
    /\ state = "active" /\ pc = "validator"
    /\ Validates => l1 = << >> \/ ~MoreBatches \/ MayFail
    /\ nodeCp' = IF Validates
                 THEN RecordBlockExecuted(
                        RecordBatchDerived(nodeCp, valCp.derived),
                        valCp.executed)
                 ELSE nodeCp
    /\ pc' = "save"
    /\ UNCHANGED <<state, skipSync, roleVars, file, syncVars, tip, stopVars,
                   starts>>

MaybeSave ==
    /\ state = "active" /\ pc = "save"
    /\ Save(nodeCp) \/ UNCHANGED file
    /\ pc' = "check"
    /\ UNCHANGED <<state, skipSync, nodeCp, roleVars, syncVars, tip, stopVars,
                   starts>>

(* Slip: the copy of one role is taken for the node's.                     *)
FinalCheckpoint_Role == seqCp

FinalCheckpoint == nodeCp

Stop ==
    /\ state = "stopping"
    /\ Save(FinalCheckpoint)
    /\ state' = "stopped"
    /\ UNCHANGED <<pc, skipSync, nodeCp, roleVars, syncVars, tip, stopVars,
                   starts>>

-----------------------------------------------------------------------------
SyncStep   == RunSync \/ SyncShutdown \/ SyncContinue \/ SyncComplete \/ SyncBlocks
ActiveStep == \/ ActiveShutdown \/ ActiveContinue
              \/ SequencerSkips \/ SequencerSubmits \/ SequencerSpins
              \/ SequencerTicked
              \/ ValidatorSkips \/ ValidatorDerives \/ ValidatorTicked \/ MaybeSave

(* The steps of run().                                                     *)
NodeStep == SyncStep \/ RunSkipSync \/ Resume \/ ActiveStep \/ Stop

Environment == \/ Start \/ Crash \/ ChainGrows \/ SendShutdown \/ RequestShutdown
               \/ FeederEnds \/ PreparationFails

Next == NodeStep \/ Environment

Spec == Init /\ [][Next]_vars

(* run() is polled until it returns; a role's tick() takes finitely many   *)
(* batches, since the chain is bounded, and ends unless its drain spins.   *)
FairSpec == Spec /\ WF_vars(NodeStep)

-----------------------------------------------------------------------------
(* Properties.                                                             *)

(* Every variable keeps its type.                                          *)
TypeOK ==
    /\ state \in States
    /\ pc \in PCs
    /\ skipSync \in SkipSyncModes
    /\ nodeCp \in Checkpoint
    /\ seqCp \in Checkpoint
    /\ valCp \in Checkpoint
    /\ file \in Checkpoint
    /\ current \in Nat
    /\ target \in Nat
    /\ got \subseteq Nat
    /\ feeding \in BOOLEAN
    /\ feed \in Nat
    /\ hole \in BOOLEAN
    /\ next \in Nat \ {0}
    /\ l1 \in Seq(Nat \ {0})
    /\ renumbers \in SourceModes
    /\ given \in Nat \ {0}
    /\ fetched \in 0..MaxPerTick
    /\ derived \subseteq Nat \ {0}
    /\ kept \in [submitted : Nat, derived : Nat]
    /\ tip \in 0..MaxTip
    /\ message \in BOOLEAN
    /\ flag \in BOOLEAN
    /\ starts \in 0..MaxStarts

(* A node that stopped cleanly has left in the file every batch submitted  *)
(* and derived, by its process or an earlier one, that the file did not    *)
(* forget, although three copies were saved over one another meanwhile.    *)
StoppedFileComplete ==
    state = "stopped" =>
        /\ Sequences => file.submitted = kept.submitted
        /\ Validates => file.derived = kept.derived

(* The file never names a batch that was not submitted or not derived.     *)
NeverAhead ==
    /\ file.submitted <= kept.submitted
    /\ file.derived <= kept.derived

(* A role's save writes the other role's old number back, and no save does *)
(* so to both: one of the two is right at any moment, so that a crash      *)
(* makes the file forget about one of the roles at most.                   *)
OneIsRight ==
    \/ file.submitted = kept.submitted
    \/ file.derived = kept.derived

(* What the checkpoint file, written by the node and by both roles, is     *)
(* good for.  It forgets in two ways only: a sync stage that completes     *)
(* sets both numbers to zero (builder.rs:479), and a crash leaves it as    *)
(* the last save made it, with one of the two behind.  All else that any   *)
(* process achieved is in it after a clean stop.                           *)
FileTruthful == TypeOK /\ StoppedFileComplete /\ NeverAhead /\ OneIsRight

(* The sync stage goes on where an earlier process was, over crashes, late *)
(* saves and roles that write their copies back: every block up to the one *)
(* the file names was fetched, none is named executed that is not named    *)
(* synced, and a clean stop keeps all that this process fetched.           *)
SyncedWasFetched ==
    /\ 1..file.synced \subseteq got
    /\ file.executed <= file.synced
    /\ state = "stopped" => current <= file.synced

(* A batch process_batch skips as already derived was derived, by this     *)
(* process or an earlier one, over crashes and stale saves; unless Anvil's *)
(* source gave it a smaller number than the sequencer did, which it does   *)
(* as soon as the sequencer skips a batch of its own.                      *)
SkipsOnlyDerived ==
    [][ValidatorSkips => \/ Head(l1) \in derived
                         \/ renumbers /\ given < Head(l1)]_vars

(* The drain loop of a tick waits for a batch that was never prepared.     *)
Spins ==
    /\ state = "active" /\ pc = "drain"
    /\ hole /\ ~feeding /\ next < feed

(* A process stops that is asked to through the global flag, in any stage, *)
(* or by a message that is in the channel in the active stage; only the    *)
(* sequencer's drain loop, after a failed preparation, keeps it from it.   *)
FlagStops ==
    flag \/ (state = "active" /\ message) ~> state \in {"stopped", "down"} \/ Spins
=============================================================================
