-------------------------------- MODULE Tui --------------------------------
(***************************************************************************)
(* The terminal interface's state (utilities/tui, app.rs), what each event *)
(* does to it (tui.rs, process_event) and what the panels show of it (the  *)
(* draw functions).  Pure operators: the thread that owns the state and    *)
(* the senders of the events are in module Dashboard.                      *)
(*                                                                         *)
(* Of the logs, the harness panel keeps its lines (the block each is       *)
(* about), the others whether they have any.  Times, sizes, rates and      *)
(* colours are left out, and with them the statistics computed from them;  *)
(* a measured latency counts as one.  The arms of process_event for events *)
(* that nothing in the repository sends are left out.                      *)
(***************************************************************************)
EXTENDS Naturals, Sequences, SequencesExt, FiniteSets, FiniteSetsExt

CONSTANTS
    MaxLogEntries,   \* MAX_LOG_ENTRIES
    MaxSamples,      \* latencies kept
    MaxL1Blocks,     \* MAX_L1_BLOCKS
    MaxVisible,      \* L1 blocks that fit the terminal's width
    BarWidth         \* cells of the progress bar

ASSUME TuiAssumption ==
    {MaxLogEntries, MaxSamples, MaxL1Blocks, MaxVisible, BarWidth} \subseteq Nat \ {0}

Panels == {"sync", "block", "batch", "derivation", "derivation_execution", "execution", "harness"}
Sub(a, b) == IF a > b THEN a - b ELSE 0   \* saturating_sub

(* TuiEvent, the variants that are sent.                                   *)
Event ==
         [type : {"SyncStarted"}, start : Nat, target : Nat]
    \cup [type : {"SyncProgress"}, current : Nat, target : Nat]
    \cup [type : {"SyncCompleted"}, synced : Nat]
    \cup [type : {"BlockBuilt"}, number : Nat, tx_count : Nat]
    \cup [type : {"BatchSubmitted", "BatchDerived"}, batch : Nat, last : Nat]
    \cup [type : {"BlockDerived"}, number : Nat, tx_count : Nat]
    \cup [type : {"UnsafeHeadUpdated", "BlockExecuted", "L1BlockProduced"}, number : Nat]
    \cup [type : {"BacklogUpdated"}, fetched : Nat]
    \cup [type : {"ModeInfo"}, skip_sync : BOOLEAN]
    \cup [type : {"HarnessModeEnabled", "BlockBuilderInit", "SequencerInit", "ExecutionInit", "ValidatorInit"}]
    \cup [type : {"HarnessInitProgress"}, current : Nat, note : BOOLEAN]
    \cup [type : {"HarnessInitComplete"}, final : Nat]
    \cup [type : {"BatchIncludedInL1"}, l1 : Nat, batch : Nat]

(* SyncState *)
SyncIdle == [state |-> "idle", start |-> 0, current |-> 0, target |-> 0]

(* App::new *)
NewApp ==
    [unsafe_head |-> 0, safe_head |-> 0, finalized_head |-> 0,
     sync |-> SyncIdle,
     batches_submitted |-> 0, batches_derived |-> 0,
     blocks_fetched |-> 0, blocks_executed |-> 0,
     batch_submit_times |-> {}, latencies |-> 0,
     lines |-> {},             \* panels with log lines
     harness_logs |-> <<>>,
     skip_sync |-> FALSE, is_paused |-> FALSE, harness_mode |-> FALSE,
     harness_block |-> 0, harness_init_block |-> 0,
     l1_blocks |-> <<>>, l1_head |-> 0,
     submission_cursor |-> 0, origin_cursor |-> 0,   \* 0: none
     batch_to_l1_block |-> {}]                       \* pairs <<batch, L1 block>>

(* Slip: a reset keeps the submit times.                                   *)
Reset_KeepsSubmitTimes(a) ==
    [NewApp EXCEPT !.skip_sync = a.skip_sync, !.is_paused = a.is_paused,
                   !.harness_mode = a.harness_mode, !.batch_submit_times = a.batch_submit_times]

(* App::reset keeps the pause state, the mode and harness_mode.            *)
Reset(a) ==
    [NewApp EXCEPT !.skip_sync = a.skip_sync, !.is_paused = a.is_paused,
                   !.harness_mode = a.harness_mode]

TogglePause(a) == [a EXCEPT !.is_paused = ~@]
SetModeInfo(a, skip_sync) == [a EXCEPT !.skip_sync = skip_sync]

-----------------------------------------------------------------------------
(* Bounded buffers: push, then drop the oldest when too long.              *)
PushBounded(seq, x, max) == LET s == Append(seq, x) IN IF Len(s) > max THEN Tail(s) ELSE s
Sampled(n) == IF n + 1 > MaxSamples THEN n ELSE n + 1

(* log_sync, log_block, log_batch, ...: one line each.                     *)
LogTo(a, panels) == [a EXCEPT !.lines = @ \cup panels]
LogHarness(a, kind, n) ==
    [LogTo(a, {"harness"}) EXCEPT
        !.harness_logs = PushBounded(@, [kind |-> kind, n |-> n], MaxLogEntries)]

-----------------------------------------------------------------------------
(* Sync *)
StartSync(a, start, target) ==
    [a EXCEPT !.sync = [state |-> "syncing", start |-> start, current |-> start, target |-> target]]
UpdateSyncProgress(a, current, target) ==
    [a EXCEPT !.sync =
        [state |-> "syncing", start |-> IF @.state = "syncing" THEN @.start ELSE current,
         current |-> current, target |-> target]]
CompleteSync(a) == [a EXCEPT !.sync = [SyncIdle EXCEPT !.state = "completed"]]

SyncProgressPercent(s) ==
    CASE s.state = "idle" -> 0
      [] s.state = "completed" -> 100
      [] OTHER -> IF s.target <= s.start THEN 100
                  ELSE (Sub(s.current, s.start) * 100) \div (s.target - s.start)

(* Heads and counters *)
SetUnsafeHead(a, head) == [a EXCEPT !.unsafe_head = head]
SetSafeHead(a, head) == [a EXCEPT !.safe_head = head]
SetFinalizedHead(a, head) == [a EXCEPT !.finalized_head = head]
UpdateBacklog(a, fetched) == [a EXCEPT !.blocks_fetched = fetched]
RecordBlockExecuted(a, n) == [a EXCEPT !.blocks_executed = @ + 1]
BacklogSize(a) == Sub(a.blocks_fetched, a.blocks_executed)

(* Round trips: a derived batch whose submission was seen gives a latency. *)
RecordBatchSubmit(a, batch) ==
    [a EXCEPT !.batch_submit_times = @ \cup {batch}, !.batches_submitted = @ + 1]
RecordBatchDerived(a, batch) ==
    [a EXCEPT !.batch_submit_times = @ \ {batch},
              !.latencies = IF batch \in a.batch_submit_times THEN Sampled(@) ELSE @,
              !.batches_derived = @ + 1]

(* The harness panel *)
RecordHarnessBlock(a, n) == LogHarness([a EXCEPT !.harness_block = n], "block", n)
CompleteHarnessInit(a, final) == [a EXCEPT !.harness_init_block = final]
IsAfterHarnessInit(a, n) == n > a.harness_init_block

(* The L1 strip *)
PushL1(a, block) ==
    [a EXCEPT !.l1_head = block.number, !.l1_blocks = PushBounded(@, block, MaxL1Blocks)]

(* Slip: a block number that is not new is added as well.                  *)
RecordL1Block_Any(a, n) == PushL1(a, [number |-> n, batch |-> 0, origin |-> FALSE])

RecordL1Block(a, n) ==
    IF n > a.l1_head THEN PushL1(a, [number |-> n, batch |-> 0, origin |-> FALSE]) ELSE a
UpdateL1(a, n, change) ==
    [a EXCEPT !.l1_blocks = [i \in DOMAIN @ |-> IF @[i].number = n THEN change @@ @[i] ELSE @[i]]]
RecordBatchInL1Block(a, l1, batch) ==
    LET b == [a EXCEPT !.submission_cursor = l1,
                       !.batch_to_l1_block = {p \in @ : p[1] # batch} \cup {<<batch, l1>>}]
    IN  IF l1 > a.l1_head THEN PushL1(b, [number |-> l1, batch |-> batch, origin |-> FALSE])
        ELSE UpdateL1(b, l1, [batch |-> batch])
RecordBatchDerivationOrigin(a, batch) ==
    LET known == {p[2] : p \in {q \in a.batch_to_l1_block : q[1] = batch}}
    IN  IF known = {} THEN a
        ELSE LET l1 == CHOOSE l \in known : TRUE
             IN  UpdateL1([a EXCEPT !.origin_cursor = l1], l1, [origin |-> TRUE])

-----------------------------------------------------------------------------
(* process_event: the arms about the chain, the pipeline and the L1 strip, *)
(* then those about the mode and the services' start.                      *)
ChainEvent(a, e) ==
    CASE e.type = "SyncStarted" -> LogTo(StartSync(a, e.start, e.target), {"sync"})
      [] e.type = "SyncProgress" ->
            LET b == LogTo(UpdateSyncProgress(a, e.current, e.target), {"sync"})
            IN  IF b.harness_mode /\ IsAfterHarnessInit(b, e.current) /\ e.current > b.harness_block
                THEN RecordHarnessBlock(b, e.current) ELSE b
      [] e.type = "SyncCompleted" -> LogTo(CompleteSync(a), {"sync"})
      [] e.type = "BlockBuilt" ->
            LET b == LogTo(SetUnsafeHead(a, e.number), {"block"})
            IN  IF b.harness_mode /\ IsAfterHarnessInit(b, e.number) THEN RecordHarnessBlock(b, e.number) ELSE b
      [] e.type = "BatchSubmitted" ->
            LogTo(RecordBatchSubmit(SetSafeHead(a, e.last), e.batch), {"batch"})
      [] e.type = "BlockDerived" ->
            LogTo(SetFinalizedHead(a, e.number), {"derivation_execution", "derivation"})
      [] e.type = "BatchDerived" ->
            LogTo(RecordBatchDerivationOrigin(
                      RecordBatchDerived(SetFinalizedHead(a, e.last), e.batch), e.batch),
                  {"derivation"})
      [] e.type = "UnsafeHeadUpdated" -> SetUnsafeHead(a, e.number)
      [] e.type = "BlockExecuted" -> LogTo(RecordBlockExecuted(a, e.number), {"execution"})
      [] e.type = "BacklogUpdated" -> UpdateBacklog(a, e.fetched)
      [] e.type = "L1BlockProduced" -> RecordL1Block(a, e.number)
      [] e.type = "BatchIncludedInL1" -> RecordBatchInL1Block(a, e.l1, e.batch)

SetupKinds ==
    {"ModeInfo", "HarnessModeEnabled", "HarnessInitProgress", "HarnessInitComplete",
     "SequencerInit", "ValidatorInit", "ExecutionInit", "BlockBuilderInit"}
SetupEvent(a, e) ==
    CASE e.type = "ModeInfo" -> SetModeInfo(a, e.skip_sync)
      [] e.type = "HarnessModeEnabled" -> [a EXCEPT !.harness_mode = TRUE]
      [] e.type = "HarnessInitProgress" ->
            LogHarness([a EXCEPT !.harness_block = e.current], IF e.note THEN "note" ELSE "block", e.current)
      [] e.type = "HarnessInitComplete" -> CompleteHarnessInit(a, e.final)
      [] e.type = "SequencerInit" -> LogTo(a, {"batch"})
      [] e.type = "ValidatorInit" -> LogTo(a, {"derivation"})
      [] e.type = "ExecutionInit" -> LogTo(a, {"execution"})
      [] e.type = "BlockBuilderInit" -> LogTo(a, {"block"})

ProcessEvent(a, e) == IF e.type \in SetupKinds THEN SetupEvent(a, e) ELSE ChainEvent(a, e)

(* The event loop's drain: an event taken while paused is gone.            *)
Receive(a, e) == IF a.is_paused THEN a ELSE ProcessEvent(a, e)
DrainInto(a, events) == FoldLeft(Receive, a, events)

-----------------------------------------------------------------------------
(* What is drawn.                                                          *)
FilledCells(s) == (SyncProgressPercent(s) * BarWidth) \div 100
SequencerSection == {"block", "execution", "batch"}
ValidatorSection == {"derivation_execution", "derivation"}
BodyPanels(a) ==
         SequencerSection \cup ValidatorSection
    \cup (IF a.harness_mode THEN {"harness"} ELSE {})
    \cup (IF a.skip_sync THEN {} ELSE {"sync"})
HarnessActivity(a) == [title |-> a.harness_block, lines |-> Reverse(a.harness_logs)]
ChainState(a) == [unsafe |-> a.unsafe_head, safe |-> a.safe_head, finalized |-> a.finalized_head]
Footer(a) ==
    CASE a.skip_sync -> "SKIP"
      [] ~a.skip_sync /\ a.unsafe_head = a.finalized_head /\ a.unsafe_head > 0 -> "SYNC"
      [] OTHER -> "SYNCING"
MetricsStatus(a) ==
    CASE a.unsafe_head = a.finalized_head /\ a.unsafe_head > 0 -> "IN SYNC"
      [] a.unsafe_head > 0 /\ a.unsafe_head # a.finalized_head -> "behind"
      [] OTHER -> "WAITING"
SyncStatus(a) ==
    CASE a.sync.state = "idle" -> IF a.skip_sync THEN "SKIPPED" ELSE "IDLE"
      [] a.sync.state = "syncing" -> "SYNCING"
      [] OTHER -> "COMPLETE"
ExecutionStatus(a) ==
    CASE a.blocks_executed = 0 /\ a.blocks_fetched = 0 -> "WAITING"
      [] a.blocks_executed = 0 /\ a.blocks_fetched > 0 -> "STARTING"
      [] OTHER -> "RUNNING"   \* SLOW or STALLED with the time since the last block
L1Strip(a) ==
    LET n == Len(a.l1_blocks)
    IN  IF n > MaxVisible THEN SubSeq(a.l1_blocks, n - MaxVisible + 1, n) ELSE a.l1_blocks
=============================================================================
