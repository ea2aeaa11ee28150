----------------------------- MODULE Dashboard -----------------------------
(***************************************************************************)
(* The montana binary with its terminal interface: main and run_with_tui,  *)
(* the thread that draws and reads the keyboard, the node thread (test     *)
(* harness, build_node, sync stage, roles ticked in turn), the block       *)
(* feeder's thread, the harness's transaction generator, the callbacks     *)
(* that turn what they do into events, and the one channel between them.   *)
(*                                                                         *)
(* The roles are reduced to the steps that call back: module Sequencer and *)
(* module Validator have the rest.  Anvil batch mode: the L1 mines a block *)
(* for every transaction, ours and others'.  The event loop reads a key    *)
(* and empties the channel; nobody else sees App, so one iteration is one  *)
(* step.                                                                   *)
(***************************************************************************)
EXTENDS Tui

CONSTANTS
    MaxBlock,         \* bound: last L2 block fed
    MaxTip,           \* bound: chain tip the sync stage sees
    MaxBatchBlocks,   \* bound: blocks of a batch
    MaxL1,            \* bound: L1 height
    MaxQueue,         \* bound: events in the (unbounded) channel
    MaxKeys,          \* bound: pauses and resets
    InitialBlocks,    \* choices for --harness-initial-blocks
    SyncThreshold     \* --sync-threshold

ASSUME DashboardAssumption ==
    /\ {MaxBlock, MaxTip, MaxBatchBlocks, MaxL1, MaxQueue, MaxKeys, SyncThreshold} \subseteq Nat
    /\ InitialBlocks \subseteq Nat

VARIABLES
    cli,       \* [harness, skip, initial]
    shutdown,  \* SHUTDOWN_REQUESTED
    chan,      \* TuiEvents sent, not yet received
    app,       \* the TUI thread's App
    tui,       \* "running", "quit", "failed" (a terminal error)
    node,      \* the node thread: where it is
    sync,      \* SyncStage: [current, target]
    harness,   \* [made: initial blocks generated, stop: stop_signal]
    gen,       \* the generator thread
    feeder,    \* [state, next, fetched]
    given,     \* blocks handed to the sequencer
    executed,  \* blocks it executed
    posted,    \* batches on L1: a sequence of [first, last, l1]
    l1,        \* height of L1
    val,       \* validator: [head: last_l1_head, batch: batches derived, block: blocks derived]
    store,     \* BlockTxCountStore: pairs <<block, transactions>>
    exited,    \* the process has ended
    hist       \* history: [keys, discarded, reset, wrong: a tx count shown wrong]

vars == <<cli, shutdown, chan, app, tui, node, sync, harness, gen, feeder, given, executed,
          posted, l1, val, store, exited, hist>>
roles == <<given, executed, posted, l1, val, store>>

TxCount(b) == b + 1

(* TuiHandle::send: ignored once the receiver is gone.                     *)
Send(events) ==
    /\ ~exited
    /\ IF tui = "running" THEN Len(chan) < MaxQueue /\ chan' = chan \o events
       ELSE UNCHANGED chan

-----------------------------------------------------------------------------
(* main: harness mode forces --skip-sync.  run_with_tui's first events.    *)
EffectiveSkip(h, skip) == h \/ skip
FirstEvents(c) ==
    <<[type |-> "ModeInfo", skip_sync |-> c.skip]>>
        \o (IF c.harness THEN <<[type |-> "HarnessModeEnabled"]>> ELSE <<>>)

NoHistory == [keys |-> 0, discarded |-> FALSE, reset |-> FALSE, wrong |-> FALSE]

Init ==
    /\ \E h, s \in BOOLEAN, i \in InitialBlocks :
          cli = [harness |-> h, skip |-> EffectiveSkip(h, s), initial |-> i]
    /\ shutdown = FALSE
    /\ chan = FirstEvents(cli)
    /\ app = NewApp /\ tui = "running"
    /\ node = IF cli.harness THEN "harness" ELSE "build"
    /\ sync = [current |-> 0, target |-> 0]
    /\ harness = [made |-> 0, stop |-> FALSE]
    /\ gen = "off"
    /\ feeder = [state |-> "off", next |-> 0, fetched |-> 0]
    /\ given = 0 /\ executed = 0 /\ posted = <<>> /\ l1 = 0
    /\ val = [head |-> 0, batch |-> 0, block |-> 0]
    /\ store = {} /\ exited = FALSE
    /\ hist = NoHistory

-----------------------------------------------------------------------------
(* The TUI thread.                                                         *)
Iterate(a, seen) ==
    /\ tui = "running" /\ ~shutdown
    /\ app' = DrainInto(a, chan)
    /\ chan' = <<>>
    /\ hist' = [seen EXCEPT !.discarded = @ \/ (a.is_paused /\ chan # <<>>)]
    /\ UNCHANGED <<cli, shutdown, tui, node, sync, harness, gen, feeder, roles, exited>>

NoKey == chan # <<>> /\ Iterate(app, hist)
Pressed == hist.keys < MaxKeys
KeyPause == Pressed /\ ~app.is_paused /\ Iterate(TogglePause(app), [hist EXCEPT !.keys = @ + 1])
KeyResume == app.is_paused /\ Iterate(TogglePause(app), hist)
KeyReset == Pressed /\ Iterate(Reset(app), [hist EXCEPT !.keys = @ + 1, !.reset = TRUE])

(* MontanaTui::run returns: the receiver and the App are dropped.          *)
RunReturns == chan' = <<>> /\ app' = NewApp /\ hist' = NoHistory

KeyQuit ==
    /\ tui = "running" /\ ~shutdown
    /\ tui' = "quit" /\ shutdown' = TRUE
    /\ RunReturns
    /\ UNCHANGED <<cli, node, sync, harness, gen, feeder, roles, exited>>

(* SIGINT, by the handler task of main's runtime.                          *)
CtrlC ==
    /\ ~shutdown /\ ~exited
    /\ shutdown' = TRUE
    /\ UNCHANGED <<cli, chan, app, tui, node, sync, harness, gen, feeder, roles, exited, hist>>

SeesShutdown ==
    /\ tui = "running" /\ shutdown
    /\ tui' = "quit"
    /\ RunReturns
    /\ UNCHANGED <<cli, shutdown, node, sync, harness, gen, feeder, roles, exited>>

TerminalFails ==
    /\ tui = "running" /\ ~shutdown
    /\ tui' = "failed"
    /\ RunReturns
    /\ UNCHANGED <<cli, shutdown, node, sync, harness, gen, feeder, roles, exited>>

(* run_with_tui joins the node thread, then main returns.                  *)
Join ==
    /\ tui # "running" /\ node = "ended" /\ ~exited
    /\ exited' = TRUE
    /\ UNCHANGED <<cli, shutdown, chan, app, tui, node, sync, harness, gen, feeder, roles, hist>>

-----------------------------------------------------------------------------
(* The node thread: the harness.                                           *)
Progress(current, note) == [type |-> "HarnessInitProgress", current |-> current, note |-> note]

(* report_started, anvil spawned, "Anvil started", "Generating ...".       *)
HarnessStart ==
    /\ node = "harness"
    /\ Send(<<Progress(0, TRUE), Progress(0, TRUE)>>
                \o (IF cli.initial > 0 THEN <<Progress(0, TRUE)>> ELSE <<>>))
    /\ node' = "initial"
    /\ UNCHANGED <<cli, shutdown, app, tui, sync, harness, gen, feeder, roles, exited, hist>>

InitialBlock ==
    /\ node = "initial" /\ harness.made < cli.initial
    /\ Send(<<Progress(harness.made + 1, FALSE)>>)
    /\ harness' = [harness EXCEPT !.made = @ + 1]
    /\ UNCHANGED <<cli, shutdown, app, tui, node, sync, gen, feeder, roles, exited, hist>>

(* Anvil missing, or a transaction rejected: spawn_with_progress returns an *)
(* error and the node thread ends.                                         *)
HarnessFails ==
    /\ node \in {"harness", "initial"} /\ ~exited
    /\ node' = "ended"
    /\ UNCHANGED <<cli, shutdown, chan, app, tui, sync, harness, gen, feeder, roles, exited, hist>>

HarnessReady ==
    /\ node = "initial" /\ harness.made = cli.initial
    /\ Send(IF cli.initial > 0
            THEN <<Progress(cli.initial, TRUE), [type |-> "HarnessInitComplete", final |-> cli.initial]>>
            ELSE <<>>)
    /\ gen' = "running"
    /\ node' = "build"
    /\ UNCHANGED <<cli, shutdown, app, tui, sync, harness, feeder, roles, exited, hist>>

(* The generator's loop sends transfers, backs off after many errors, and  *)
(* looks at the stop signal once per round; nothing it sends matters here. *)
(* One that cannot connect ends at once, which nobody notices.             *)
GenStops ==
    /\ gen = "running" /\ harness.stop
    /\ gen' = "stopped"
    /\ UNCHANGED <<cli, shutdown, chan, app, tui, node, sync, harness, feeder, roles, exited, hist>>

-----------------------------------------------------------------------------
(* build_node: the feeder's thread or the sync stage, and the init events. *)
BuildNode ==
    /\ node = "build"
    /\ Send((IF cli.skip THEN <<[type |-> "BlockBuilderInit"]>> ELSE <<>>)
              \o <<[type |-> "SequencerInit"],
                   [type |-> "ExecutionInit"],
                   [type |-> "ValidatorInit"]>>)
    /\ node' = IF cli.skip THEN "check" ELSE "startsync"
    /\ feeder' = [feeder EXCEPT !.state = IF cli.skip THEN "fetch" ELSE "off"]
    /\ UNCHANGED <<cli, shutdown, app, tui, sync, harness, gen, roles, exited, hist>>

(* TuiObserver::on_event, for the events the node emits: the state changes *)
(* and the checkpoint saves are not forwarded.                             *)
Forwarded == {"SyncStarted", "SyncProgress", "SyncCompleted"}
OnEvent(events) == SelectSeq(events, LAMBDA e : e.type \in Forwarded)
StateChanged == [type |-> "StateChanged"]

(* run_sync_stage *)
IsSynced(s) == s.current + SyncThreshold >= s.target
SyncStart ==
    /\ node = "startsync"
    /\ \E tip \in 0..MaxTip :
          /\ sync' = [current |-> 0, target |-> tip]
          /\ Send(OnEvent(<<[type |-> "SyncStarted", start |-> 0, target |-> tip], StateChanged>>))
    /\ node' = "sync"
    /\ UNCHANGED <<cli, shutdown, app, tui, harness, gen, feeder, roles, exited, hist>>

SyncTick ==
    /\ node = "sync" /\ ~shutdown
    /\ \E tip \in sync.target..MaxTip :   \* refreshed now and then
          LET s == [sync EXCEPT !.target = tip]
          IN  /\ ~IsSynced(s)
              /\ \E n \in s.current..(s.target - SyncThreshold) :
                    /\ sync' = [s EXCEPT !.current = n]
                    /\ Send(OnEvent(<<StateChanged, [type |-> "SyncProgress", current |-> n, target |-> tip]>>))
    /\ UNCHANGED <<cli, shutdown, app, tui, node, harness, gen, feeder, roles, exited, hist>>

SyncDone ==
    /\ node = "sync" /\ ~shutdown /\ IsSynced(sync)
    /\ Send(OnEvent(<<[type |-> "SyncCompleted", synced |-> sync.current],
                      [type |-> "CheckpointSaved"], StateChanged>>))
    /\ node' = "check"
    /\ UNCHANGED <<cli, shutdown, app, tui, sync, harness, gen, feeder, roles, exited, hist>>

-----------------------------------------------------------------------------
(* The active stage: shutdown check, the sequencer's tick (ready batches   *)
(* first, then blocks), the validator's.                                   *)
NodeEnds(why) ==
    /\ why
    /\ node' = "ended"
    /\ harness' = [harness EXCEPT !.stop = cli.harness]   \* drop(harness)
    /\ UNCHANGED <<cli, shutdown, chan, app, tui, sync, gen, feeder, roles, exited, hist>>

(* Slip: only the active stage looks at the flag.                          *)
NodeStops_Active == NodeEnds(node = "check" /\ shutdown)
NodeStops == NodeEnds(node \in {"sync", "check"} /\ shutdown)
NodeErrs == NodeEnds(node \in {"build", "startsync", "sync", "submit", "derive"})

Check ==
    /\ node = "check" /\ ~shutdown
    /\ node' = "submit"
    /\ UNCHANGED <<cli, shutdown, chan, app, tui, sync, harness, gen, feeder, roles, exited, hist>>

Batched == IF posted = <<>> THEN 0 ELSE Last(posted).last
Post(last) ==
    /\ l1 < MaxL1
    /\ l1' = l1 + 1
    /\ posted' = Append(posted, [first |-> Batched + 1, last |-> last, l1 |-> l1 + 1])

(* submit_prepared_batch: the sink, the checkpoint, then TuiBatchCallback. *)
(* Blocks are counted from 1 here: block number b is the (b + 1)th.        *)
Counts(first, last) == {<<b - 1, TxCount(b - 1)>> : b \in first..last}
SubmitBatch ==
    /\ node = "submit"
    /\ \E last \in (Batched + 1)..executed :
          /\ last - Batched <= MaxBatchBlocks
          /\ Post(last)
          /\ Send(<<[type |-> "BatchSubmitted", batch |-> Len(posted) + 1, last |-> last - 1],
                    [type |-> "BatchIncludedInL1", l1 |-> l1 + 1, batch |-> Len(posted) + 1]>>)
          /\ store' = store \cup Counts(Batched + 1, last)
    /\ UNCHANGED <<cli, shutdown, app, tui, node, sync, harness, gen, feeder, given, executed, val, exited, hist>>

(* The batch is on L1 and the checkpoint cannot be saved: no callback.     *)
SubmitUnsaved ==
    /\ node = "submit" /\ ~cli.harness
    /\ \E last \in (Batched + 1)..executed : last - Batched <= MaxBatchBlocks /\ Post(last)
    /\ node' = "ended"
    /\ UNCHANGED <<cli, shutdown, chan, app, tui, sync, harness, gen, feeder, given, executed, val, store, exited, hist>>

SubmitDone ==
    /\ node = "submit"
    /\ node' = "execute"
    /\ UNCHANGED <<cli, shutdown, chan, app, tui, sync, harness, gen, feeder, roles, exited, hist>>

ExecuteBlock ==
    /\ node = "execute" /\ executed < given
    /\ Send(<<[type |-> "BlockExecuted", number |-> executed]>>)
    /\ executed' = executed + 1
    /\ UNCHANGED <<cli, shutdown, app, tui, node, sync, harness, gen, feeder, given, posted, l1, val, store, exited, hist>>

(* No more blocks in the channel; the validator's tick starts with L1's    *)
(* head.                                                                   *)
ExecuteDone ==
    /\ node = "execute" /\ executed = given
    /\ Send([i \in 1..(l1 - val.head) |-> [type |-> "L1BlockProduced", number |-> val.head + i]])
    /\ val' = [val EXCEPT !.head = l1]
    /\ node' = "derive"
    /\ UNCHANGED <<cli, shutdown, app, tui, sync, harness, gen, feeder, given, executed, posted, l1, store, exited, hist>>

(* process_batch: TuiDerivationCallback for every block, then the batch.   *)
InHand == val.batch < Len(posted)
DeriveBlock ==
    /\ node = "derive" /\ InHand /\ val.block < posted[val.batch + 1].last
    /\ LET b == val.block
           known == {p[2] : p \in {q \in store : q[1] = b}}
           count == IF known = {} THEN 0 ELSE CHOOSE c \in known : TRUE
       IN  /\ Send(<<[type |-> "BlockDerived", number |-> b, tx_count |-> count]>>)
           /\ store' = {p \in store : p[1] # b}
           /\ hist' = [hist EXCEPT !.wrong = @ \/ count # TxCount(b)]
    /\ val' = [val EXCEPT !.block = @ + 1]
    /\ UNCHANGED <<cli, shutdown, app, tui, node, sync, harness, gen, feeder, given, executed, posted, l1, exited>>

(* Slip: the exclusive end of the batch is reported.                       *)
DeriveBatch_PastEnd ==
    /\ node = "derive" /\ InHand /\ val.block = posted[val.batch + 1].last
    /\ Send(<<[type |-> "BatchDerived", batch |-> val.batch + 1, last |-> posted[val.batch + 1].last]>>)
    /\ val' = [val EXCEPT !.batch = @ + 1]
    /\ UNCHANGED <<cli, shutdown, app, tui, node, sync, harness, gen, feeder, given, executed, posted, l1, store, exited, hist>>

DeriveBatch ==
    /\ node = "derive" /\ InHand /\ val.block = posted[val.batch + 1].last
    /\ Send(<<[type |-> "BatchDerived", batch |-> val.batch + 1, last |-> posted[val.batch + 1].last - 1]>>)
    /\ val' = [val EXCEPT !.batch = @ + 1]
    /\ UNCHANGED <<cli, shutdown, app, tui, node, sync, harness, gen, feeder, given, executed, posted, l1, store, exited, hist>>

DeriveDone ==
    /\ node = "derive" /\ ~InHand
    /\ node' = "check"
    /\ UNCHANGED <<cli, shutdown, chan, app, tui, sync, harness, gen, feeder, roles, exited, hist>>

L1Mines ==
    /\ l1 < MaxL1 /\ ~exited
    /\ l1' = l1 + 1
    /\ UNCHANGED <<cli, shutdown, chan, app, tui, node, sync, harness, gen, feeder, given, executed, posted, val, store, exited, hist>>

-----------------------------------------------------------------------------
(* run_block_feeder, on its own thread.                                    *)
FeederAnnounce ==
    /\ feeder.state = "fetch" /\ feeder.next <= MaxBlock
    /\ Send(<<[type |-> "BlockBuilt", number |-> feeder.next, tx_count |-> TxCount(feeder.next)],
              [type |-> "UnsafeHeadUpdated", number |-> feeder.next]>>)
    /\ feeder' = [feeder EXCEPT !.state = "send"]
    /\ UNCHANGED <<cli, shutdown, app, tui, node, sync, harness, gen, roles, exited, hist>>

FeederSend ==
    /\ feeder.state = "send" /\ node # "ended" /\ ~exited
    /\ given' = given + 1
    /\ feeder' = [feeder EXCEPT !.state = "backlog", !.fetched = @ + 1]
    /\ UNCHANGED <<cli, shutdown, chan, app, tui, node, sync, harness, gen, executed, posted, l1, val, store, exited, hist>>

FeederBacklog ==
    /\ feeder.state = "backlog"
    /\ Send(<<[type |-> "BacklogUpdated", fetched |-> feeder.fetched]>>)
    /\ feeder' = [feeder EXCEPT !.state = "fetch", !.next = @ + 1]
    /\ UNCHANGED <<cli, shutdown, app, tui, node, sync, harness, gen, roles, exited, hist>>

(* The receiver is gone, or the RPC fails.                                 *)
FeederStops ==
    /\ ~exited
    /\ \/ feeder.state = "send" /\ node = "ended"
       \/ feeder.state = "fetch"
    /\ feeder' = [feeder EXCEPT !.state = "off"]
    /\ UNCHANGED <<cli, shutdown, chan, app, tui, node, sync, harness, gen, roles, exited, hist>>

-----------------------------------------------------------------------------
Keys == NoKey \/ KeyPause \/ KeyResume \/ KeyReset \/ KeyQuit
TuiThread == Keys \/ SeesShutdown \/ TerminalFails
HarnessSteps == HarnessStart \/ InitialBlock \/ HarnessFails \/ HarnessReady
SyncSteps == SyncStart \/ SyncTick \/ SyncDone
RoleSteps ==
    \/ Check \/ SubmitBatch \/ SubmitUnsaved \/ SubmitDone \/ ExecuteBlock \/ ExecuteDone
    \/ DeriveBlock \/ DeriveBatch \/ DeriveDone
NodeThread == HarnessSteps \/ BuildNode \/ SyncSteps \/ RoleSteps \/ NodeStops \/ NodeErrs
FeederThread == FeederAnnounce \/ FeederSend \/ FeederBacklog \/ FeederStops

Next == TuiThread \/ NodeThread \/ FeederThread \/ GenStops \/ CtrlC \/ Join \/ L1Mines
Spec == Init /\ [][Next]_vars

(* Threads run, and what the node thread awaits (RPC answers, timers) ends. *)
(* Nobody need press a key or send a signal, and nothing need fail.        *)
NodeRuns ==
    \/ HarnessStart \/ InitialBlock \/ HarnessReady \/ BuildNode \/ SyncSteps
    \/ Check \/ SubmitBatch \/ SubmitDone \/ ExecuteBlock \/ ExecuteDone
    \/ DeriveBlock \/ DeriveBatch \/ DeriveDone \/ NodeStops
FairSpec ==
    /\ Spec
    /\ WF_vars(NoKey \/ SeesShutdown) /\ WF_vars(NodeRuns)
    /\ WF_vars(GenStops) /\ WF_vars(Join)

-----------------------------------------------------------------------------
Lossless == ~hist.discarded /\ ~hist.reset
Drained == chan = <<>> /\ tui = "running"

(* The App's buffers stay within their limits and events are the ones the  *)
(* interface knows.                                                        *)
TypeOK ==
    /\ app.lines \subseteq Panels /\ Len(app.harness_logs) <= MaxLogEntries
    /\ Len(app.l1_blocks) <= MaxL1Blocks
    /\ app.latencies <= MaxSamples
    /\ \A i \in DOMAIN chan : chan[i] \in Event
    /\ gen \in {"off", "running", "stopped"}
    /\ node \in {"harness", "initial", "build", "startsync", "sync", "check", "submit",
                 "execute", "derive", "ended"}

(* With no event discarded and no reset, an emptied channel leaves the     *)
(* dashboard showing what the node did: every counter and head equals the  *)
(* senders' own state, whatever the order their threads ran in.            *)
DisplayConverges ==
    Lossless /\ Drained =>
        /\ app.blocks_executed = executed
        /\ app.batches_derived = val.batch
        /\ app.finalized_head = Sub(val.block, 1)
        /\ app.latencies = Min({val.batch, MaxSamples})
        /\ app.unsafe_head \in {Sub(given, 1), given}
        /\ app.blocks_fetched \in {Sub(given, 1), given}
        /\ (ExecutionStatus(app) = "RUNNING") = (executed > 0)
        /\ node # "ended" => /\ SyncStatus(app) = CASE cli.skip -> "SKIPPED"
                                                    [] node = "sync" -> "SYNCING"
                                                    [] node \in {"build", "startsync"} -> "IDLE"
                                                    [] OTHER -> "COMPLETE"
                             /\ app.batches_submitted = Len(posted)
                             /\ app.safe_head = Sub(Batched, 1)

(* The three heads are shown in order, and "IN SYNC" never next to a       *)
(* backlog: the feeder announces a block before it hands it over, and the  *)
(* sequencer reports a batch before the validator's turn.  The footer's    *)
(* tick for a finished sync is never shown while the sync stage runs.      *)
HeadsOrdered ==
    Lossless =>
        LET heads == ChainState(app)
        IN  /\ heads.finalized <= heads.safe /\ heads.safe <= heads.unsafe
            /\ MetricsStatus(app) = "IN SYNC" => BacklogSize(app) = 0
            /\ Footer(app) = "SYNC" => SyncStatus(app) # "SYNCING"

(* What the dashboard shows of the chain is what the node did: exactly, in *)
(* the end, and in a consistent order on the way.                          *)
DisplayTruthful == DisplayConverges /\ HeadsOrdered

(* Every submission shown is either measured or still waiting for its      *)
(* derivation, across pauses and resets.                                   *)
LatencyAccounting ==
    /\ app.latencies + Cardinality(app.batch_submit_times) <= app.batches_submitted
    /\ app.latencies < MaxSamples =>
          app.latencies + Cardinality(app.batch_submit_times) = app.batches_submitted

(* The L1 strip shows rising block numbers; a batch is drawn in the block  *)
(* that holds it, and the derivation cursor points at a batch that has     *)
(* been derived.                                                           *)
CursorsTruthful ==
    LET strip == L1Strip(app)
    IN  /\ \A i, j \in DOMAIN strip : i < j => strip[i].number < strip[j].number
        /\ \A i \in DOMAIN strip :
              /\ strip[i].batch # 0 => posted[strip[i].batch].l1 = strip[i].number
              /\ strip[i].number = app.submission_cursor => strip[i].batch # 0
              /\ strip[i].number = app.origin_cursor =>
                    strip[i].origin /\ strip[i].batch \in 1..val.batch

(* A block logged while the harness initializes is not logged again when   *)
(* the feeder fetches it, unless a pause swallowed an event; and the       *)
(* panel's title always names the block of its newest line.                *)
NoReprint ==
    LET panel == HarnessActivity(app)
    IN  /\ ~hist.discarded =>
              \A i, j \in DOMAIN panel.lines :
                 panel.lines[i].kind = "block" /\ panel.lines[i] = panel.lines[j] => i = j
        /\ panel.lines # <<>> => panel.title = Head(panel.lines).n

(* A panel with lines in it is drawn, unless a pause swallowed the event   *)
(* that announced the mode.                                                *)
LogsVisible ==
    ~hist.discarded => app.lines \subseteq BodyPanels(app)

(* The sync stage never reports past its target: the bar fits its width.   *)
ProgressBounded == FilledCells(app.sync) <= BarWidth

(* The panels are truthful: the L1 strip, the harness log and the bar show *)
(* what happened, within their limits, whatever evictions, pauses and      *)
(* resets came in between.                                                 *)
PanelsTruthful ==
    TypeOK /\ CursorsTruthful /\ NoReprint /\ LogsVisible /\ ProgressBounded

(* BlockTxCountStore holds exactly the blocks submitted and not derived:   *)
(* every derived block is shown with its number of transactions, and the   *)
(* map does not grow.                                                      *)
StoreExact ==
    /\ ~hist.wrong
    /\ node # "ended" => store = Counts(val.block + 1, Batched)

(* The maps that join a submission to its derivation, in the App and in    *)
(* the store of transaction counts, hold what is in between and no more.   *)
BookkeepingExact == LatencyAccounting /\ StoreExact

(* A quit or a SIGINT ends the process, wherever the threads are.          *)
ShutdownEnds == shutdown ~> exited

(* The node thread's end stops the transaction generator.                  *)
GeneratorStops == (node = "ended" /\ gen = "running") ~> (gen = "stopped" \/ exited)

(* The threads end together: the process when it is asked to, and no       *)
(* generator outlives the node it belongs to.                              *)
StopsCleanly == ShutdownEnds /\ GeneratorStops
=============================================================================
