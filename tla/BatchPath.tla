----------------------------- MODULE BatchPath -----------------------------
(***************************************************************************)
(* The batching library: the executed block buffer (common/sequencer), the *)
(* batch driver and its checkpoint (consensus/batcher), the batch context  *)
(* that picks a sink and a source for the submission mode, the in-memory   *)
(* queue, the Anvil sink and source and the local file sink.               *)
(*                                                                         *)
(* BatcherService::tick is a stub; its caller's loop here is the one its   *)
(* documentation lists: collect, build, submit, record.  Anvil mines a     *)
(* block for every transaction (block_time 0, the only setting the         *)
(* contexts use).  A batch is the blocks it carries.                       *)
(***************************************************************************)
EXTENDS Naturals, Sequences, FiniteSets, SequencesExt

CONSTANTS
    Modes,         \* submission modes a context may be asked for
    Capacity,      \* of the executed block buffer
    Config,        \* BatcherConfig
    Size,          \* bytes of transactions of each block
    MaxEmpty,      \* bound: the last number a batch of no block may get
    MaxFaults,     \* bound: failed submissions and failed saves
    MaxCrashes,    \* bound: process ends
    MaxOther       \* bound: L1 blocks that hold no batch of ours

Blocks == 1..Len(Size)

(* BatcherConfig::default(), the fields the driver reads; the builder's    *)
(* setters override one each.                                              *)
Defaults == [max_blocks_per_batch |-> 100, min_batch_size |-> 1024]
Build(settings) ==
    [f \in DOMAIN Defaults |->
        IF f \in DOMAIN settings THEN settings[f] ELSE Defaults[f]]

ASSUME BatchPathAssumption ==
    /\ Modes \subseteq {"in-memory", "anvil", "remote", "local"}
    /\ Capacity \in Nat \ {0}
    /\ Config \in [DOMAIN Defaults -> Nat]
    /\ Size \in Seq(Nat)
    /\ {MaxEmpty, MaxFaults, MaxCrashes, MaxOther} \subseteq Nat

VARIABLES
    mode,       \* BatchSubmissionMode
    pc,         \* the context: "start", "running" or "unsupported"
    made,       \* blocks the execution layer has produced
    buffer,     \* ExecutedBlockBuffer: [slots, pending, waiting]
    driver,     \* BatchDriver: [pending, size, number, due]
    checkpoint, \* last_batch_submitted: [mem, file]
    hand,       \* the batch the caller is working on, and how far it is
    queue,      \* InMemoryBatchQueue
    l1,         \* Anvil's chain: a sequence of blocks, each a sequence of inbox entries
    file,       \* LocalBatchSink: [data in memory, disk: what the file lists,
                \*                 torn: it is cut short and lists nothing]
    source,     \* AnvilBatchSource: [scanned, number]
    delivered,  \* what the source has returned: a sequence of [number, sent, blocks]
    hist        \* history: what was repeated, skipped, submitted and acknowledged,
                \* the blocks made before this process; fault counts

vars == <<mode, pc, made, buffer, driver, checkpoint, hand, queue, l1, file, source, delivered, hist>>
sinks == <<queue, l1, file>>

NoBatch == [number |-> 0, blocks |-> <<>>]
Idle == [step |-> "idle", batch |-> NoBatch]
Bytes(blocks) == FoldLeft(LAMBDA sum, b : sum + Size[b], 0, blocks)
Foreign == [number |-> 0, blocks |-> <<0>>]   \* somebody else's transaction to the inbox

-----------------------------------------------------------------------------
(* BatchDriver::new, ExecutedBlockBuffer::new, AnvilBatchSource::new,      *)
(* LocalBatchSink::new.                                                    *)
NewDriver == [pending |-> <<>>, size |-> 0, number |-> 1, due |-> FALSE]
NewBuffer == [slots |-> Capacity, pending |-> <<>>, waiting |-> FALSE]
NewSource == [scanned |-> 0, number |-> 1]

Init ==
    /\ mode \in Modes /\ pc = "start"
    /\ made = 0
    /\ buffer = NewBuffer /\ driver = NewDriver
    /\ checkpoint = [mem |-> 0, file |-> 0]
    /\ hand = Idle
    /\ queue = <<>> /\ l1 = <<>> /\ file = [data |-> <<>>, disk |-> <<>>, torn |-> FALSE]
    /\ source = NewSource /\ delivered = <<>>
    /\ hist = [repeats |-> 0, foreign |-> 0, skipped |-> {}, skips |-> 0, submitted |-> {},
               acked |-> {}, cut |-> 0, faults |-> 0, crashes |-> 0, other |-> 0]

(* BatchContext::new: Remote is refused, Anvil is spawned.                 *)
NewContext ==
    /\ pc = "start"
    /\ pc' = IF mode = "remote" THEN "unsupported" ELSE "running"
    /\ UNCHANGED <<mode, made, buffer, driver, checkpoint, hand, sinks, source, delivered, hist>>

-----------------------------------------------------------------------------
(* ExecutedBlockBuffer::push.  A full buffer makes the pusher wait; it     *)
(* keeps its borrow of the buffer, which pending_blocks needs exclusively. *)
Push ==
    /\ pc = "running" /\ ~buffer.waiting /\ made < Len(Size) /\ buffer.slots > 0
    /\ made' = made + 1
    /\ buffer' = [buffer EXCEPT !.slots = @ - 1, !.pending = Append(@, made + 1)]
    /\ UNCHANGED <<mode, pc, driver, checkpoint, hand, sinks, source, delivered, hist>>

PushWaits ==
    /\ pc = "running" /\ ~buffer.waiting /\ made < Len(Size) /\ buffer.slots = 0
    /\ buffer' = [buffer EXCEPT !.waiting = TRUE]
    /\ UNCHANGED <<mode, pc, made, driver, checkpoint, hand, sinks, source, delivered, hist>>

AddBlocks(d, blocks) ==
    [d EXCEPT !.pending = @ \o blocks, !.size = @ + Bytes(blocks)]

(* pending_blocks drains the buffer and releases its slots; add_blocks     *)
(* queues what it got.                                                     *)
Collect ==
    /\ pc = "running" /\ ~buffer.waiting /\ buffer.pending # <<>>
    /\ buffer' = [buffer EXCEPT !.slots = @ + Len(buffer.pending), !.pending = <<>>]
    /\ driver' = AddBlocks(driver, buffer.pending)
    /\ UNCHANGED <<mode, pc, made, checkpoint, hand, sinks, source, delivered, hist>>

-----------------------------------------------------------------------------
(* BatchDriver.  batch_interval passes since the last submission.          *)
IntervalPasses ==
    /\ pc = "running" /\ ~driver.due
    /\ driver' = [driver EXCEPT !.due = TRUE]
    /\ UNCHANGED <<mode, pc, made, buffer, checkpoint, hand, sinks, source, delivered, hist>>

(* Slip: the interval is not looked at.                                    *)
ShouldSubmit_NoInterval ==
    \/ driver.size >= Config.min_batch_size
    \/ Len(driver.pending) >= Config.max_blocks_per_batch
ShouldSubmit ==
    \/ driver.size >= Config.min_batch_size
    \/ driver.due
    \/ Len(driver.pending) >= Config.max_blocks_per_batch

Drained(n) ==
    LET rest == SubSeq(driver.pending, n + 1, Len(driver.pending))
    IN  [pending |-> rest, size |-> Bytes(rest), number |-> driver.number + 1, due |-> FALSE]

(* build_batch: up to max_blocks_per_batch blocks, none if none wait and   *)
(* only the interval has passed.                                           *)
BuildBatch ==
    /\ pc = "running" /\ hand.step = "idle"
    /\ ShouldSubmit
    /\ driver.pending # <<>> \/ driver.number <= MaxEmpty
    /\ LET waiting == Len(driver.pending)
           n == IF waiting < Config.max_blocks_per_batch THEN waiting
                ELSE Config.max_blocks_per_batch
       IN  /\ hand' = [step |-> "built",
                       batch |-> [number |-> driver.number, blocks |-> SubSeq(driver.pending, 1, n)]]
           /\ driver' = Drained(n)
    /\ UNCHANGED <<mode, pc, made, buffer, checkpoint, sinks, source, delivered, hist>>

ShouldSkipBatch(n) == checkpoint.mem > 0 /\ n <= checkpoint.mem

SkipBatch ==
    /\ pc = "running" /\ hand.step = "built" /\ ShouldSkipBatch(hand.batch.number)
    /\ hand' = Idle
    /\ hist' = [hist EXCEPT !.skipped = @ \cup Range(hand.batch.blocks), !.skips = @ + 1]
    /\ UNCHANGED <<mode, pc, made, buffer, driver, checkpoint, sinks, source, delivered>>

-----------------------------------------------------------------------------
(* LocalBatchSink::write_to_file: fs::write opens the file, which empties  *)
(* it, and writes all of the memory anew.  It fails to open, which leaves  *)
(* the file as it was, or it fails, or the process ends, in the middle.    *)
Write(data, outcome) ==
    [data |-> data,
     disk |-> CASE outcome = "all" -> data [] outcome = "none" -> file.disk [] OTHER -> <<>>,
     torn |-> outcome = "part" \/ (outcome = "none" /\ file.torn)]

(* The sinks.  InMemoryBatchQueue::submit, AnvilBatchSink::submit (a block *)
(* with one transaction to the inbox, block range and data in its          *)
(* calldata; the number stays behind), LocalBatchSink::submit (memory,     *)
(* then the whole file).                                                   *)
Deposit(batch, outcome) ==
    /\ queue' = IF mode = "in-memory" THEN Append(queue, batch) ELSE queue
    /\ l1' = IF mode = "anvil" THEN Append(l1, <<batch>>) ELSE l1
    /\ file' = IF mode = "local" THEN Write(Append(file.data, batch), outcome) ELSE file

ReadyToSubmit ==
    /\ pc = "running" /\ hand.step = "built" /\ ~ShouldSkipBatch(hand.batch.number)

Submit ==
    /\ ReadyToSubmit
    /\ Deposit(hand.batch, "all")
    /\ hand' = [hand EXCEPT !.step = "submitted"]
    /\ hist' = [hist EXCEPT !.submitted = @ \cup Range(hand.batch.blocks),
                            !.acked = @ \cup {hand.batch.number}]
    /\ UNCHANGED <<mode, pc, made, buffer, driver, checkpoint, source, delivered>>

Fault ==
    /\ hist.faults < MaxFaults

(* send_transaction fails: nothing happened, the caller tries again.       *)
SubmitFails ==
    /\ ReadyToSubmit /\ mode = "anvil" /\ Fault
    /\ hist' = [hist EXCEPT !.faults = @ + 1]
    /\ UNCHANGED <<mode, pc, made, buffer, driver, checkpoint, hand, sinks, source, delivered>>

(* get_receipt or the file write fails after the batch went out: an error, *)
(* and the caller's retry sends the batch once more.                       *)
SubmitUnconfirmed ==
    /\ ReadyToSubmit /\ mode \in {"anvil", "local"} /\ Fault
    /\ \E outcome \in {"none", "part"} : Deposit(hand.batch, outcome)
    /\ hist' = [hist EXCEPT !.faults = @ + 1, !.repeats = @ + 1,
                            !.submitted = @ \cup Range(hand.batch.blocks)]
    /\ UNCHANGED <<mode, pc, made, buffer, driver, checkpoint, hand, source, delivered>>

(* Slip: recorded before the submission.                                   *)
RecordBatchSubmitted_Blind ==
    /\ pc = "running" /\ hand.step # "idle"
    /\ LET n == hand.batch.number
       IN  checkpoint' = [mem |-> n, file |-> n]
    /\ hand' = Idle
    /\ UNCHANGED <<mode, pc, made, buffer, driver, sinks, source, delivered, hist>>

(* record_batch_submitted: the larger number, and the file.                *)
RecordBatchSubmitted ==
    /\ pc = "running" /\ hand.step = "submitted"
    /\ LET n == IF hand.batch.number > checkpoint.mem THEN hand.batch.number ELSE checkpoint.mem
       IN  \/ checkpoint' = [mem |-> n, file |-> n] /\ UNCHANGED hist
           \/ /\ Fault
              /\ checkpoint' = [checkpoint EXCEPT !.mem = n]
              /\ hist' = [hist EXCEPT !.faults = @ + 1]
    /\ hand' = Idle
    /\ UNCHANGED <<mode, pc, made, buffer, driver, sinks, source, delivered>>

-----------------------------------------------------------------------------
(* L1, external: a block without a batch, or with someone else's           *)
(* transaction to the inbox.                                               *)
OtherBlock ==
    /\ pc = "running" /\ mode = "anvil" /\ hist.other < MaxOther
    /\ \E txs \in {<<>>, <<Foreign>>} :
          /\ l1' = Append(l1, txs)
          /\ hist' = [hist EXCEPT !.other = @ + 1, !.foreign = @ + Len(txs)]
    /\ UNCHANGED <<mode, pc, made, buffer, driver, checkpoint, hand, queue, file, source, delivered>>

(* InMemoryBatchSource::next_batch                                         *)
NextBatchInMemory ==
    /\ pc = "running" /\ mode = "in-memory" /\ queue # <<>>
    /\ queue' = Tail(queue)
    /\ delivered' = Append(delivered, [number |-> Head(queue).number, sent |-> Head(queue).number,
                                       blocks |-> Head(queue).blocks])
    /\ UNCHANGED <<mode, pc, made, buffer, driver, checkpoint, hand, l1, file, source, hist>>

(* Slip: the scan goes on to the head.                                     *)
NextBatchAnvil_ToHead ==
    /\ pc = "running" /\ mode = "anvil" /\ source.scanned < Len(l1)
    /\ LET new == source.scanned + 1 .. Len(l1)
           hits == {b \in new : l1[b] # <<>>}
       IN  IF hits = {} THEN source' = [source EXCEPT !.scanned = Len(l1)] /\ UNCHANGED delivered
           ELSE \E b \in hits :
                  /\ \A c \in hits : b <= c
                  /\ source' = [scanned |-> Len(l1), number |-> source.number + 1]
                  /\ delivered' = Append(delivered,
                        [number |-> source.number, sent |-> l1[b][1].number, blocks |-> l1[b][1].blocks])
    /\ UNCHANGED <<mode, pc, made, buffer, driver, checkpoint, hand, sinks, hist>>

(* AnvilBatchSource::next_batch: the first transaction to the inbox in the *)
(* blocks not scanned yet, under the source's own number; or none, and     *)
(* everything is scanned.                                                  *)
NextBatchAnvil ==
    /\ pc = "running" /\ mode = "anvil" /\ source.scanned < Len(l1)
    /\ LET new == source.scanned + 1 .. Len(l1)
           hits == {b \in new : l1[b] # <<>>}
       IN  \/ /\ hits = {}
              /\ source' = [source EXCEPT !.scanned = Len(l1)]
              /\ UNCHANGED delivered
           \/ \E b \in hits :
                /\ \A c \in hits : b <= c
                /\ source' = [scanned |-> b, number |-> source.number + 1]
                /\ delivered' = Append(delivered,
                      [number |-> source.number, sent |-> l1[b][1].number, blocks |-> l1[b][1].blocks])
    /\ UNCHANGED <<mode, pc, made, buffer, driver, checkpoint, hand, sinks, hist>>

(* The process ends, Anvil with it, and starts again: with_checkpoint      *)
(* loads the file.  The local sink may have been in the middle of a write. *)
WithCheckpoint == [mem |-> checkpoint.file, file |-> checkpoint.file]

Crash ==
    /\ pc = "running" /\ hist.crashes < MaxCrashes
    /\ pc' = "start"
    /\ buffer' = NewBuffer /\ driver' = NewDriver /\ hand' = Idle /\ source' = NewSource
    /\ checkpoint' = WithCheckpoint
    /\ queue' = <<>> /\ l1' = <<>>
    /\ \E outcome \in {"none"} \cup (IF mode = "local" /\ ReadyToSubmit THEN {"part"} ELSE {}) :
          file' = Write(<<>>, outcome)
    /\ delivered' = <<>>
    /\ hist' = [hist EXCEPT !.crashes = @ + 1, !.repeats = 0, !.foreign = 0,
                            !.skipped = {}, !.skips = 0, !.submitted = {}, !.acked = {},
                            !.cut = made]
    /\ UNCHANGED <<mode, made>>

Caller == Collect \/ BuildBatch \/ SkipBatch \/ Submit \/ RecordBatchSubmitted
Source == NextBatchInMemory \/ NextBatchAnvil

Next ==
    \/ NewContext
    \/ Push \/ PushWaits
    \/ IntervalPasses
    \/ Caller \/ SubmitFails \/ SubmitUnconfirmed
    \/ OtherBlock \/ Source
    \/ Crash

Spec == Init /\ [][Next]_vars

(* The caller's loop and the source's keep running, the interval passes,   *)
(* and the execution layer keeps producing.                                *)
FairSpec ==
    /\ Spec
    /\ WF_vars(NewContext) /\ WF_vars(Push) /\ WF_vars(IntervalPasses)
    /\ WF_vars(Collect) /\ WF_vars(BuildBatch \/ SkipBatch \/ Submit \/ RecordBatchSubmitted)
    /\ WF_vars(Source)

-----------------------------------------------------------------------------
(* The blocks of what was found in the inbox, as far as it is ours.        *)
Carried(number, blocks) == IF number > 0 THEN blocks ELSE <<>>
OfTransactions(txs) ==
    FlattenSeq([i \in DOMAIN txs |-> Carried(txs[i].number, txs[i].blocks)])

(* The blocks on their way, stage by stage: delivered, queued, on L1 where *)
(* the source has not looked yet, and in the batch at hand.                *)
Received == FlattenSeq([i \in DOMAIN delivered |->
                          Carried(delivered[i].sent, delivered[i].blocks)])
Queued == FlattenSeq([i \in DOMAIN queue |-> queue[i].blocks])
InFlight == FlattenSeq([i \in 1..(Len(l1) - source.scanned) |->
                          OfTransactions(l1[source.scanned + i])])
Held == IF hand.step = "built" THEN hand.batch.blocks ELSE <<>>

(* Every variable has its type.                                            *)
TypeOK ==
    /\ mode \in Modes /\ pc \in {"start", "running", "unsupported"}
    /\ made \in 0..Len(Size)
    /\ buffer.slots \in 0..Capacity /\ buffer.pending \in Seq(Blocks)
    /\ driver.pending \in Seq(Blocks) /\ driver.number \in Nat \ {0}
    /\ hand.step \in {"idle", "built", "submitted"}
    /\ {checkpoint.mem, checkpoint.file} \subseteq Nat
    /\ source.scanned \in 0..Len(l1)

(* The buffer never holds more than its capacity, and its semaphore and    *)
(* the driver's running size agree with the queues they stand for, however *)
(* pushes, drains and partial batches alternate.                           *)
CountersAgree ==
    /\ buffer.slots + Len(buffer.pending) = Capacity
    /\ driver.size = Bytes(driver.pending)

(* From the buffer to the source no block is lost or reordered: what this  *)
(* process has delivered, is delivering and holds is a run of consecutive  *)
(* blocks, but for batches the checkpoint made it skip, and repeats only   *)
(* come from submissions that failed after the batch went out.             *)
BlocksInOrder ==
    LET flow == Received \o Queued \o InFlight \o Held \o driver.pending \o buffer.pending
    IN  mode \in {"in-memory", "anvil"} /\ hist.skipped = {} /\ hist.repeats = 0 =>
            \A i \in 1..(Len(flow) - 1) : flow[i + 1] = flow[i] + 1

(* The source's own numbers are the sink's numbers as long as nothing else *)
(* reached the inbox and no submission was repeated; each of those shifts  *)
(* every later number by one.                                              *)
NumbersShift ==
    \A i \in DOMAIN delivered :
        delivered[i].sent > 0 /\ hist.skips = 0 =>
            /\ delivered[i].number >= delivered[i].sent
            /\ delivered[i].number - delivered[i].sent <= hist.repeats + hist.foreign

(* What comes out of the source is what went into the buffer, in order,    *)
(* with numbers that are off by what the inbox cannot tell apart.          *)
FlowInOrder == BlocksInOrder /\ NumbersShift

(* The local sink's file lists every batch whose submission it has         *)
(* acknowledged in this process, in the order of its memory, though every  *)
(* submission rewrites it: a failed write may leave the file cut short,    *)
(* with all earlier batches gone from it, but then the caller still holds  *)
(* the batch that did it, and its retry writes them all again.             *)
FileHolds ==
    mode = "local" =>
        /\ ~file.torn /\ hist.acked # {} =>
              /\ IsPrefix(file.disk, file.data)
              /\ \A n \in hist.acked : \E i \in DOMAIN file.disk : file.disk[i].number = n
        /\ file.torn /\ file.data # <<>> =>
              hand.step = "built" /\ hand.batch = file.data[Len(file.data)]

(* No block that was pushed in this process disappears: it is in the       *)
(* buffer, in the driver, in the batch at hand, was handed to the sink or  *)
(* belongs to a batch the checkpoint made the caller skip, which happens   *)
(* only in a process that found a checkpoint.                              *)
NoBlockDropped ==
    /\ (hist.cut + 1)..made \subseteq
            hist.submitted \cup hist.skipped
                \cup Range(buffer.pending) \cup Range(driver.pending)
                \cup (IF hand.step = "built" THEN Range(hand.batch.blocks) ELSE {})
    /\ hist.skips > 0 => hist.crashes > 0

(* Nothing is dropped on the way, and the sizes and slots the stages go by *)
(* are those of what they hold.                                            *)
NothingDropped == TypeOK /\ CountersAgree /\ FileHolds /\ NoBlockDropped

(* Every block produced reaches the sink, whichever of size, count and     *)
(* interval makes its batch due and however often a submission or a save   *)
(* fails, but for three cases: the process ended before, the checkpoint of *)
(* an earlier process made the caller skip it, or it lies in a full buffer *)
(* whose pusher waits; the blocks the driver had got by then go out.       *)
EveryBlockSubmitted ==
    []<>(\A b \in 1..made : \/ b \in hist.submitted \cup hist.skipped
                            \/ b <= hist.cut
                            \/ buffer.waiting /\ b \in Range(buffer.pending))
=============================================================================
