---------------------------- MODULE BatchRunner ----------------------------
(***************************************************************************)
(* The batch submission runner (crates/consensus/batch-runner/src): run()  *)
(* polls a block source, fetches blocks in bulk when it is behind, and     *)
(* submits what it accumulated when the batch is full or when it has       *)
(* caught up.                                                              *)
(*                                                                         *)
(* The chain grows and the source fails between any two calls, so a round  *)
(* of the loop is a step per call.  A block is its number; whether the     *)
(* pending bytes reach target_batch_size is a choice made per block.       *)
(***************************************************************************)
EXTENDS Naturals, Sequences

CONSTANTS
    StartBlock,         \* run(start_block)
    LastBlock,          \* bound: last block of the chain
    MaxBlocksPerBatch,  \* BatchSubmissionConfig::max_blocks_per_batch
    MaxFailures,        \* bound: submissions that may fail
    SourceMayFail       \* may get_head and get_block return an RPC error

ASSUME RunnerAssumption ==
    /\ StartBlock \in Nat
    /\ LastBlock \in Nat
    /\ MaxBlocksPerBatch \in Nat \ {0}
    /\ MaxFailures \in Nat
    /\ SourceMayFail \in BOOLEAN

VARIABLES
    head,       \* the chain's head
    pc,         \* "ready", then the loop of run(): "top", "fetch", "submit"
    paused,     \* paused
    cur,        \* current_block
    num,        \* batch_number
    pending,    \* pending_blocks
    full,       \* pending_size >= target_batch_size
    backlogged, \* is_backlogged of this round
    left,       \* blocks this round may still fetch
    got,        \* blocks_fetched
    missed,     \* fetch_failed
    l1,         \* batches included on L1, in order
    lost        \* history: batches cleared after a submission that failed

roundVars == <<backlogged, left, got, missed>>
batchVars == <<num, pending, full>>
vars == <<head, pc, paused, cur, batchVars, roundVars, l1, lost>>

Smaller(a, b) == IF a <= b THEN a ELSE b

-----------------------------------------------------------------------------
Init ==
    /\ head \in StartBlock..LastBlock
    /\ pc = "ready"
    /\ paused = FALSE
    /\ cur = StartBlock
    /\ num = 0
    /\ pending = << >>
    /\ full = FALSE
    /\ backlogged = FALSE
    /\ left = 0
    /\ got = 0
    /\ missed = FALSE
    /\ l1 = << >>
    /\ lost = << >>

ChainGrows ==
    /\ head < LastBlock
    /\ head' = head + 1
    /\ UNCHANGED <<pc, paused, cur, batchVars, roundVars, l1, lost>>

(* pause() and resume() borrow the runner mutably, as run() does for ever: *)
(* they can be called only before run().                                   *)
SetPaused(p) ==
    /\ pc = "ready"
    /\ paused' = p
    /\ UNCHANGED <<head, pc, cur, batchVars, roundVars, l1, lost>>

Run ==
    /\ pc = "ready"
    /\ pc' = "top"
    /\ UNCHANGED <<head, paused, cur, batchVars, roundVars, l1, lost>>

(* Slip: a round ignores what is already pending.                          *)
BlocksToFetch_IgnoresPending(h) ==
    IF h > cur THEN Smaller(MaxBlocksPerBatch, h - cur + 1) ELSE 1

(* The block at cur counts: one more than the blocks the runner is behind. *)
BlocksToFetch(h) ==
    IF h > cur THEN Smaller(MaxBlocksPerBatch - Len(pending), h - cur + 1) ELSE 1

(* An error of get_head counts as being caught up.                         *)
BeginRound ==
    /\ pc = "top"
    /\ ~paused
    /\ \E h \in {head} \union (IF SourceMayFail THEN {cur} ELSE {}) :
          /\ backlogged' = (h > cur)
          /\ left' = BlocksToFetch(h)
    /\ got' = 0
    /\ missed' = FALSE
    /\ pc' = "fetch"
    /\ UNCHANGED <<head, paused, cur, batchVars, l1, lost>>

FetchBlock ==
    /\ pc = "fetch"
    /\ left > 0
    /\ cur + got <= head
    /\ pending' = Append(pending, cur + got)
    /\ full' \in {full, TRUE}
    /\ got' = got + 1
    /\ left' = IF full' THEN 0 ELSE left - 1
    /\ UNCHANGED <<head, pc, paused, cur, num, backlogged, missed, l1, lost>>

FetchFails ==
    /\ pc = "fetch"
    /\ left > 0
    /\ cur + got > head \/ SourceMayFail
    /\ missed' = TRUE
    /\ left' = 0
    /\ UNCHANGED <<head, pc, paused, cur, batchVars, backlogged, got, l1, lost>>

(* Slip: a batch that is caught up waits until it is full.                 *)
ShouldSubmit_OnlyFull ==
    pending # << >> /\ (Len(pending) >= MaxBlocksPerBatch \/ full)

ShouldSubmit ==
    /\ pending # << >>
    /\ \/ Len(pending) >= MaxBlocksPerBatch
       \/ full
       \/ ~backlogged /\ missed

(* Slip: a fetch that failed counts as a block.                            *)
NextBlock_CountsMiss == cur + got + IF missed /\ got > 0 THEN 1 ELSE 0

NextBlock == cur + got

FetchDone ==
    /\ pc = "fetch"
    /\ left = 0
    /\ cur' = NextBlock
    /\ pc' = IF ShouldSubmit THEN "submit" ELSE "top"
    /\ UNCHANGED <<head, paused, batchVars, roundVars, l1, lost>>

ClearPending ==
    /\ num' = num + 1
    /\ pending' = << >>
    /\ full' = FALSE
    /\ pc' = "top"
    /\ UNCHANGED <<head, paused, cur, roundVars>>

ThisBatch == [num |-> num, blocks |-> pending]

SubmitBatch ==
    /\ pc = "submit"
    /\ l1' = Append(l1, ThisBatch)
    /\ ClearPending
    /\ UNCHANGED lost

(* Compression or the sink fails, before or after inclusion.  Neither      *)
(* error is fatal: the batch is cleared and its number used up.            *)
SubmitFails ==
    /\ pc = "submit"
    /\ Len(lost) < MaxFailures
    /\ \E included \in BOOLEAN :
          l1' = IF included THEN Append(l1, ThisBatch) ELSE l1
    /\ lost' = Append(lost, ThisBatch)
    /\ ClearPending

-----------------------------------------------------------------------------
RunStep == BeginRound \/ FetchBlock \/ FetchDone \/ SubmitBatch
RunFault == FetchFails \/ SubmitFails

Next == \/ Run \/ RunStep \/ RunFault \/ ChainGrows
        \/ \E p \in BOOLEAN : SetPaused(p)

Spec == Init /\ [][Next]_vars

(* The runner's task is polled for ever, and an RPC endpoint that fails    *)
(* answers again some time.  Nothing obliges the chain to grow.            *)
FairSpec ==
    /\ Spec
    /\ WF_vars(Run)
    /\ WF_vars(RunStep \/ RunFault)
    /\ SF_vars(FetchBlock)

-----------------------------------------------------------------------------
(* Properties.                                                             *)

(* The next block the runner will ask for.                                 *)
Fetched == IF pc = "fetch" THEN cur + got ELSE cur

BlocksOf(s) == UNION {{s[i].blocks[j] : j \in DOMAIN s[i].blocks} : i \in DOMAIN s}

(* Every variable keeps its type, and no batch is empty.                   *)
TypeOK ==
    /\ head \in StartBlock..LastBlock
    /\ pc \in {"ready", "top", "fetch", "submit"}
    /\ paused \in BOOLEAN
    /\ cur \in Nat
    /\ num \in Nat
    /\ pending \in Seq(Nat)
    /\ full \in BOOLEAN
    /\ backlogged \in BOOLEAN
    /\ left \in Nat
    /\ got \in Nat
    /\ missed \in BOOLEAN
    /\ l1 \in Seq([num : Nat, blocks : Seq(Nat) \ {<< >>}])
    /\ lost \in Seq([num : Nat, blocks : Seq(Nat) \ {<< >>}])

(* max_blocks_per_batch is never exceeded, also when a round that fetches  *)
(* in bulk (behind + 1) meets blocks left over from an earlier round.      *)
BatchSizeBounded ==
    /\ Len(pending) + left <= MaxBlocksPerBatch
    /\ \A i \in DOMAIN l1 : Len(l1[i].blocks) <= MaxBlocksPerBatch

(* Every block from start_block up to the next one to fetch is accounted   *)
(* for: on L1, pending, or in a batch whose submission failed; L1 holds    *)
(* batches in the order of their numbers and of their blocks, and no block *)
(* twice.                                                                  *)
BlockAccounting ==
    /\ BlocksOf(l1) \union BlocksOf(lost)
         \union {pending[i] : i \in DOMAIN pending} = StartBlock..(Fetched - 1)
    /\ \A i \in DOMAIN l1 : \A j, k \in DOMAIN l1[i].blocks :
          j < k => l1[i].blocks[j] < l1[i].blocks[k]
    /\ \A i, j \in DOMAIN l1 : i < j =>
          /\ l1[i].num < l1[j].num
          /\ l1[i].blocks[Len(l1[i].blocks)] < l1[j].blocks[1]

(* The batches are sound: none is empty or too large, and between them and *)
(* the pending blocks no block is missing or doubled.                      *)
BatchesSound == TypeOK /\ BatchSizeBounded /\ BlockAccounting

(* The batch submitted under the i-th number, whether it got to L1 or not. *)
Submission(i) ==
    CHOOSE b \in {l1[k] : k \in DOMAIN l1} \union {lost[k] : k \in DOMAIN lost} :
        b.num = i - 1

(* What the runner hands to the sink, whatever the source, the chain and   *)
(* the sink do, is the abstract ordered log: batch after batch, each one   *)
(* continuing the one before.  Without failed submissions that is L1.      *)
BatchLog == INSTANCE OrderedBatchLog WITH
    log <- [i \in 1..num |-> LET blocks == Submission(i).blocks
                             IN  [num   |-> Submission(i).num,
                                  first |-> blocks[1],
                                  last  |-> blocks[Len(blocks)]]]
ImplementsBatchLog == BatchLog!Spec

(* A runner that is not paused submits every block of the chain, full      *)
(* batch or not, even if the chain stops growing: condition 3 of           *)
(* should_submit.  A block may be lost only by a submission that failed.   *)
EveryBlockSubmitted ==
    \A n \in StartBlock..LastBlock :
        (head >= n) ~> (n \in BlocksOf(l1) \union BlocksOf(lost) \/ paused)
=============================================================================
