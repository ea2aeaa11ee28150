----------------------------- MODULE Validator -----------------------------
(***************************************************************************)
(* The validator role (node/roles/src/validator.rs) over the execution     *)
(* databases: it takes batches from the L1 source, skips the ones its      *)
(* checkpoint names, executes the blocks of the others, and saves the      *)
(* checkpoint.  The process may end at any step; databases and checkpoint  *)
(* file stay, and the source delivers the batches from the first again.    *)
(***************************************************************************)
EXTENDS Execution

CONSTANTS
    Batches,      \* what is on L1: a sequence of [first, last] block ranges
    MaxCorrupt    \* bound: batches that do not decompress or deserialize

ASSUME ValidatorAssumption ==
    /\ Batches \in Seq([first : Nat, last : Nat])
    /\ \A n \in DOMAIN Batches : 1 <= Batches[n].first /\ Batches[n].last <= Len(Chain)
    /\ MaxCorrupt \in Nat

VARIABLES
    cursor,    \* number of batches the source has delivered
    batch,     \* number of the batch in process, 0 for none
    next,      \* next block of it to execute
    derived,   \* checkpoint.last_batch_derived in memory
    saved,     \* the same in the checkpoint file
    outcome    \* history: how the last finished attempt at each batch ended

role == <<cursor, batch, next, derived, saved, outcome>>
vars == <<execVars, role>>

BatchBlocks(n) == Batches[n].first..Batches[n].last
LastBlockOf(n) == IF n = 0 THEN 0 ELSE Batches[n].last

(* What BatchRunner's BatchesSound says of the batches its runner posts:   *)
(* they carry the chain in order, none twice; and without a gap, cutting   *)
(* it into ranges from the first block on.                                 *)
BatchesInOrder ==
    \A m, n \in DOMAIN Batches : m < n => Batches[m].last < Batches[n].first
BatchesTile ==
    \A n \in DOMAIN Batches :
        Batches[n].first = LastBlockOf(n - 1) + 1 /\ Batches[n].first <= Batches[n].last

Ends(how) == outcome' = [outcome EXCEPT ![batch] = how]

Init ==
    /\ ExecInit
    /\ cursor = 0 /\ batch = 0 /\ next = 0
    /\ derived = 0 /\ saved = 0
    /\ outcome = [n \in DOMAIN Batches |-> "none"]

(* Validator::new, once the databases are open: Checkpoint::load, or the   *)
(* default checkpoint when there is no file.                               *)
NewValidator ==
    /\ pc = "opened"
    /\ pc' = "idle"
    /\ derived' = saved
    /\ UNCHANGED <<backend, dbs, run, verdict, hist, faults>>
    /\ UNCHANGED <<cursor, batch, next, saved, outcome>>

(* Slip: no batch is skipped.                                              *)
NextBatch_NoSkip ==
    /\ pc = "idle" /\ cursor < Len(Batches)
    /\ cursor' = cursor + 1
    /\ batch' = cursor + 1 /\ next' = Batches[cursor + 1].first
    /\ pc' = "batch"
    /\ UNCHANGED <<backend, dbs, run, verdict, hist, faults, derived, saved, outcome>>

(* tick takes the next batch; process_batch skips the ones already derived.*)
NextBatch ==
    /\ pc = "idle" /\ cursor < Len(Batches)
    /\ cursor' = cursor + 1
    /\ \/ /\ cursor + 1 <= derived
          /\ UNCHANGED <<pc, batch, next>>
       \/ /\ cursor + 1 > derived
          /\ batch' = cursor + 1 /\ next' = Batches[cursor + 1].first
          /\ pc' = "batch"
    /\ UNCHANGED <<backend, dbs, run, verdict, hist, faults, derived, saved, outcome>>

(* Decompression or deserialization fails: tick returns the error, and the *)
(* batch has left the source.                                              *)
BatchCorrupt ==
    /\ pc = "batch" /\ next = Batches[batch].first
    /\ Cardinality({n \in DOMAIN Batches : outcome[n] = "corrupt"}) < MaxCorrupt
    /\ Ends("corrupt")
    /\ pc' = "idle" /\ batch' = 0 /\ next' = 0
    /\ UNCHANGED <<backend, dbs, run, verdict, hist, faults, cursor, derived, saved>>

ExecuteNext ==
    /\ pc = "batch" /\ next <= Batches[batch].last
    /\ StartBlock(next)
    /\ UNCHANGED <<backend, dbs, verdict, faults, role>>

(* Slip: a block that failed is waited for.                                *)
BlockDone_OnlyOk ==
    /\ pc = "blockDone" /\ run.block \notin hist.failed
    /\ pc' = "batch" /\ next' = next + 1
    /\ run' = NoRun
    /\ UNCHANGED <<backend, dbs, verdict, hist, faults, cursor, batch, derived, saved, outcome>>

(* The result of execute_block is dropped: the next block follows.         *)
BlockDone ==
    /\ pc = "blockDone"
    /\ pc' = "batch" /\ next' = next + 1
    /\ run' = NoRun
    /\ UNCHANGED <<backend, dbs, verdict, hist, faults, cursor, batch, derived, saved, outcome>>

(* Slip: the checkpoint is saved before the blocks.                        *)
SaveCheckpoint_Early ==
    /\ pc = "batch"
    /\ derived' = batch /\ saved' = batch
    /\ Ends("validated")
    /\ pc' = "batch"
    /\ UNCHANGED <<backend, dbs, run, verdict, hist, faults, cursor, batch, next>>


(* After the last block: record_batch_derived, save, BatchValidated.       *)
SaveCheckpoint ==
    /\ pc = "batch" /\ next > Batches[batch].last
    /\ derived' = batch /\ saved' = batch
    /\ Ends("validated")
    /\ pc' = "idle" /\ batch' = 0 /\ next' = 0
    /\ UNCHANGED <<backend, dbs, run, verdict, hist, faults, cursor>>

(* save fails: tick returns the error, memory has the batch recorded.      *)
SaveCheckpointFails ==
    /\ pc = "batch" /\ next > Batches[batch].last
    /\ Fault
    /\ derived' = batch
    /\ Ends("unsaved")
    /\ pc' = "idle" /\ batch' = 0 /\ next' = 0
    /\ UNCHANGED <<backend, dbs, run, verdict, hist, cursor, saved>>

Crash ==
    /\ pc # "down"
    /\ CrashExec
    /\ cursor' = 0 /\ batch' = 0 /\ next' = 0 /\ derived' = 0
    /\ UNCHANGED <<saved, outcome>>

Next ==
    \/ ExecStep /\ UNCHANGED role
    \/ OpenRpc(LastBlockOf(saved)) /\ UNCHANGED role
    \/ NewValidator
    \/ NextBatch \/ BatchCorrupt
    \/ ExecuteNext \/ BlockDone
    \/ SaveCheckpoint \/ SaveCheckpointFails
    \/ Crash

Spec == Init /\ [][Next]_vars

(* The validator's task ticks for as long as the process runs, and a       *)
(* process that ended is started again.                                    *)
FairSpec == Spec /\ WF_vars(Next)

-----------------------------------------------------------------------------
Between == pc \in {"opened", "idle", "batch", "blockDone"}

(* Every variable has its type.                                            *)
TypeOK ==
    /\ backend \in Backends
    /\ pc \in {"down", "kvCode", "kvHeader", "openTrie", "trieGenesis", "trieHeader", "opened",
               "idle", "batch", "tx", "commit", "header", "blockDone"}
    /\ DOMAIN mem.accounts \cup DOMAIN mem.storage \cup mem.code \subseteq Account
    /\ DOMAIN trie.accounts \cup DOMAIN trie.storage \cup kv.code \subseteq Account
    /\ rpc.state_block \in 0..Len(Chain)
    /\ run.block \in 0..Len(Chain)
    /\ {cursor, batch, derived, saved} \subseteq 0..Len(Batches)
    /\ faults \in 0..MaxFaults

(* Between blocks the memory cache, which is never invalidated, agrees     *)
(* with the database under it on every account and slot it holds, but for  *)
(* accounts touched by a block that failed half way (their changes were    *)
(* cached before the block was refused) and destroyed ones (cached with    *)
(* their last info).  The remote database follows the chain, whatever was  *)
(* executed, so the cache over it agrees only until a block went astray.   *)
CacheCoherent ==
    Between /\ (backend = "rpc" => ~hist.off) =>
        /\ \A a \in DOMAIN mem.accounts \ hist.tainted : mem.accounts[a] = InnerInfo(a)
        /\ \A a \in DOMAIN mem.storage \ hist.tainted : mem.storage[a] = InnerSlot(a)

(* Two states the EVM cannot tell apart: the second may hold empty         *)
(* accounts besides.                                                       *)
SameState(world, other) ==
    /\ DOMAIN world.accounts \subseteq DOMAIN other.accounts
    /\ \A a \in Account :
          /\ Get(other.accounts, a, NoAccount) = Get(world.accounts, a, NoAccount)
          /\ Get(other.storage, a, 0) = Get(world.storage, a, 0)

Genesised == trie.exists /\ pc \notin {"trieGenesis", "trieHeader"}

(* The trie holds the state of the chain after the last block committed,   *)
(* over crashes between any two writes, restarts that begin a block again, *)
(* failed blocks and lost batches, until a block is committed astray: not  *)
(* on its parent's state, or after it read a stale cache entry or a block  *)
(* hash; the other cause is a crash between the creation of the trie's     *)
(* file and its genesis.                                                   *)
TrieCanonical ==
    backend = "trie" /\ Genesised /\ ~hist.off => SameState(Canon[hist.last].world, trie)

(* A header, once written, has the root of its block's state, also after   *)
(* the state has parted from the chain, but for blocks committed astray;   *)
(* and while it has not parted, only blocks whose header write failed, or  *)
(* was cut off by a crash, have none.  The genesis header is missing or    *)
(* empty only if genesis was torn.                                         *)
HeadersCanonical ==
    /\ \A b \in Blocks \ hist.parted :
          kv.header[b].known => SameState(Canon[b].world, kv.header[b])
    /\ backend = "trie" /\ ~hist.off =>
          \A b \in 1..hist.last :
              kv.header[b].known \/ b \in hist.headless \/ (pc = "header" /\ b = run.block)
    /\ Genesised /\ ~hist.torn => kv.header[0] = Root(Genesis)

(* Code is stored before the trie that refers to it commits: no crash or   *)
(* failed write leaves an account whose code cannot be loaded.             *)
CodeAvailable == Code(trie.accounts) \subseteq kv.code

(* The state is sound at every level: the cache agrees with the database,  *)
(* the database and its headers with the chain, and what the trie refers   *)
(* to is there.                                                            *)
StateSound == TypeOK /\ CacheCoherent /\ TrieCanonical /\ HeadersCanonical /\ CodeAvailable

(* A block is never passed over silently: of a batch the checkpoint file   *)
(* names, every block was committed, or execute_block ended with an error  *)
(* on it, or the last finished attempt at its batch found it undecodable.  *)
CheckpointAccountsForBlocks ==
    \A n \in 1..saved : \A b \in BatchBlocks(n) :
        \/ b \in hist.failed \/ outcome[n] = "corrupt"
        \/ backend = "trie" /\ kv.header[b].known
        \/ backend = "rpc" /\ b <= hist.last

(* The receipt check raises no false alarm: a block whose success or gas   *)
(* differs from the chain's receipts was executed astray.                  *)
NoFalseAlarm == \A b \in Blocks : verdict[b] = "failed" => b \in hist.parted

(* What the validator reports can be believed: its checkpoint about the    *)
(* blocks, and its receipt check about the state.                          *)
ReportsTruthful == CheckpointAccountsForBlocks /\ NoFalseAlarm

(* A block runs twice only because the process ended before the checkpoint *)
(* of its batch was saved: a batch saved in the file is not executed again.*)
SavedNotReplayed ==
    [][\A b \in Blocks : b \in hist'.replayed \ hist.replayed =>
          \A n \in 1..saved : b \notin BatchBlocks(n)]_vars

(* A validator that keeps being restarted reaches the last batch, and none *)
(* was passed over: each was validated and is covered by the checkpoint    *)
(* file, or the last attempt at it ended in an error of tick: the batch    *)
(* did not decode, or the checkpoint was not saved after its blocks.       *)
CatchesUp ==
    <>[]( /\ pc = "idle" /\ cursor = Len(Batches)
          /\ \A n \in DOMAIN Batches : \/ outcome[n] = "validated" /\ n <= saved
                                       \/ outcome[n] \in {"corrupt", "unsaved"} )
=============================================================================
