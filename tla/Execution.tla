----------------------------- MODULE Execution -----------------------------
(***************************************************************************)
(* The block executor and the databases under it: BlockExecutor            *)
(* (execution/vm), CachedDatabase, TrieDatabase, RocksDbKvDatabase and     *)
(* RPCDatabase (execution/database), the receipt check of the execution    *)
(* runner, and the opening of the databases from genesis.  A caller (the   *)
(* validator, module Validator) opens them and executes one block at a     *)
(* time.                                                                   *)
(*                                                                         *)
(* The EVM is external.  An account has a nonce, a balance and a code      *)
(* hash; it owns one storage slot.  A state root stands for the state.     *)
(***************************************************************************)
EXTENDS Naturals, Sequences, FiniteSets, SequencesExt

CONSTANTS
    Account,
    Chain,        \* the L2 chain: a sequence of blocks, each a sequence of transactions
    Timestamp,    \* the timestamp of each block
    Activation,   \* when each hardfork activates, in the order of Hardforks
    Genesis,      \* genesis accounts and storage
    Backends,     \* the databases the executor may sit on: {"trie", "rpc"}
    MaxFaults     \* bound: crashes and failed writes together

NoCode == "none"
Info == [nonce: Nat, balance: Nat, code: Account \cup {NoCode}]
Tx == [kind: {"deposit", "call", "stamp", "create", "flash"}, from: Account, to: Account,
       nonce: Nat]
IsWorld(w) ==
    /\ w = [accounts |-> w.accounts, storage |-> w.storage]
    /\ w.accounts \in [DOMAIN w.accounts -> Info]
    /\ DOMAIN w.accounts \cup DOMAIN w.storage \subseteq Account
EmptyWorld == [accounts |-> <<>>, storage |-> <<>>]

(* The chain specification.  Delta brought no EVM change of its own; the    *)
(* newest active hardfork decides.                                         *)
Hardforks == <<"Bedrock", "Canyon", "Delta", "Ecotone", "Fjord", "Granite", "Holocene",
               "Isthmus", "Jovian">>
ToSpecId(fork) == IF fork <= 2 THEN fork ELSE fork - 1
IsActive(fork, timestamp) == timestamp >= Activation[fork]
ActiveHardfork(timestamp) == Max({f \in DOMAIN Hardforks : IsActive(f, timestamp)})
SpecIdAtTimestamp(timestamp) == ToSpecId(ActiveHardfork(timestamp))

ASSUME ExecAssumption ==
    /\ NoCode \notin Account
    /\ Chain \in Seq(Seq(Tx))
    /\ Timestamp \in [DOMAIN Chain -> Nat]
    /\ Activation \in [DOMAIN Hardforks -> Nat] /\ Activation[1] = 0
    /\ \A i, j \in DOMAIN Hardforks : i < j => Activation[i] <= Activation[j]
    /\ IsWorld(Genesis)
    /\ Genesis.storage \in [DOMAIN Genesis.storage -> Nat \ {0}]
    /\ Backends \subseteq {"trie", "rpc"}
    /\ MaxFaults \in Nat

VARIABLES
    backend,   \* the inner database
    pc,        \* what the caller and the executor are doing
    mem,       \* CachedDatabase: accounts, storage and code held in memory
    trie,      \* TrieDb on disk
    kv,        \* RocksDB on disk: exists, code, headers, safe and unsafe
    rpc,       \* RPCDatabase: state_block and file_cache in memory, files on disk
    run,       \* block being executed: its number, the results and EvmStates so far
    verdict,   \* the verifier's last word on each block
    hist,      \* history: what went wrong so far
    faults     \* counts crashes and failed writes

dbs == <<mem, trie, kv, rpc>>
execVars == <<backend, pc, dbs, run, verdict, hist, faults>>

Blocks == DOMAIN Chain
NoRun == [block |-> 0, results |-> <<>>, changes |-> <<>>]
EmptyMem == [accounts |-> <<>>, storage |-> <<>>, code |-> {}]
NoHeader == [accounts |-> <<>>, storage |-> <<>>, known |-> FALSE]
Root(world) == [accounts |-> world.accounts, storage |-> world.storage, known |-> TRUE]
ZeroRoot == Root(EmptyWorld)

(* f, and g where f says nothing; the function of one argument.             *)
Over(f, g) == [x \in DOMAIN f \cup DOMAIN g |-> IF x \in DOMAIN f THEN f[x] ELSE g[x]]
At(x, value) == [y \in {x} |-> value]
Get(f, k, default) == IF k \in DOMAIN f THEN f[k] ELSE default
NoAccount == [nonce |-> 0, balance |-> 0, code |-> NoCode]
Code(infos) == {infos[a].code : a \in DOMAIN infos} \ {NoCode}
Fault == faults < MaxFaults /\ faults' = faults + 1

-----------------------------------------------------------------------------
(* The EVM, external.  Replay of a transaction on a view of the state is   *)
(* an error, or the result (success, and the gas used, which depends on    *)
(* the rules in force and on the path taken) and an EvmState: the infos of *)
(* all accounts it loaded, changed or not, absent ones with the default    *)
(* info; the slots set; the accounts that selfdestructed; and the code     *)
(* that came with the infos.  An L1 deposit mints and is not checked for   *)
(* its nonce; what a call stores depends on the rules; a "stamp" call      *)
(* stores the hash of the parent block; a "flash" transaction creates a    *)
(* contract that selfdestructs before it ends.                             *)
NoChange == [accounts |-> <<>>, storage |-> <<>>, destroyed |-> {}, code |-> {}]
Refused == [error |-> TRUE, result |-> [success |-> FALSE, gas |-> <<0, "none">>],
            state |-> NoChange]

StorePath(old, new) ==
    CASE new = old -> "same"
      [] new # old /\ old = 0 -> "set"
      [] new # old /\ old # 0 /\ new = 0 -> "clear"
      [] OTHER -> "reset"

Replay(spec, tx, view) ==
    LET loaded == [a \in {tx.from, tx.to} |-> view.info[a]]
        from == view.info[tx.from]
        to == view.info[tx.to]
        paid == At(tx.from, [from EXCEPT !.nonce = @ + 1])
        minted == At(tx.from, [from EXCEPT !.nonce = @ + 1, !.balance = @ + 1])
        born == At(tx.to, [nonce |-> 1, balance |-> to.balance, code |-> tx.to])
        taken == to.nonce > 0 \/ to.code # NoCode
        runs == to.code # NoCode /\ to.code \in view.code
        old == view.slot[tx.to]
        new == IF tx.kind = "stamp" THEN view.hash ELSE old + spec
        ends(success, path, infos, slots, gone, code) ==
            [error |-> FALSE,
             result |-> [success |-> success, gas |-> <<spec, path>>],
             state |-> [accounts |-> Over(infos, loaded), storage |-> slots, destroyed |-> gone,
                        code |-> code \cup (Code(loaded) \cap view.code)]]
    IN  CASE tx.kind = "deposit" -> ends(TRUE, "deposit", minted, <<>>, {}, {})
          [] tx.kind # "deposit" /\ from.nonce # tx.nonce -> Refused
          [] tx.kind \in {"call", "stamp"} /\ from.nonce = tx.nonce ->
               IF runs THEN ends(TRUE, StorePath(old, new), paid, At(tx.to, new), {}, {})
               ELSE ends(TRUE, "transfer", paid, <<>>, {}, {})
          [] tx.kind \in {"create", "flash"} /\ from.nonce = tx.nonce ->
               IF taken THEN ends(FALSE, "collision", paid, <<>>, {}, {})
               ELSE ends(TRUE, tx.kind, Over(paid, born), <<>>,
                         IF tx.kind = "flash" THEN {tx.to} ELSE {}, {tx.to})

(* TrieDatabase::commit_block on one transaction's EvmState: every account *)
(* of it is set, empty and unchanged ones too; destroyed ones are deleted  *)
(* with their storage; a zero slot is deleted.                             *)
ApplyChange(world, change) ==
    LET infos == Over(change.accounts, world.accounts)
        kept == [a \in DOMAIN world.storage \ change.destroyed |-> world.storage[a]]
        slots == Over(change.storage, kept)
    IN  [accounts |-> [a \in DOMAIN infos \ change.destroyed |-> infos[a]],
         storage |-> [a \in {s \in DOMAIN slots : slots[s] # 0} |-> slots[a]]]

ApplyAll(world, changes) == FoldLeft(ApplyChange, world, changes)

(* The rules the chain's own nodes apply to block n: one set more for every *)
(* hardfork but Delta that its timestamp has reached.                       *)
ChainSpec(n) ==
    Cardinality({f \in DOMAIN Hardforks : Hardforks[f] # "Delta" /\ Activation[f] <= Timestamp[n]})

(* What the chain's own nodes do with the outcome of a transaction: an     *)
(* account it leaves empty (EIP-161) or destroyed is no longer part of the *)
(* state, nor is a destroyed one's storage; the others are as the EVM left *)
(* them.                                                                   *)
ChainApply(world, change) ==
    LET gone == change.destroyed \cup {a \in DOMAIN change.accounts :
                                          change.accounts[a] = NoAccount}
        held == (DOMAIN world.accounts \cup DOMAIN change.accounts) \ gone
        slot(a) == IF a \in DOMAIN change.storage THEN change.storage[a]
                   ELSE Get(world.storage, a, 0)
    IN  [accounts |-> [a \in held |-> IF a \in DOMAIN change.accounts
                                      THEN change.accounts[a] ELSE world.accounts[a]],
         storage |-> [a \in {x \in DOMAIN world.storage \cup DOMAIN change.storage :
                               x \notin change.destroyed /\ slot(x) # 0} |-> slot(a)]]

(* The hash of block n; never zero.                                        *)
BlockHash(n) == n + 1

(* What the chain's own nodes compute: the state and the receipts after    *)
(* each block, from genesis.                                               *)
CanonTx(acc, tx) ==
    LET view == [info |-> [a \in Account |-> Get(acc.world.accounts, a, NoAccount)],
                 slot |-> [a \in Account |-> Get(acc.world.storage, a, 0)],
                 code |-> Account, hash |-> acc.hash]
        r == Replay(acc.spec, tx, view)
    IN  [acc EXCEPT !.world = ChainApply(@, r.state), !.receipts = Append(@, r.result)]

CanonUpTo[n \in 0..Len(Chain)] ==
    IF n = 0 THEN [spec |-> 0, hash |-> 0, world |-> Genesis, receipts |-> <<>>]
    ELSE FoldLeft(CanonTx, [spec |-> ChainSpec(n), hash |-> BlockHash(n - 1),
                            world |-> CanonUpTo[n - 1].world, receipts |-> <<>>], Chain[n])

Canon == [n \in 0..Len(Chain) |-> CanonUpTo[n]]

-----------------------------------------------------------------------------
(* Reads.  The inner database: the trie, with code from the key-value      *)
(* store, or the remote node at state_block behind a file cache.           *)
RemoteWorld == Canon[rpc.state_block].world

InnerInfo(a) ==
    IF backend = "trie" THEN Get(trie.accounts, a, NoAccount)
    ELSE Get(rpc.file_cache.accounts, a, Get(RemoteWorld.accounts, a, NoAccount))
InnerHas(a) == backend = "rpc" \/ a \in DOMAIN trie.accounts
InnerSlot(a) ==
    IF backend = "trie" THEN Get(trie.storage, a, 0)
    ELSE Get(rpc.file_cache.storage, a, Get(RemoteWorld.storage, a, 0))
InnerCode(h) == backend = "rpc" \/ h \in kv.code
(* block_hash_ref: the trie database has no block hashes.                   *)
InnerHash(n) == IF backend = "trie" THEN 0 ELSE BlockHash(n)

(* CachedDatabase::basic_ref, storage_ref, code_by_hash_ref; the cache of  *)
(* block hashes holds what the inner database says, which never changes.   *)
ReadInfo(a) == Get(mem.accounts, a, InnerInfo(a))
ReadSlot(a) == Get(mem.storage, a, InnerSlot(a))
ReadCode(h) == h \in mem.code \/ InnerCode(h)
ReadView == [info |-> [a \in Account |-> ReadInfo(a)],
             slot |-> [a \in Account |-> ReadSlot(a)],
             code |-> {h \in Account : ReadCode(h)},
             hash |-> InnerHash(run.block - 1)]

(* What the reads of a transaction leave in the memory cache: an account   *)
(* only if there is one, a slot always, code only if it is not empty.      *)
CacheReads(tx) ==
    LET seen == {a \in {tx.from, tx.to} : a \in DOMAIN mem.accounts \/ InnerHas(a)}
        infos == Over([a \in seen |-> ReadInfo(a)], mem.accounts)
        slots == IF tx.kind \in {"call", "stamp"} /\ ReadInfo(tx.to).code # NoCode
                 THEN {tx.to} ELSE {}
    IN  [accounts |-> infos,
         storage |-> Over([a \in slots |-> ReadSlot(a)], mem.storage),
         code |-> mem.code \cup {h \in Code(infos) : ReadCode(h)}]

(* RPCDatabase::fetch_account_info, fetch_storage: what was not in the     *)
(* file cache is asked of the node at state_block and saved to the file.   *)
FileReads(tx) ==
    IF backend # "rpc" THEN rpc
    ELSE LET asked == {tx.from, tx.to} \ DOMAIN mem.accounts
             slots == IF tx.kind \in {"call", "stamp"} /\ ReadInfo(tx.to).code # NoCode
                      THEN {tx.to} \ DOMAIN mem.storage ELSE {}
             cached == [accounts |-> Over([a \in asked |-> InnerInfo(a)], rpc.file_cache.accounts),
                        storage |-> Over([a \in slots |-> InnerSlot(a)], rpc.file_cache.storage)]
         IN  [rpc EXCEPT !.file_cache = cached,
                         !.files = IF asked \cup slots = {} THEN @
                                   ELSE Over(At(rpc.state_block, cached), @)]


(* CachedDatabase::commit: the changes of one transaction, a destroyed     *)
(* account's info included.                                                *)
Commit(cache, change) ==
    [accounts |-> Over(change.accounts, cache.accounts),
     storage |-> Over(change.storage, cache.storage),
     code |-> cache.code \cup change.code]

-----------------------------------------------------------------------------
(* Opening.  RocksDbKvDatabase::open_or_create: genesis is applied when    *)
(* the path did not exist, put by put; then TrieDatabase::open_or_create.  *)
ExecInit ==
    /\ backend \in Backends
    /\ pc = "down"
    /\ mem = EmptyMem /\ run = NoRun
    /\ trie = [exists |-> FALSE, accounts |-> <<>>, storage |-> <<>>]
    /\ kv = [exists |-> FALSE, code |-> {}, header |-> [b \in 0..Len(Chain) |-> NoHeader],
             safe |-> FALSE, unsafe |-> FALSE]
    /\ rpc = [state_block |-> 0, file_cache |-> EmptyWorld, files |-> <<>>]
    /\ verdict = [b \in Blocks |-> "none"]
    /\ hist = [torn |-> FALSE, ran |-> {}, replayed |-> {}, failed |-> {}, headless |-> {},
               tainted |-> {}, astray |-> FALSE, off |-> FALSE, parted |-> {}, last |-> 0]
    /\ faults = 0

OpenKv ==
    /\ pc = "down" /\ backend = "trie"
    /\ kv' = [kv EXCEPT !.exists = TRUE]
    /\ pc' = IF kv.exists THEN "openTrie" ELSE "kvCode"
    /\ UNCHANGED <<backend, mem, trie, rpc, run, verdict, hist, faults>>

KvGenesisCode ==
    /\ pc = "kvCode"
    /\ kv' = [kv EXCEPT !.code = @ \cup Code(Genesis.accounts)]
    /\ pc' = "kvHeader"
    /\ UNCHANGED <<backend, mem, trie, rpc, run, verdict, hist, faults>>

KvGenesisHeader ==
    /\ pc = "kvHeader"
    /\ kv' = [kv EXCEPT !.safe = TRUE, !.unsafe = TRUE, !.header[0] = ZeroRoot]
    /\ pc' = "openTrie"
    /\ UNCHANGED <<backend, mem, trie, rpc, run, verdict, hist, faults>>

OpenTrie ==
    /\ pc = "openTrie"
    /\ trie' = [trie EXCEPT !.exists = TRUE]
    /\ pc' = IF trie.exists THEN "opened" ELSE "trieGenesis"
    /\ UNCHANGED <<backend, mem, kv, rpc, run, verdict, hist, faults>>

TrieGenesis ==
    /\ pc = "trieGenesis"
    /\ kv' = [kv EXCEPT !.code = @ \cup Code(Genesis.accounts)]
    /\ trie' = [trie EXCEPT !.accounts = Genesis.accounts, !.storage = Genesis.storage]
    /\ pc' = "trieHeader"
    /\ UNCHANGED <<backend, mem, rpc, run, verdict, hist, faults>>

TrieGenesisHeader ==
    /\ pc = "trieHeader"
    /\ kv' = [kv EXCEPT !.header[0] = Root(trie)]
    /\ pc' = "opened"
    /\ UNCHANGED <<backend, mem, trie, rpc, run, verdict, hist, faults>>

(* RPCDatabase::load_cache_for_block and new; the caller names the block   *)
(* before the first one it will execute.                                   *)
LoadCacheForBlock(db, b) ==
    [db EXCEPT !.state_block = b, !.file_cache = Get(db.files, b, EmptyWorld)]

OpenRpc(state_block) ==
    /\ pc = "down" /\ backend = "rpc"
    /\ rpc' = LoadCacheForBlock(rpc, state_block)
    /\ pc' = "opened"
    /\ UNCHANGED <<backend, mem, trie, kv, run, verdict, hist, faults>>

-----------------------------------------------------------------------------
(* History.  The block under way is astray when it is not the successor of *)
(* the state below it, when that state is off the chain already, or once   *)
(* it read a cache entry that was left stale or a block hash the trie does *)
(* not have.  A block committed astray puts the state off the chain.       *)
Base == IF backend = "trie" THEN hist.last ELSE rpc.state_block
Misled(tx) ==
    \/ {tx.from, tx.to} \cap hist.tainted # {}
    \/ backend = "trie" /\ tx.kind = "stamp" /\ ReadInfo(tx.to).code # NoCode
Committed(h, b) ==
    [h EXCEPT !.last = b, !.off = h.astray,
              !.parted = IF h.astray THEN @ \cup {b} ELSE @]

(* BlockExecutor::execute_block, from a transaction to the state root.     *)
StartBlock(b) ==
    /\ pc' = "tx"
    /\ run' = [NoRun EXCEPT !.block = b]
    /\ hist' = [hist EXCEPT !.ran = @ \cup {b},
                            !.replayed = IF b \in hist.ran THEN @ \cup {b} ELSE @,
                            !.astray = hist.off \/ b # Base + 1]

BlockFails ==
    LET touched == UNION {DOMAIN run.changes[i].accounts : i \in DOMAIN run.changes}
    IN  /\ pc' = "blockDone"
        /\ hist' = [hist EXCEPT !.failed = @ \cup {run.block}, !.tainted = @ \cup touched]

(* execute_tx: the reads and, unless the EVM refuses the transaction, its  *)
(* changes reach the memory cache at once.                                 *)
ExecuteTx ==
    /\ pc = "tx" /\ Len(run.results) < Len(Chain[run.block])
    /\ LET tx == Chain[run.block][Len(run.results) + 1]
           r == Replay(SpecIdAtTimestamp(Timestamp[run.block]), tx, ReadView)
       IN  /\ rpc' = FileReads(tx)
           /\ \/ /\ r.error
                 /\ mem' = CacheReads(tx)
                 /\ BlockFails
                 /\ UNCHANGED run
              \/ /\ ~r.error
                 /\ mem' = Commit(CacheReads(tx), r.state)
                 /\ run' = [run EXCEPT !.results = Append(@, r.result),
                                       !.changes = Append(@, r.state)]
                 /\ hist' = [hist EXCEPT !.tainted = @ \cup r.state.destroyed,
                                         !.astray = @ \/ Misled(tx)]
                 /\ UNCHANGED pc
    /\ UNCHANGED <<backend, trie, kv, verdict, faults>>

(* A read of the inner database fails inside the EVM: the same error.      *)
ReadFails ==
    /\ pc = "tx" /\ Len(run.results) < Len(Chain[run.block])
    /\ Fault /\ BlockFails
    /\ UNCHANGED <<backend, dbs, run, verdict>>

StoredCode(change) ==
    change.code \cap Code([a \in DOMAIN change.accounts \ change.destroyed |-> change.accounts[a]])
NewCode == UNION {StoredCode(run.changes[i]) : i \in DOMAIN run.changes}

(* commit_block of the trie database: code goes to the key-value store     *)
(* while the trie's transaction is being filled, then the trie commits,    *)
(* then the header is written.  Each write may fail.                       *)
StoreCode ==
    /\ pc = "tx" /\ backend = "trie" /\ Len(run.results) = Len(Chain[run.block])
    /\ kv' = [kv EXCEPT !.code = @ \cup NewCode]
    /\ \/ pc' = "commit" /\ UNCHANGED <<hist, faults>>
       \/ NewCode # {} /\ Fault /\ BlockFails
    /\ UNCHANGED <<backend, mem, trie, rpc, run, verdict>>

TrieWorld == [accounts |-> trie.accounts, storage |-> trie.storage]
WithWorld(world) == [trie EXCEPT !.accounts = world.accounts, !.storage = world.storage]

(* Slip: the last transaction replaces the changes before it.              *)
CommitTrie_LastTxOnly ==
    /\ pc = "commit"
    /\ trie' = WithWorld(ApplyChange(TrieWorld, run.changes[Len(run.changes)]))
    /\ pc' = "header"
    /\ hist' = Committed(hist, run.block)
    /\ UNCHANGED <<backend, mem, kv, rpc, run, verdict, faults>>

CommitTrie ==
    /\ pc = "commit"
    /\ trie' = WithWorld(ApplyAll(TrieWorld, run.changes))
    /\ pc' = "header"
    /\ hist' = Committed(hist, run.block)
    /\ UNCHANGED <<backend, mem, kv, rpc, run, verdict, faults>>

CommitTrieFails ==
    /\ pc = "commit"
    /\ Fault /\ BlockFails
    /\ UNCHANGED <<backend, dbs, run, verdict>>


(* verify_block: the results against as many receipts as there are.        *)
VerifyBlock(results, receipts) ==
    \A i \in DOMAIN results \cap DOMAIN receipts :
        results[i].gas = receipts[i].gas /\ results[i].success = receipts[i].success

(* run_verifier on an executed block: skipped when the node has no         *)
(* receipts for it.                                                        *)
Verify ==
    \/ verdict' = [verdict EXCEPT ![run.block] =
                     IF VerifyBlock(run.results, Canon[run.block].receipts)
                     THEN "passed" ELSE "failed"]
    \/ verdict' = [verdict EXCEPT ![run.block] = "skipped"]

CommitHeader ==
    /\ pc = "header"
    /\ kv' = [kv EXCEPT !.header[run.block] = Root(trie)]
    /\ pc' = "blockDone"
    /\ Verify
    /\ UNCHANGED <<backend, mem, trie, rpc, run, hist, faults>>

CommitHeaderFails ==
    /\ pc = "header"
    /\ Fault
    /\ pc' = "blockDone"
    /\ hist' = [hist EXCEPT !.failed = @ \cup {run.block}, !.headless = @ \cup {run.block}]
    /\ UNCHANGED <<backend, dbs, run, verdict>>

(* commit_block of the remote database: save the file, move on.            *)
CommitRpc ==
    /\ pc = "tx" /\ backend = "rpc" /\ Len(run.results) = Len(Chain[run.block])
    /\ LET saved == [rpc EXCEPT !.files = Over(At(rpc.state_block, rpc.file_cache), @)]
       IN  rpc' = LoadCacheForBlock(saved, run.block)
    /\ pc' = "blockDone"
    /\ hist' = Committed(hist, run.block)
    /\ Verify
    /\ UNCHANGED <<backend, mem, trie, kv, run, faults>>

(* The process ends at any point and starts again; the disk stays.         *)
CrashExec ==
    /\ Fault
    /\ pc' = "down" /\ mem' = EmptyMem /\ run' = NoRun
    /\ rpc' = [rpc EXCEPT !.state_block = 0, !.file_cache = EmptyWorld]
    /\ hist' = [hist EXCEPT !.torn = @ \/ pc \in {"trieGenesis", "trieHeader"},
                            !.headless = IF pc = "header" THEN @ \cup {run.block} ELSE @,
                            !.tainted = {}, !.astray = FALSE,
                            !.off = backend = "trie" /\ (@ \/ pc = "trieGenesis")]
    /\ UNCHANGED <<backend, trie, kv, verdict>>

ExecStep ==
    \/ OpenKv \/ KvGenesisCode \/ KvGenesisHeader
    \/ OpenTrie \/ TrieGenesis \/ TrieGenesisHeader
    \/ ExecuteTx \/ ReadFails \/ StoreCode \/ CommitTrie \/ CommitTrieFails
    \/ CommitHeader \/ CommitHeaderFails \/ CommitRpc
=============================================================================
