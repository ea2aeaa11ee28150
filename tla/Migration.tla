------------------------------ MODULE Migration ------------------------------
(* The migration of a Reth database into TrieDB (crates/execution/migration): *)
(* the decoders of Reth's compact encoding, and the Migrator that copies      *)
(* PlainAccountState and then PlainStorageState in batches, each table under  *)
(* a read transaction of its own.  The source may be the database of a live   *)
(* Reth node, a run may be cut short at any point, and a later run opens the  *)
(* destination the earlier one left.                                          *)
EXTENDS Integers, Sequences, FiniteSets, FiniteSetsExt, SequencesExt, TLC

CONSTANTS
    Names,          \* the names of the source's states
    World,          \* name -> what the state holds: [accounts, slots]
    AccountTable,   \* name -> PlainAccountState, a sequence of [key, value]
    StorageTable,   \* name -> PlainStorageState, a sequence of [key, value]
    Commits,        \* <<n, m>>: a running Reth node may commit m after n
    Configs,        \* the configurations: [batch_size, log_interval]
    MaxRuns,        \* how often the binary is started
    MaxWriteErrors  \* how many writes TrieDB refuses

ASSUME SourceAssumption ==
    /\ MaxRuns \in Nat /\ MaxWriteErrors \in Nat
    /\ Configs \subseteq [batch_size : Nat, log_interval : Nat]
    /\ Commits \subseteq Names \X Names

(***************************************************************************)
(* Bytes.  Reth writes integers big-endian without leading zeros.          *)
(***************************************************************************)
CompactBytes[n \in Nat] ==
    IF n = 0 THEN <<>> ELSE Append(CompactBytes[n \div 256], n % 256)


FromBeBytes(bytes) == FoldLeft(LAMBDA acc, b : acc * 256 + b, 0, bytes)

NoHash == <<>>
KECCAK_EMPTY == [i \in 1..32 |-> IF i = 1 THEN 197 ELSE 210]
Hash(n) == [i \in 1..32 |-> IF i = 32 THEN n ELSE 0]

(* How Reth stores an account and a storage entry.                         *)
EncodeAccount(acc) ==
    LET nonce   == CompactBytes[acc.nonce]
        balance == CompactBytes[acc.balance]
        flags   == Len(nonce) + 16 * Len(balance) + (IF acc.code = NoHash THEN 0 ELSE 1024)
    IN  <<flags % 256, flags \div 256>> \o nonce \o balance \o acc.code

EncodeEntry(slot, value) == slot \o CompactBytes[value]

(***************************************************************************)
(* The decoders.  read_compact_u64 and read_compact_u256 copy into the last *)
(* len bytes of a fixed buffer: a length above its width panics.           *)
(***************************************************************************)
Decoded(acc) == [tag |-> "ok", account |-> acc]
NotDecoded(tag) == [tag |-> tag]

ReadCompact(bytes, len) == [value |-> FromBeBytes(SubSeq(bytes, 1, len)),
                            rest  |-> SubSeq(bytes, len + 1, Len(bytes))]

FromCompact(bytes) ==
    IF Len(bytes) < 2 THEN NotDecoded("err")
    ELSE
    LET flags       == bytes[1] + 256 * bytes[2]
        buf         == SubSeq(bytes, 3, Len(bytes))
        nonce_len   == flags % 16
        balance_len == (flags \div 16) % 64
        has_hash    == (flags \div 1024) % 2 # 0
    IN  IF Len(buf) < nonce_len + balance_len + (IF has_hash THEN 32 ELSE 0)
        THEN NotDecoded("err")
        ELSE IF nonce_len > 8 \/ balance_len > 32 THEN NotDecoded("panic")
        ELSE LET nonce   == ReadCompact(buf, nonce_len)
                 balance == ReadCompact(nonce.rest, balance_len)
             IN  Decoded([nonce   |-> nonce.value,
                          balance |-> balance.value,
                          code    |-> IF has_hash THEN SubSeq(balance.rest, 1, 32) ELSE NoHash])


(* The storage root passed along is the empty one: TrieDB computes it.     *)
ToTriedbAccount(acc) == [acc EXCEPT !.code = IF @ = NoHash THEN KECCAK_EMPTY ELSE @]


DecodeStorageEntry(bytes) ==
    IF Len(bytes) < 32 \/ Len(bytes) > 64 THEN NotDecoded("err")
    ELSE [tag  |-> "ok", slot |-> SubSeq(bytes, 1, 32),
          value |-> FromBeBytes(SubSeq(bytes, 33, Len(bytes)))]

DecodedAccounts == [n \in Names |->
    [i \in DOMAIN AccountTable[n] |-> FromCompact(AccountTable[n][i].value)]]
DecodedSlots == [n \in Names |->
    [i \in DOMAIN StorageTable[n] |-> DecodeStorageEntry(StorageTable[n][i].value)]]

(***************************************************************************)
(* State.  A TrieDB state is [accounts, slots], both partial functions; a  *)
(* write transaction is the state as it would be after its commit.         *)
(***************************************************************************)
VARIABLES
    src,          \* the source's current state (a running Reth node moves it)
    config,       \* MigratorConfig
    phase,        \* where migrate_all is, or how the last run ended
    snap,         \* the state the open read transaction sees
    cursor,       \* the entry it is about to read
    batch_count,
    dst_txn,      \* the open write transaction
    destination,  \* what is committed
    stats,        \* MigrationStats
    runs,         \* runs started
    refused,      \* writes TrieDB refused so far
    read          \* every state some run opened a read transaction on

vars == <<src, config, phase, snap, cursor, batch_count, dst_txn, destination,
          stats, runs, refused, read>>
run_vars == <<phase, snap, cursor, batch_count, dst_txn, stats>>

NoStats == [accounts_migrated |-> 0, account_errors |-> 0,
            storage_slots_migrated |-> 0, storage_errors |-> 0]
EmptyState == [accounts |-> <<>>, slots |-> <<>>]
Running == {"opening", "opened", "accounts", "accounts_done", "storage"}
Ended == {"done", "failed", "panicked"}

Init ==
    /\ src \in Names
    /\ config \in Configs
    /\ phase = "idle"
    /\ snap = src
    /\ cursor = 1
    /\ batch_count = 0
    /\ dst_txn = EmptyState
    /\ destination = EmptyState
    /\ stats = NoStats
    /\ runs = 0
    /\ refused = 0
    /\ read = {}

(* TrieDB.  Writing an account that exists may keep its storage or, as it is *)
(* written with the empty storage root, lose it; a slot needs its account.   *)
SetAccount(state, a, acc, keep) ==
    [accounts |-> (a :> acc) @@ state.accounts,
     slots    |-> IF keep THEN state.slots
                  ELSE [k \in {k \in DOMAIN state.slots : k[1] # a} |-> state.slots[k]]]

SetStorageSlot(state, a, slot, value) ==
    [state EXCEPT !.slots = (<<a, slot>> :> value) @@ @]

HasAccount(state, a) == a \in DOMAIN state.accounts

(***************************************************************************)
(* A run                                                                   *)
(***************************************************************************)
(* main starts with fresh statistics and ends, whatever the run's errors.   *)
Main ==
    /\ phase \in {"idle"} \cup Ended
    /\ runs < MaxRuns
    /\ runs' = runs + 1
    /\ stats' = NoStats
    /\ phase' = "opening"
    /\ UNCHANGED <<src, config, snap, cursor, batch_count, dst_txn, destination, refused, read>>

(* Migrator::with_config: a destination that exists is opened as it is.     *)
WithConfig ==
    /\ phase = "opening"
    /\ phase' = "opened"
    /\ dst_txn' = destination
    /\ UNCHANGED <<src, config, snap, cursor, batch_count, destination, stats, runs, refused, read>>

(* A table is read under a transaction of its own, that sees the source as   *)
(* it is now, and written under another.                                     *)
BeginTable ==
    /\ snap' = src
    /\ read' = read \cup {src}
    /\ cursor' = 1
    /\ batch_count' = 0
    /\ dst_txn' = destination
    /\ UNCHANGED <<src, config, destination, stats, runs, refused>>

OpenAccounts == phase = "opened" /\ phase' = "accounts" /\ BeginTable

(* Slip: a batch is committed one entry late.                              *)
EndEntry_Late(state) ==
    /\ cursor' = cursor + 1
    /\ dst_txn' = state
    /\ IF batch_count + 1 > config.batch_size
       THEN batch_count' = 0 /\ destination' = state
       ELSE batch_count' = batch_count + 1 /\ UNCHANGED destination
    /\ UNCHANGED <<phase, src, config, snap, runs, read>>

(* The tail of both loops: the progress log divides by log_interval, then  *)
(* the batch is committed when it is full.                                 *)
EndEntry(state) ==
    /\ IF config.log_interval = 0
       THEN /\ phase' = "panicked"
            /\ UNCHANGED <<batch_count, cursor, destination, dst_txn>>
       ELSE /\ cursor' = cursor + 1
            /\ dst_txn' = state
            /\ IF batch_count + 1 >= config.batch_size
               THEN batch_count' = 0 /\ destination' = state
               ELSE batch_count' = batch_count + 1 /\ UNCHANGED destination
            /\ UNCHANGED phase
    /\ UNCHANGED <<src, config, snap, runs, read>>

(* A write TrieDB refuses is counted and the entry is passed over.         *)
Refuse ==
    /\ refused < MaxWriteErrors
    /\ refused' = refused + 1

MigrateAccount ==
    /\ phase = "accounts"
    /\ cursor <= Len(AccountTable[snap])
    /\ LET key == AccountTable[snap][cursor].key
           d   == DecodedAccounts[snap][cursor]
       IN  \/ /\ d.tag = "ok"
              /\ \E keep \in BOOLEAN :
                   EndEntry(SetAccount(dst_txn, key, ToTriedbAccount(d.account), keep))
              /\ stats' = [stats EXCEPT !.accounts_migrated = @ + 1]
              /\ UNCHANGED refused
           \/ /\ d.tag = "ok"
              /\ Refuse
              /\ EndEntry(dst_txn)
              /\ stats' = [stats EXCEPT !.account_errors = @ + 1]
           \/ /\ d.tag = "err"
              /\ EndEntry(dst_txn)
              /\ stats' = [stats EXCEPT !.account_errors = @ + 1]
              /\ UNCHANGED refused

(* A length nibble above the buffer's width: slicing the buffer panics.    *)
DecoderPanics ==
    /\ phase = "accounts"
    /\ cursor <= Len(AccountTable[snap])
    /\ DecodedAccounts[snap][cursor].tag = "panic"
    /\ phase' = "panicked"
    /\ UNCHANGED <<src, config, snap, cursor, batch_count, dst_txn, destination, stats,
                   runs, refused, read>>

(* The last commit of migrate_accounts.                                    *)
AccountsDone ==
    /\ phase = "accounts"
    /\ cursor > Len(AccountTable[snap])
    /\ phase' = "accounts_done"
    /\ destination' = dst_txn
    /\ UNCHANGED <<src, config, snap, cursor, batch_count, dst_txn, stats, runs, refused, read>>

(* migrate_storage begins: a new read transaction, a new write transaction. *)
OpenStorage == phase = "accounts_done" /\ phase' = "storage" /\ BeginTable

(* Slip: an entry that cannot be written is tried again.                   *)
MigrateSlot_Retries ==
    /\ phase = "storage"
    /\ cursor <= Len(StorageTable[snap])
    /\ LET key == StorageTable[snap][cursor].key
           d   == DecodedSlots[snap][cursor]
       IN  IF d.tag = "ok" /\ HasAccount(dst_txn, key)
           THEN /\ EndEntry(SetStorageSlot(dst_txn, key, d.slot, d.value))
                /\ stats' = [stats EXCEPT !.storage_slots_migrated = @ + 1]
                /\ UNCHANGED refused
           ELSE /\ stats' = [stats EXCEPT !.storage_errors = 1]
                /\ UNCHANGED <<src, config, phase, snap, cursor, batch_count, dst_txn,
                               destination, runs, refused, read>>

(* process_storage_entry and the loop around it.                           *)
MigrateSlot ==
    /\ phase = "storage"
    /\ cursor <= Len(StorageTable[snap])
    /\ LET key == StorageTable[snap][cursor].key
           d   == DecodedSlots[snap][cursor]
       IN  \/ /\ d.tag = "ok" /\ HasAccount(dst_txn, key)
              /\ EndEntry(SetStorageSlot(dst_txn, key, d.slot, d.value))
              /\ stats' = [stats EXCEPT !.storage_slots_migrated = @ + 1]
              /\ UNCHANGED refused
           \/ /\ d.tag = "ok" /\ HasAccount(dst_txn, key)
              /\ Refuse
              /\ EndEntry(dst_txn)
              /\ stats' = [stats EXCEPT !.storage_errors = @ + 1]
           \/ /\ d.tag # "ok" \/ ~HasAccount(dst_txn, key)
              /\ EndEntry(dst_txn)
              /\ stats' = [stats EXCEPT !.storage_errors = @ + 1]
              /\ UNCHANGED refused


(* The last commit of migrate_storage; main reports and closes.            *)
StorageDone ==
    /\ phase = "storage"
    /\ cursor > Len(StorageTable[snap])
    /\ phase' = "done"
    /\ destination' = dst_txn
    /\ UNCHANGED <<src, config, snap, cursor, batch_count, dst_txn, stats, runs, refused, read>>

(* A cursor, a begin or a commit returns an error, or the process is killed: *)
(* the open write transaction is gone.                                       *)
RunFails ==
    /\ phase \in Running
    /\ phase' = "failed"
    /\ dst_txn' = destination
    /\ UNCHANGED <<src, config, snap, cursor, batch_count, destination, stats,
                   runs, refused, read>>

(* The Reth node that owns the source commits a block.                     *)
SourceCommits ==
    /\ \E n \in Names : <<src, n>> \in Commits /\ src' = n
    /\ UNCHANGED <<config, run_vars, destination, runs, refused, read>>

(* Slip: storage may be migrated before the accounts.                      *)
MigrateAll_StorageFirst ==
    \/ Main \/ WithConfig \/ OpenAccounts \/ MigrateAccount \/ DecoderPanics \/ AccountsDone
    \/ OpenStorage \/ MigrateSlot \/ StorageDone
    \/ /\ phase = "accounts" /\ cursor = 1
       /\ phase' = "accounts_done"
       /\ UNCHANGED <<src, config, snap, cursor, batch_count, dst_txn, destination, stats,
                      runs, refused, read>>

(* migrate_all: accounts before storage.                                   *)
MigrateAll ==
    \/ Main \/ WithConfig \/ OpenAccounts \/ MigrateAccount \/ DecoderPanics \/ AccountsDone
    \/ OpenStorage \/ MigrateSlot \/ StorageDone

Next == MigrateAll \/ RunFails \/ SourceCommits

Spec == Init /\ [][Next]_vars

(* The migration is one thread that never blocks once it is started; whether *)
(* it is started, fails or Reth commits is nobody's duty.                    *)
FairSpec ==
    /\ Spec
    /\ WF_vars(MigrateAll /\ phase \in Running)

------------------------------------------------------------------------------
(* What the destination holds when source state n is copied faithfully: an *)
(* account without code has the hash of the empty code.                    *)
Migrated(n) ==
    [accounts |-> [a \in DOMAIN World[n].accounts |->
                      LET acc == World[n].accounts[a]
                      IN  IF acc.code = NoHash THEN [acc EXCEPT !.code = KECCAK_EMPTY] ELSE acc],
     slots    |-> World[n].slots]

Errors == stats.account_errors + stats.storage_errors
WellFormed(n) ==
    /\ \A i \in DOMAIN AccountTable[n] : DecodedAccounts[n][i].tag = "ok"
    /\ \A i \in DOMAIN StorageTable[n] : DecodedSlots[n][i].tag = "ok"

Hashes == [1..32 -> 0..255]
StateOK(state) ==
    /\ \A a \in DOMAIN state.accounts :
         /\ state.accounts[a].nonce \in Nat
         /\ state.accounts[a].balance \in Nat
         /\ state.accounts[a].code \in Hashes
    /\ \A k \in DOMAIN state.slots : k[2] \in Hashes /\ state.slots[k] \in Nat

(* The types of the state: every code hash and every slot a TrieDB state    *)
(* names is 32 bytes wide, whatever Reth's variable-length values were.     *)
TypeOK ==
    /\ src \in Names /\ snap \in Names /\ read \subseteq Names
    /\ config \in Configs
    /\ phase \in {"idle"} \cup Running \cup Ended
    /\ cursor \in Nat \ {0} /\ batch_count \in Nat
    /\ runs \in 0..MaxRuns /\ refused \in 0..MaxWriteErrors
    /\ stats \in [accounts_migrated : Nat, account_errors : Nat,
                  storage_slots_migrated : Nat, storage_errors : Nat]
    /\ StateOK(dst_txn) /\ StateOK(destination)

(* A migration that reports no error over a source that stood still copied   *)
(* all of it: nonces, balances, code hashes and slots, whichever runs were   *)
(* cut short or met errors before it (migrate_all over the decoders).        *)
CompleteMeansFaithful ==
    \A n \in Names :
        phase = "done" /\ Errors = 0 /\ read = {n} => destination = Migrated(n)

(* Whatever fails and whatever is malformed, the destination never holds a   *)
(* value the source did not: an entry that cannot be read is left out, not   *)
(* guessed (from_compact and decode_storage_entry return Err).               *)
NothingInvented ==
    /\ \A a \in DOMAIN destination.accounts :
         \E n \in read : /\ a \in DOMAIN World[n].accounts
                         /\ destination.accounts[a] = Migrated(n).accounts[a]
    /\ \A k \in DOMAIN destination.slots :
         \E n \in read : /\ k \in DOMAIN World[n].slots
                         /\ destination.slots[k] = World[n].slots[k]

(* Over one well-formed state of the source, with no write refused, nothing  *)
(* is counted as an error: the accounts are there when their slots are       *)
(* written (the order in migrate_all).                                       *)
NoSpuriousErrors ==
    \A n \in Names :
        read = {n} /\ WellFormed(n) /\ refused = 0 => Errors = 0

(* The copy is faithful: complete when no error is reported, free of values  *)
(* the source never held in any case, and free of errors without a cause.    *)
FaithfulCopy == CompleteMeansFaithful /\ NothingInvented /\ NoSpuriousErrors

(* What the final report counts is on disk when main prints it, and it       *)
(* counts every entry of the two tables once (MigrationStats).               *)
ReportIsDurable ==
    phase = "done" =>
        /\ stats.accounts_migrated <= Cardinality(DOMAIN destination.accounts)
        /\ stats.storage_slots_migrated <= Cardinality(DOMAIN destination.slots)
        /\ runs = 1 => /\ stats.accounts_migrated = Cardinality(DOMAIN destination.accounts)
                       /\ stats.storage_slots_migrated = Cardinality(DOMAIN destination.slots)
        /\ \A n \in Names : read = {n} =>
             stats.accounts_migrated + stats.storage_slots_migrated + Errors
               = Len(AccountTable[n]) + Len(StorageTable[n])

(* The writes a crash loses: fewer than batch_size, none when every entry    *)
(* is committed (the doc's "Batched commits").                               *)
Unflushed ==
      Cardinality({a \in DOMAIN dst_txn.accounts :
          a \notin DOMAIN destination.accounts
            \/ destination.accounts[a] # dst_txn.accounts[a]})
    + Cardinality({k \in DOMAIN dst_txn.slots :
          k \notin DOMAIN destination.slots \/ destination.slots[k] # dst_txn.slots[k]})
LossBounded == Unflushed < Max({config.batch_size, 1})

(* Commits are durable: a report counts what is on disk, and what a crash    *)
(* loses is less than a batch.                                               *)
CommitsDurable == TypeOK /\ ReportIsDurable /\ LossBounded

(* A run that was started ends: done, with an error, or in a panic.          *)
MigrationEnds == phase \in Running ~> phase \in Ended
=============================================================================
