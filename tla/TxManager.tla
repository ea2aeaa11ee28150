----------------------------- MODULE TxManager -----------------------------
(***************************************************************************)
(* The transaction manager (crates/consensus/txmgr/src): nonce tracker,    *)
(* gas oracle, builder, submitter, send state and receipt monitor, used by *)
(* several senders of one account against an L1 with a mempool.            *)
(*                                                                         *)
(* The crate is a library: the order in which a sender calls it, and what  *)
(* it does with an error, is the order the crate's documentation gives.    *)
(* Every await of the library (an RPC call, the tracker's lock) is a step  *)
(* boundary.  A transaction is its sender, nonce and caps; that record     *)
(* stands for its hash.                                                    *)
(***************************************************************************)
EXTENDS Gas, Sequences, FiniteSets

CONSTANTS
    Sender,            \* tasks that share the tracker and the account
    BlobSender,        \* the senders whose candidate carries a blob sidecar
    MayRevert,         \* the senders whose transaction may revert on L1
    Config,            \* TxManagerConfig
    OwnCaps,           \* what a sender may pass to GasCaps::new, nothing to ask the oracle
    BaseFees,          \* base fees a latest header may carry
    Excesses,          \* excess blob gas it may carry, None before EIP-4844
    MaxFee,            \* dearest transaction the account can pay for
    MaxFaults,         \* bound: resets, reorganized blocks and failed RPC calls together
    MaxBumps           \* bound: fee bumps of a sender

(* TxManagerConfig::default(), the fields the library reads.               *)
Defaults ==
    [num_confirmations |-> 10,
     safe_abort_nonce_too_low_count |-> 3,
     min_tip_cap |-> 1,
     price_bump_percent |-> 10,
     blob_price_bump_percent |-> 100]

(* TxManagerConfigBuilder: a setter overrides its field, the rest keep     *)
(* their defaults.                                                         *)
Build(settings) ==
    [f \in DOMAIN Defaults |->
        IF f \in DOMAIN settings THEN settings[f] ELSE Defaults[f]]

ASSUME TxAssumption ==
    /\ BlobSender \subseteq Sender
    /\ MayRevert \subseteq Sender
    /\ None \notin Sender
    /\ Config \in [DOMAIN Defaults -> Nat]
    /\ BaseFees \subseteq Nat
    /\ OwnCaps \in [Sender -> SUBSET GasCaps]
    /\ Excesses \subseteq Nat \cup {None}
    /\ {MaxFee, MaxFaults, MaxBumps} \subseteq Nat

VARIABLES
    chain,      \* L1: sequence of blocks, each the set of our transactions in it
    pool,       \* L1: pending transactions of the account
    nonce,      \* NonceTracker::nonce
    lock,       \* who holds the tracker's write lock across an await, or None
    pc,         \* where each sender is
    held,       \* each sender's nonce
    caps,       \* each sender's gas caps
    sendState,  \* each sender's SendState
    sent,       \* transactions of each sender's current send
    fetched,    \* chain nonce reset() got before it waits for the lock
    receipt,    \* receipt each sender waits to see confirmed
    before,     \* history: transactions of each sender's earlier sends
    unheard,    \* history: transactions L1 took and the answer was lost, of its current send
    undone,     \* history: whether L1 took the block of its receipt back while it waited
                \* for confirmations, and how many blocks since it got them
    epoch,      \* history: how often reset() has been applied
    heldEpoch,  \* history: epoch in which each sender got its nonce
    faults      \* counts resets, reorgs and RPC errors

tracker == <<nonce, lock>>
past == <<before, unheard, undone>>
senders == <<pc, held, caps, sendState, sent, fetched, receipt, heldEpoch, past>>
vars == <<chain, pool, tracker, senders, epoch, faults>>

Tx == [from: Sender, nonce: Nat, caps: GasCaps]
Receipt == [txs: SUBSET Tx, block: Nat]

NoReceipt == [txs |-> {}, block |-> 0]

Undone == [receipt: BOOLEAN, since: Nat]

NothingUndone == [receipt |-> FALSE, since |-> 0]

SendState == [mined: SUBSET Tx, published: Nat, tooLow: Nat, bump: BOOLEAN, bumps: Nat]

NewSendState == [mined |-> {}, published |-> 0, tooLow |-> 0, bump |-> FALSE, bumps |-> 0]

IsBlob(s) == s \in BlobSender

-----------------------------------------------------------------------------

(* SendState.                                                              *)
TxPublished(st) == [st EXCEPT !.published = @ + 1]
TxMined(st, tx) == [st EXCEPT !.mined = @ \cup {tx}]
TxNotMined(st, txs) ==
    LET left == st.mined \ txs
    IN  [st EXCEPT !.mined = left, !.tooLow = IF left = {} THEN 0 ELSE @]
NonceTooLow(st) == [st EXCEPT !.tooLow = @ + 1]
SetBumpFees(st) == [st EXCEPT !.bump = TRUE, !.bumps = @ + 1]
TakeBumpFees(st) == [st EXCEPT !.bump = FALSE]

ShouldAbortNonce(st) ==
    LET threshold == Config.safe_abort_nonce_too_low_count
    IN  threshold > 0 /\ st.tooLow >= threshold

(* TxSubmitter::should_abort                                               *)
ShouldAbort(error, st) ==
    \/ error \in {"AlreadyReserved", "InsufficientFunds", "NonceTooLowAbort"}
    \/ error = "NonceTooLow" /\ ShouldAbortNonce(st)

(* TxError::from_rpc_error, with the test publish() makes before it: what  *)
(* the node's complaint is turned into.                                    *)
FromRpcError(complaint) ==
    CASE complaint = "already known" -> "AlreadyReserved"
      [] complaint = "underpriced" -> "Underpriced"
      [] complaint = "nonce too low" -> "NonceTooLow"
      [] complaint = "insufficient funds" -> "InsufficientFunds"
      [] complaint = "reverted" -> "Reverted"
      [] OTHER -> "Rpc"

Fault == faults < MaxFaults /\ faults' = faults + 1

-----------------------------------------------------------------------------
(* L1, external: a mempool that replaces a pending transaction of the same *)
(* nonce only for fees raised by the protocol's percentage, and a chain    *)
(* that mines the account's transactions in nonce order.                   *)
OnChain == UNION {chain[i] : i \in DOMAIN chain}
AccountNonce == Cardinality(OnChain)

Replaces(new, old) ==
    LET raised(n, o, pct) == n > o /\ n * 100 >= Bumped(o, pct) * 100
        pct == IF new.caps.blob = None THEN 10 ELSE 100
    IN  /\ raised(new.caps.tip, old.caps.tip, pct)
        /\ raised(new.caps.fee, old.caps.fee, pct)
        /\ new.caps.blob # None => raised(new.caps.blob, old.caps.blob, pct)

(* The first objection that applies.                                       *)
Complaint(tx) ==
    IF tx \in pool THEN "already known"
    ELSE IF tx.caps.tip > tx.caps.fee THEN "tip above fee cap"
    ELSE IF tx.nonce < AccountNonce THEN "nonce too low"
    ELSE IF tx.caps.fee > MaxFee THEN "insufficient funds"
    ELSE IF \E p \in pool : p.nonce = tx.nonce /\ ~ Replaces(tx, p) THEN "underpriced"
    ELSE "none"

Accept(tx) == {p \in pool : p.nonce # tx.nonce} \cup {tx}

TrailingEmpty ==
    \A i \in DOMAIN chain : i > Len(chain) - Config.num_confirmations => chain[i] = {}

Includable == {tx \in pool : tx.nonce = AccountNonce}

(* A new block.  Empty ones matter only as confirmations, so no more are   *)
(* added than a confirmation counts.                                       *)
Mine ==
    /\ \/ \E tx \in Includable :
            /\ chain' = Append(chain, {tx})
            /\ pool' = pool \ {p \in pool : p.nonce = tx.nonce}
       \/ /\ Includable = {}
          /\ chain # << >> /\ ~ TrailingEmpty
          /\ chain' = Append(chain, {})
          /\ pool' = pool
    /\ UNCHANGED <<tracker, senders, epoch, faults>>

(* What the last block's going means to a sender's receipt.                *)
UndoneBlock(s) ==
    CASE pc[s] = "mined" /\ receipt[s].block = Len(chain) -> [undone[s] EXCEPT !.receipt = TRUE]
      [] pc[s] = "confirmed" -> [undone[s] EXCEPT !.since = @ + 1]
      [] OTHER -> undone[s]

(* A reorganization takes the last block back; what was in it is pending   *)
(* again, or forgotten.                                                    *)
Reorg ==
    /\ Fault
    /\ chain # << >>
    /\ LET n == Len(chain)
           back == chain[n]
       IN  /\ chain' = SubSeq(chain, 1, n - 1)
           /\ pool' \in {pool, pool \cup back}
    /\ undone' = [s \in Sender |-> UndoneBlock(s)]
    /\ UNCHANGED <<tracker, pc, held, caps, sendState, sent, fetched, receipt, heldEpoch, before, unheard, epoch>>

-----------------------------------------------------------------------------
Init ==
    /\ chain = << >>
    /\ pool = {}
    /\ nonce = None
    /\ lock = None
    /\ pc = [s \in Sender |-> "idle"]
    /\ held = [s \in Sender |-> None]
    /\ caps = [s \in Sender |-> [tip |-> 0, fee |-> 0, blob |-> None]]
    /\ sendState = [s \in Sender |-> NewSendState]
    /\ sent = [s \in Sender |-> {}]
    /\ fetched = [s \in Sender |-> None]
    /\ receipt = [s \in Sender |-> NoReceipt]
    /\ before = [s \in Sender |-> {}]
    /\ unheard = [s \in Sender |-> {}]
    /\ undone = [s \in Sender |-> NothingUndone]
    /\ epoch = 0
    /\ heldEpoch = [s \in Sender |-> 0]
    /\ faults = 0

Goto(s, label) == pc' = [pc EXCEPT ![s] = label]

(* Slip: the nonce is handed out and not advanced.                         *)
HandOut_Again(s, n) ==
    /\ nonce' = n
    /\ held' = [held EXCEPT ![s] = n]
    /\ heldEpoch' = [heldEpoch EXCEPT ![s] = epoch]
    /\ Goto(s, "unpriced")

(* next_nonce() returns n and leaves n + 1 in the tracker.                 *)
HandOut(s, n) ==
    /\ nonce' = n + 1
    /\ held' = [held EXCEPT ![s] = n]
    /\ heldEpoch' = [heldEpoch EXCEPT ![s] = epoch]
    /\ Goto(s, "unpriced")

(* next_nonce() with a cached nonce: the write lock is taken and released  *)
(* without an await in between.                                            *)
NextNonceCached(s) ==
    /\ pc[s] = "idle"
    /\ lock = None
    /\ nonce # None
    /\ HandOut(s, nonce)
    /\ UNCHANGED <<chain, pool, lock, caps, sendState, sent, fetched, receipt, past, epoch, faults>>

(* next_nonce() without one keeps the write lock while it asks the chain.  *)
NextNonceAsk(s) ==
    /\ pc[s] = "idle"
    /\ lock = None
    /\ nonce = None
    /\ lock' = s
    /\ Goto(s, "asking")
    /\ UNCHANGED <<chain, pool, nonce, held, caps, sendState, sent, fetched, receipt, past, epoch, heldEpoch, faults>>

(* Slip: the lock is kept.                                                 *)
NextNonceAnswer_KeepsLock(s) ==
    /\ pc[s] = "asking"
    /\ HandOut(s, AccountNonce)
    /\ UNCHANGED <<chain, pool, lock, caps, sendState, sent, fetched, receipt, past, epoch, faults>>

NextNonceAnswer(s) ==
    /\ pc[s] = "asking"
    /\ HandOut(s, AccountNonce)
    /\ lock' = None
    /\ UNCHANGED <<chain, pool, caps, sendState, sent, fetched, receipt, past, epoch, faults>>

NextNonceFails(s) ==
    /\ pc[s] = "asking"
    /\ Fault
    /\ lock' = None
    /\ Goto(s, "idle")
    /\ UNCHANGED <<chain, pool, nonce, held, caps, sendState, sent, fetched, receipt, past, epoch, heldEpoch>>

(* reset() asks the chain first and takes the lock afterwards; the sender  *)
(* then begins a new send.                                                 *)
ResetAsk(s) ==
    /\ pc[s] \in {"idle", "aborted"}
    /\ Fault
    /\ fetched' = [fetched EXCEPT ![s] = AccountNonce]
    /\ Goto(s, "resetting")
    /\ UNCHANGED <<chain, pool, tracker, held, caps, sendState, sent, receipt, past, epoch, heldEpoch>>

(* reset() fails before it has touched the tracker.                        *)
ResetFails(s) ==
    /\ pc[s] \in {"idle", "aborted"}
    /\ Fault
    /\ UNCHANGED <<chain, pool, tracker, senders, epoch>>

ResetApply(s) ==
    /\ pc[s] = "resetting"
    /\ lock = None
    /\ nonce' = fetched[s]
    /\ epoch' = epoch + 1
    /\ fetched' = [fetched EXCEPT ![s] = None]
    /\ sendState' = [sendState EXCEPT ![s] = NewSendState]
    /\ before' = [before EXCEPT ![s] = @ \cup sent[s]]
    /\ sent' = [sent EXCEPT ![s] = {}]
    /\ unheard' = [unheard EXCEPT ![s] = {}]
    /\ held' = [held EXCEPT ![s] = None]
    /\ Goto(s, "idle")
    /\ UNCHANGED <<chain, pool, lock, caps, receipt, undone, heldEpoch, faults>>

(* The blob fee of each excess a header may carry.                         *)
BlobFee == [e \in Excesses |-> Optional(CalcBlobFee, e)]

(* What a sender may start from: suggest_gas_caps() from the latest        *)
(* header, or GasCaps::new of what the sender brings itself.               *)
FirstCaps(s) ==
    IF OwnCaps[s] = {}
    THEN {SuggestGasCaps(base, BlobFee[excess], Config.min_tip_cap) :
            base \in BaseFees, excess \in Excesses}
    ELSE {NewGasCaps(own.fee, own.tip, own.blob) : own \in OwnCaps[s]}

Price(s) ==
    /\ pc[s] = "unpriced"
    /\ \E first \in FirstCaps(s) : caps' = [caps EXCEPT ![s] = first]
    /\ Goto(s, "priced")
    /\ UNCHANGED <<chain, pool, tracker, held, sendState, sent, fetched, receipt, past, epoch, heldEpoch, faults>>

(* The header cannot be had: GasEstimation.  should_abort() counts it as   *)
(* one to retry, is_retryable() does not; a sender goes by either.         *)
PriceFails(s) ==
    /\ pc[s] = "unpriced"
    /\ OwnCaps[s] = {}
    /\ Fault
    /\ \/ Goto(s, "unpriced")
       \/ Goto(s, "aborted")
    /\ UNCHANGED <<chain, pool, tracker, held, caps, sendState, sent, fetched, receipt, past, epoch, heldEpoch>>

(* Slip: blob transactions are bumped like others.                         *)
BumpPercent_NoBlob(s) == Config.price_bump_percent

BumpPercent(s) ==
    IF IsBlob(s) THEN Config.blob_price_bump_percent ELSE Config.price_bump_percent

(* The next attempt bumps the caps if the flag asks for it.                *)
Bump(s) ==
    /\ pc[s] = "priced"
    /\ sendState[s].bump
    /\ sendState' = [sendState EXCEPT ![s] = TakeBumpFees(@)]
    /\ caps' = [caps EXCEPT ![s] = BumpGasCaps(@, BumpPercent(s))]
    /\ UNCHANGED <<chain, pool, tracker, pc, held, sent, fetched, receipt, past, epoch, heldEpoch, faults>>

(* build_request: the blob fee goes in for a candidate with a sidecar.     *)
RequestCaps(s, c) == IF IsBlob(s) THEN c ELSE [c EXCEPT !.blob = None]

BuildRequest(s) ==
    [from |-> s, nonce |-> held[s], caps |-> RequestCaps(s, caps[s])]

(* What the sender makes of an error of publish().                         *)
AfterError(s, error) ==
    LET st == CASE error = "NonceTooLow" -> NonceTooLow(sendState[s])
                [] error = "Underpriced" -> SetBumpFees(sendState[s])
                [] OTHER -> sendState[s]
    IN  /\ sendState' = [sendState EXCEPT ![s] = st]
        /\ Goto(s, IF ShouldAbort(error, st) THEN "aborted" ELSE "priced")

PublishAttempt(s) ==
    /\ pc[s] = "priced"
    /\ ~ sendState[s].bump
    /\ sent' = [sent EXCEPT ![s] = @ \cup {BuildRequest(s)}]
    /\ UNCHANGED <<chain, tracker, held, caps, fetched, receipt, before, undone, epoch, heldEpoch>>

PublishAccepted(s) ==
    /\ PublishAttempt(s)
    /\ Complaint(BuildRequest(s)) = "none"
    /\ pool' = Accept(BuildRequest(s))
    /\ sendState' = [sendState EXCEPT ![s] = TxPublished(@)]
    /\ Goto(s, "published")
    /\ UNCHANGED <<unheard, faults>>

PublishRejected(s) ==
    LET complaint == Complaint(BuildRequest(s))
    IN  /\ PublishAttempt(s)
        /\ complaint # "none"
        /\ complaint = "underpriced" => sendState[s].bumps <= MaxBumps
        /\ AfterError(s, FromRpcError(complaint))
        /\ UNCHANGED <<pool, unheard, faults>>

(* The call fails, before or after the node took the transaction.          *)
PublishFails(s) ==
    /\ PublishAttempt(s)
    /\ Complaint(BuildRequest(s)) = "none"
    /\ Fault
    /\ \/ UNCHANGED <<pool, unheard>>
       \/ /\ pool' = Accept(BuildRequest(s))
          /\ unheard' = [unheard EXCEPT ![s] = @ \cup {BuildRequest(s)}]
    /\ AfterError(s, FromRpcError("connection"))

(* The resubmission timeout passes without a receipt.                      *)
ResubmissionTimeout(s) ==
    /\ pc[s] = "published"
    /\ sendState[s].bumps < MaxBumps
    /\ sendState' = [sendState EXCEPT ![s] = SetBumpFees(@)]
    /\ Goto(s, "priced")
    /\ UNCHANGED <<chain, pool, tracker, held, caps, sent, fetched, receipt, past, epoch, heldEpoch, faults>>

(* wait_for_receipt: get_receipt() of one of the sender's hashes.          *)
GetReceipt(s) ==
    /\ pc[s] = "published"
    /\ \E tx \in sent[s], i \in DOMAIN chain :
        /\ tx \in chain[i]
        /\ sendState' = [sendState EXCEPT ![s] = TxMined(@, tx)]
        /\ receipt' = [receipt EXCEPT ![s] = [txs |-> {tx}, block |-> i]]
    /\ Goto(s, "mined")
    /\ UNCHANGED <<chain, pool, tracker, held, caps, sent, fetched, past, epoch, heldEpoch, faults>>

(* The poll fails; wait_for_receipt() ends with the error and is called    *)
(* again.                                                                  *)
GetReceiptFails(s) ==
    /\ pc[s] = "published"
    /\ Fault
    /\ UNCHANGED <<chain, pool, tracker, senders, epoch>>

(* get_receipt() finds a receipt whose status is failure.                  *)
ReceiptReverted(s) ==
    /\ pc[s] = "published"
    /\ s \in MayRevert
    /\ sent[s] \cap OnChain # {}
    /\ Goto(s, "reverted")
    /\ UNCHANGED <<chain, pool, tracker, held, caps, sendState, sent, fetched, receipt, past, epoch, heldEpoch, faults>>

(* Slip: the block of inclusion counts as well.                            *)
IsConfirmed_Included(r) ==
    /\ Len(chain) >= r.block
    /\ Len(chain) - r.block + 1 >= Config.num_confirmations

(* is_confirmed looks at the block number alone.                           *)
IsConfirmed(r) ==
    /\ Len(chain) >= r.block
    /\ Len(chain) - r.block >= Config.num_confirmations

WaitForConfirmations(s) ==
    /\ pc[s] = "mined"
    /\ IsConfirmed(receipt[s])
    /\ Goto(s, "confirmed")
    /\ UNCHANGED <<chain, pool, tracker, held, caps, sendState, sent, fetched, receipt, past, epoch, heldEpoch, faults>>

(* is_confirmed() cannot get the block number; wait_for_confirmations()    *)
(* ends with the error and is called again with the same receipt.          *)
WaitForConfirmationsFails(s) ==
    /\ pc[s] = "mined"
    /\ Fault
    /\ UNCHANGED <<chain, pool, tracker, senders, epoch>>

(* A sender that polls its hash again after a reorganization starts over.  *)
ReceiptGone(s) ==
    /\ pc[s] = "mined"
    /\ receipt[s].txs \cap OnChain = {}
    /\ sendState' = [sendState EXCEPT ![s] = TxNotMined(@, receipt[s].txs)]
    /\ receipt' = [receipt EXCEPT ![s] = NoReceipt]
    /\ undone' = [undone EXCEPT ![s] = NothingUndone]
    /\ Goto(s, "published")
    /\ UNCHANGED <<chain, pool, tracker, held, caps, sent, fetched, before, unheard, epoch, heldEpoch, faults>>

Call(s) ==
    \/ NextNonceCached(s) \/ NextNonceAsk(s) \/ NextNonceAnswer(s)
    \/ ResetApply(s) \/ Price(s) \/ Bump(s)
    \/ PublishAccepted(s) \/ PublishRejected(s)
    \/ GetReceipt(s) \/ ReceiptReverted(s) \/ WaitForConfirmations(s)

Trouble(s) ==
    \/ NextNonceFails(s) \/ ResetAsk(s) \/ ResetFails(s) \/ PriceFails(s) \/ PublishFails(s)
    \/ GetReceiptFails(s) \/ WaitForConfirmationsFails(s)
    \/ ResubmissionTimeout(s) \/ ReceiptGone(s)

Next == Mine \/ Reorg \/ \E s \in Sender : Call(s) \/ Trouble(s)

Spec == Init /\ [][Next]_vars

(* L1 goes on mining, and a sender goes on with what it has begun.         *)
FairSpec == Spec /\ WF_vars(Mine) /\ \A s \in Sender : WF_vars(Call(s))

-----------------------------------------------------------------------------
TypeOK ==
    /\ chain \in Seq(SUBSET Tx)
    /\ pool \subseteq Tx
    /\ nonce \in Nat \cup {None}
    /\ lock \in Sender \cup {None}
    /\ pc \in [Sender -> {"idle", "asking", "resetting", "unpriced", "priced", "published",
                          "mined", "confirmed", "aborted", "reverted"}]
    /\ held \in [Sender -> Nat \cup {None}]
    /\ caps \in [Sender -> GasCaps]
    /\ sendState \in [Sender -> SendState]
    /\ sent \in [Sender -> SUBSET Tx]
    /\ \A s \in Sender :
        /\ pc[s] = "resetting" => fetched[s] \in Nat
        /\ pc[s] \in {"mined", "confirmed"} => receipt[s] \in Receipt \ {NoReceipt}

(* NonceTracker is documented as thread-safe: two senders that hold the    *)
(* same nonce got it on different sides of an applied reset(), whatever    *)
(* the order in which they asked, waited for the lock and were answered.   *)
NoncesUnique ==
    \A s, t \in Sender :
        s # t /\ held[s] # None /\ held[s] = held[t] => heldEpoch[s] # heldEpoch[t]

(* wait_for_confirmations: unless L1 took the block of the receipt back    *)
(* while the sender waited, which a look at the block number cannot tell,  *)
(* a confirmed transaction is where the receipt says, and only a           *)
(* reorganization of more blocks than the confirmations it waited for can  *)
(* take it away; until then no other send is confirmed with its nonce,     *)
(* even if a reset() gave the nonce to both.                               *)
Settled(s) ==
    pc[s] = "confirmed" /\ ~ undone[s].receipt /\ undone[s].since <= Config.num_confirmations

ConfirmedOnce ==
    \A s \in Sender : Settled(s) =>
        /\ receipt[s].txs \subseteq chain[receipt[s].block]
        /\ Len(chain) + undone[s].since - receipt[s].block >= Config.num_confirmations
        /\ \A t \in Sender \ {s} : Settled(t) => held[t] # held[s]

(* should_abort has a send given up                                        *)
(*   - as AlreadyReserved only for a transaction of its own that is        *)
(*     pending: one whose answer was lost, one of an earlier send, or one  *)
(*     that the bump rounds to itself;                                     *)
(*   - for lack of funds only before L1 has any transaction of this send,  *)
(*     or after a bump;                                                    *)
(*   - for its nonce only if L1 has mined the nonce, and that in this very *)
(*     send as long as reset() was never applied.                          *)
AbortExplained(s) ==
    LET complaint == Complaint(BuildRequest(s))
    IN  /\ complaint = "already known" =>
              \/ BuildRequest(s) \in unheard[s] \cup before[s]
              \/ RequestCaps(s, BumpGasCaps(caps[s], BumpPercent(s))) = RequestCaps(s, caps[s])
        /\ complaint = "insufficient funds" =>
              \/ sendState[s].bumps > 0
              \/ sent[s] \cap (pool \cup OnChain) = {}
        /\ complaint = "nonce too low" =>
              /\ ShouldAbortNonce(NonceTooLow(sendState[s]))
              /\ \E tx \in OnChain : tx.nonce = held[s] /\ (epoch = 0 => tx \in sent[s])

AbortsExplained ==
    [][\A s \in Sender : pc[s] = "priced" /\ pc'[s] = "aborted" => AbortExplained(s)]_vars

(* What a send reports is what became of its transaction: confirmed means  *)
(* on L1 to the depth asked for, given up means one of the cases above.    *)
OutcomesTruthful == [](TypeOK /\ ConfirmedOnce) /\ AbortsExplained

(* GasOracle and GasCaps: the tip never exceeds the fee cap, however often *)
(* the caps are bumped, so no transaction is built that L1 must refuse,    *)
(* except from a fee cap of the sender's own that GasCaps::new cuts to a   *)
(* word below the tip's.                                                   *)
CutBelowTip(s) == \E own \in OwnCaps[s] : own.fee % Word < own.tip % Word

CapsOrdered == \A s \in Sender : caps[s].tip <= caps[s].fee \/ CutBelowTip(s)

(* bump_gas_caps: the configured bump is enough for the mempool to replace *)
(* the sender's own pending transaction.  One is refused as underpriced    *)
(* only if the nonce is taken by another sender or by an earlier send, or  *)
(* if the pending one has a fee of which the protocol's percentage is less *)
(* than a wei, so that the division rounds the raise away.                 *)
Felt(c) ==
    LET pct == IF c.blob = None THEN 10 ELSE 100
    IN  \A fee \in {c.tip, c.fee} \cup ({c.blob} \ {None}) : fee * pct >= 100

BumpSuffices ==
    [][\A s \in Sender :
         pc[s] = "priced" /\ ~ sendState[s].bump /\ sendState'[s].bump =>
            \E p \in pool : p.nonce = held[s] /\ (p.from # s \/ p \in before[s] \/ ~ Felt(p.caps))]_vars

(* calc_blob_fee: up to an excess of twice the fraction the blob fee is    *)
(* the exponential of EIP-4844, and beyond it, over the products that      *)
(* saturate, more excess never makes blobs cheaper.                        *)
BlobFeesNear ==
    /\ \A e \in 0..(2 * BlobFraction) : ApproximatesExp(CalcBlobFee(e), e, 6)
    /\ \A e \in 0..(20 * BlobFraction) : CalcBlobFee(e) <= CalcBlobFee(e + 1)

(* Fees are sound from the first suggestion through every bump, in the     *)
(* code's integer arithmetic: ordered, near the true blob fee, and large   *)
(* enough a step, but for the cut and the rounding named above.            *)
FeesSound == []CapsOrdered /\ BumpSuffices /\ BlobFeesNear

(* The configured percentages are at least those the protocol asks for, as *)
(* the defaults are.                                                       *)
PercentsSuffice ==
    Config.price_bump_percent >= 10 /\ Config.blob_price_bump_percent >= 100

(* Until L1 fails or a reset() comes every send ends, confirmed or         *)
(* reverted, unless some sender left a hole: it gave up with its nonce, or *)
(* L1 refuses its cut caps, which should_abort() has it retry for ever.    *)
EverySendEnds ==
    []<>(\/ faults > 0
         \/ \A s \in Sender : pc[s] \in {"confirmed", "reverted"}
         \/ \E t \in Sender : pc[t] = "aborted" \/ caps[t].tip > caps[t].fee)
=============================================================================
