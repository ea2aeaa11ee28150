-------------------------- MODULE ValidatorProofs --------------------------
(***************************************************************************)
(* Proofs about the validator over its databases, for every chain, every   *)
(* set of accounts and every bound on faults: what its checkpoint file     *)
(* says of the blocks, that a batch in the file is not executed again,     *)
(* that the code an account of the trie refers to is in the code store,    *)
(* and that cache, database and headers are the chain's: the executor      *)
(* follows the chain's own execution transaction by transaction.           *)
(***************************************************************************)
EXTENDS Validator, TLAPS, SequenceTheorems, FiniteSetTheorems, WellFoundedInduction

-----------------------------------------------------------------------------
(* The inductive invariant.                                                *)

Opening == {"down", "kvCode", "kvHeader", "openTrie", "trieGenesis", "trieHeader", "opened"}
Executing == {"tx", "commit", "header", "blockDone"}
Busy == Executing \cup {"batch"}

(* The records keep their fields; the headers are those of the chain.      *)
Shapes ==
    /\ hist = [torn |-> hist.torn, ran |-> hist.ran, replayed |-> hist.replayed,
               failed |-> hist.failed, headless |-> hist.headless, tainted |-> hist.tainted,
               astray |-> hist.astray, off |-> hist.off, parted |-> hist.parted, last |-> hist.last]
    /\ hist.last \in Nat
    /\ kv = [exists |-> kv.exists, code |-> kv.code, header |-> kv.header,
             safe |-> kv.safe, unsafe |-> kv.unsafe]
    /\ DOMAIN kv.header = 0..Len(Chain) /\ kv.header = [b \in 0..Len(Chain) |-> kv.header[b]]
    /\ outcome = [n \in 1..Len(Batches) |-> outcome[n]]
    /\ run = [block |-> run.block, results |-> run.results, changes |-> run.changes]

(* Where the role stands: the batch at hand is the last the source         *)
(* delivered and newer than the checkpoint; the file is never ahead of the *)
(* memory.                                                                 *)
RoleInv ==
    /\ pc \in Opening \cup {"idle"} \cup Busy
    /\ cursor \in 0..Len(Batches) /\ batch \in 0..Len(Batches)
    /\ derived \in 0..Len(Batches) /\ saved \in 0..Len(Batches) /\ next \in Nat
    /\ pc \in Opening => cursor = 0 /\ derived = 0
    /\ pc \notin Opening => saved <= derived
    /\ pc \notin Busy => batch = 0
    /\ pc \in Busy => batch > 0 /\ batch = cursor /\ derived < batch /\ Batches[batch].first <= next
    /\ pc \in Executing => run.block = next /\ next <= Batches[batch].last
    /\ pc \in {"commit", "header"} => backend = "trie"

(* Block b was committed, or failed; or its batch n did not decode.         *)
Answered(b) ==
    \/ b \in hist.failed
    \/ backend = "trie" /\ kv.header[b].known
    \/ backend = "rpc" /\ b <= hist.last
Accounted(n, b) == outcome[n] = "corrupt" \/ Answered(b)

(* The batches the validator is done with: those the checkpoint names, in  *)
(* the file or in memory, and those it took before the one at hand.        *)
Done == {n \in 1..Len(Batches) : n <= saved \/ n <= derived \/ (n <= cursor /\ n # batch)}

(* Their blocks are accounted for; those of the batch at hand, up to the   *)
(* next, were executed.                                                    *)
AccountInv ==
    /\ \A n \in Done : \A b \in BatchBlocks(n) : Accounted(n, b)
    /\ pc \in Busy => \A b \in BatchBlocks(batch) : b < next => Answered(b)
    /\ pc = "blockDone" => Answered(run.block)

Inv == Shapes /\ RoleInv /\ AccountInv

-----------------------------------------------------------------------------
(* The constants, one fact each.                                           *)
LEMMA ConstantTypes ==
    /\ Len(Batches) \in Nat /\ DOMAIN Batches = 1..Len(Batches)
    /\ Len(Chain) \in Nat /\ DOMAIN Chain = 1..Len(Chain)
    /\ \A n \in 1..Len(Batches) :
          /\ Batches[n].first \in Nat /\ Batches[n].last \in Nat
          /\ 1 <= Batches[n].first /\ Batches[n].last <= Len(Chain)
          /\ Batches[n].first..Batches[n].last \subseteq 1..Len(Chain)
<1>1. Batches \in Seq([first : Nat, last : Nat]) /\ Chain \in Seq(Seq(Tx))
  BY ValidatorAssumption, ExecAssumption
<1>2. /\ Len(Batches) \in Nat /\ DOMAIN Batches = 1..Len(Batches)
      /\ Len(Chain) \in Nat /\ DOMAIN Chain = 1..Len(Chain)
  BY <1>1, LenProperties
<1>3. \A n \in 1..Len(Batches) : Batches[n] \in [first : Nat, last : Nat]
  BY <1>1, ElementOfSeq
<1>4. \A n \in 1..Len(Batches) : 1 <= Batches[n].first /\ Batches[n].last <= Len(Chain)
  BY <1>2, ValidatorAssumption
<1>5. \A n \in 1..Len(Batches) : Batches[n].first \in Nat /\ Batches[n].last \in Nat
  BY <1>3
<1> QED BY <1>2, <1>4, <1>5

-----------------------------------------------------------------------------
(* The executor.                                                           *)

(* The executor is done with the block at hand: it failed or is committed. *)
BlockAnswered ==
    \/ run.block \in hist'.failed
    \/ backend = "trie" /\ kv'.header[run.block].known
    \/ backend = "rpc" /\ run.block = hist'.last

(* What a step of the executor or of the opening does to what the role     *)
(* relies on: failures and headers are only added, a block is not begun,   *)
(* the last block committed is the one at hand, and the executor is done   *)
(* with a block only when it failed or was committed.                      *)
ExecEffect ==
    /\ Shapes'
    /\ backend' = backend /\ hist'.replayed = hist.replayed
    /\ hist.failed \subseteq hist'.failed
    /\ \A b \in 0..Len(Chain) : kv.header[b].known => kv'.header[b].known
    /\ hist'.last = hist.last \/ (pc \in Executing /\ hist'.last = run.block)
    /\ \/ pc \in Opening /\ pc' \in Opening
       \/ /\ pc \in Executing \ {"blockDone"} /\ pc' \in Executing
          /\ run'.block = run.block
          /\ pc' \in {"commit", "header"} => backend = "trie"
          /\ pc' = "blockDone" => BlockAnswered

(* The history after a block failed.                                       *)
LEMMA FailureShape ==
    ASSUME Shapes, BlockFails
    PROVE  /\ pc' = "blockDone" /\ hist'.failed = hist.failed \cup {run.block}
           /\ hist'.replayed = hist.replayed /\ hist'.last = hist.last
           /\ hist' = [torn |-> hist'.torn, ran |-> hist'.ran, replayed |-> hist'.replayed,
                       failed |-> hist'.failed, headless |-> hist'.headless, tainted |-> hist'.tainted,
                       astray |-> hist'.astray, off |-> hist'.off, parted |-> hist'.parted, last |-> hist'.last]
<1> DEFINE touched == UNION {DOMAIN run.changes[i].accounts : i \in DOMAIN run.changes}
<1>1. /\ pc' = "blockDone"
      /\ hist' = [hist EXCEPT !.failed = @ \cup {run.block}, !.tainted = @ \cup touched]
  BY DEF BlockFails
<1> HIDE DEF touched
<1> QED BY <1>1 DEF Shapes

(* A step that leaves the history, the headers and the block alone.        *)
LEMMA QuietStep ==
    ASSUME Shapes, UNCHANGED <<backend, run, hist, outcome>>, kv'.header = kv.header,
           kv' = [exists |-> kv'.exists, code |-> kv'.code, header |-> kv'.header,
                  safe |-> kv'.safe, unsafe |-> kv'.unsafe],
           \/ pc \in Opening /\ pc' \in Opening
           \/ /\ pc \in Executing \ {"blockDone"} /\ pc' \in Executing \ {"blockDone"}
              /\ pc' \in {"commit", "header"} => backend = "trie"
    PROVE  ExecEffect
<1>1. Shapes'
  BY DEF Shapes
<1> QED BY <1>1 DEF ExecEffect, Executing, Opening

(* A step of the block at hand that ends it with a failure.                *)
LEMMA FailStep ==
    ASSUME Shapes, BlockFails, UNCHANGED <<backend, run, outcome>>, kv'.header = kv.header,
           kv' = [exists |-> kv'.exists, code |-> kv'.code, header |-> kv'.header,
                  safe |-> kv'.safe, unsafe |-> kv'.unsafe],
           pc \in Executing \ {"blockDone"}
    PROVE  ExecEffect
<1>1. Shapes'
  BY FailureShape DEF Shapes
<1>2. /\ run.block \in hist'.failed /\ hist.failed \subseteq hist'.failed
      /\ hist'.replayed = hist.replayed /\ hist'.last = hist.last
      /\ pc' = "blockDone" /\ pc' \in Executing /\ pc' \notin {"commit", "header"}
  BY FailureShape DEF Executing
<1>3. \A b \in 0..Len(Chain) : kv.header[b].known => kv'.header[b].known
  OBVIOUS
<1>4. run'.block = run.block
  OBVIOUS
<1>5. BlockAnswered
  BY <1>2 DEF BlockAnswered
<1> QED BY <1>1, <1>2, <1>3, <1>4, <1>5 DEF ExecEffect

(* Every step of the executor has that effect.                             *)
LEMMA ExecStepEffect ==
    ASSUME Inv, ExecStep, UNCHANGED outcome
    PROVE  ExecEffect
<1>0. Shapes /\ RoleInv
  BY DEF Inv
<1>1. CASE OpenKv
  <2>1. kv'.header = kv.header /\ kv' = [exists |-> kv'.exists, code |-> kv'.code,
           header |-> kv'.header, safe |-> kv'.safe, unsafe |-> kv'.unsafe]
    BY <1>0, <1>1 DEF OpenKv, Shapes
  <2> QED BY <1>0, <1>1, <2>1, QuietStep DEF OpenKv, Opening
<1>2. CASE KvGenesisCode
  <2>1. kv'.header = kv.header /\ kv' = [exists |-> kv'.exists, code |-> kv'.code,
           header |-> kv'.header, safe |-> kv'.safe, unsafe |-> kv'.unsafe]
    BY <1>0, <1>2 DEF KvGenesisCode, Shapes
  <2> QED BY <1>0, <1>2, <2>1, QuietStep DEF KvGenesisCode, Opening
<1> DEFINE Kept(b, root) ==
       /\ kv' = [exists |-> kv'.exists, code |-> kv'.code, header |-> kv'.header,
                 safe |-> kv'.safe, unsafe |-> kv'.unsafe]
       /\ kv'.header = [kv.header EXCEPT ![b] = root]
<1>3. ASSUME NEW b \in 0..Len(Chain), NEW root, root.known, Kept(b, root)
      PROVE  /\ kv' = [exists |-> kv'.exists, code |-> kv'.code, header |-> kv'.header,
                       safe |-> kv'.safe, unsafe |-> kv'.unsafe]
             /\ DOMAIN kv'.header = 0..Len(Chain)
             /\ kv'.header = [c \in 0..Len(Chain) |-> kv'.header[c]]
             /\ kv'.header[b].known
             /\ \A c \in 0..Len(Chain) : kv.header[c].known => kv'.header[c].known
  BY <1>0, <1>3 DEF Shapes
<1>4. ZeroRoot.known /\ Root(trie).known
  BY DEF ZeroRoot, Root
<1>5. 0 \in 0..Len(Chain)
  BY ConstantTypes
<1>6. CASE KvGenesisHeader
  <2>1. Kept(0, ZeroRoot)
    BY <1>0, <1>6 DEF KvGenesisHeader, Shapes
  <2>2. Shapes'
    BY <1>0, <1>3, <1>4, <1>5, <1>6, <2>1 DEF KvGenesisHeader, Shapes
  <2> QED BY <1>3, <1>4, <1>5, <1>6, <2>1, <2>2 DEF KvGenesisHeader, ExecEffect, Opening
<1>7. CASE OpenTrie
  BY <1>0, <1>7, QuietStep DEF OpenTrie, Opening, Shapes
<1>8. CASE TrieGenesis
  <2>1. kv'.header = kv.header /\ kv' = [exists |-> kv'.exists, code |-> kv'.code,
           header |-> kv'.header, safe |-> kv'.safe, unsafe |-> kv'.unsafe]
    BY <1>0, <1>8 DEF TrieGenesis, Shapes
  <2> QED BY <1>0, <1>8, <2>1, QuietStep DEF TrieGenesis, Opening
<1>9. CASE TrieGenesisHeader
  <2>1. Kept(0, Root(trie))
    BY <1>0, <1>9 DEF TrieGenesisHeader, Shapes
  <2>2. Shapes'
    BY <1>0, <1>3, <1>4, <1>5, <1>9, <2>1 DEF TrieGenesisHeader, Shapes
  <2> QED BY <1>3, <1>4, <1>5, <1>9, <2>1, <2>2 DEF TrieGenesisHeader, ExecEffect, Opening
<1>10. CASE ExecuteTx
  <2> DEFINE tx == Chain[run.block][Len(run.results) + 1]
             r == Replay(SpecIdAtTimestamp(Timestamp[run.block]), tx, ReadView)
  <2>1. /\ pc = "tx" /\ kv' = kv /\ backend' = backend
        /\ \/ BlockFails /\ UNCHANGED run
           \/ /\ run' = [run EXCEPT !.results = Append(@, r.result),
                                    !.changes = Append(@, r.state)]
              /\ hist' = [hist EXCEPT !.tainted = @ \cup r.state.destroyed,
                                      !.astray = @ \/ Misled(tx)]
              /\ UNCHANGED pc
    BY <1>10 DEF ExecuteTx
  <2> HIDE DEF r
  <2>2. CASE BlockFails /\ UNCHANGED run
    BY <1>0, <2>1, <2>2, FailStep DEF Shapes, Executing
  <2>3. CASE /\ run' = [run EXCEPT !.results = Append(@, r.result),
                                   !.changes = Append(@, r.state)]
             /\ hist' = [hist EXCEPT !.tainted = @ \cup r.state.destroyed,
                                     !.astray = @ \/ Misled(tx)]
             /\ UNCHANGED pc
    <3>1. /\ run' = [block |-> run'.block, results |-> run'.results, changes |-> run'.changes]
          /\ run'.block = run.block
      BY <1>0, <2>3 DEF Shapes
    <3>2. /\ hist' = [torn |-> hist'.torn, ran |-> hist'.ran, replayed |-> hist'.replayed,
                      failed |-> hist'.failed, headless |-> hist'.headless, tainted |-> hist'.tainted,
                      astray |-> hist'.astray, off |-> hist'.off, parted |-> hist'.parted, last |-> hist'.last]
          /\ hist'.replayed = hist.replayed /\ hist'.failed = hist.failed /\ hist'.last = hist.last
      BY <1>0, <2>3 DEF Shapes
    <3>3. Shapes'
      BY <1>0, <2>1, <3>1, <3>2 DEF Shapes
    <3> QED BY <2>1, <2>3, <3>1, <3>2, <3>3 DEF ExecEffect, Executing
  <2> QED BY <2>1, <2>2, <2>3
<1>11. CASE ReadFails
  BY <1>0, <1>11, FailStep DEF ReadFails, Executing, dbs, Shapes
<1>12. CASE StoreCode
  <2>1. kv'.header = kv.header /\ kv' = [exists |-> kv'.exists, code |-> kv'.code,
           header |-> kv'.header, safe |-> kv'.safe, unsafe |-> kv'.unsafe]
    BY <1>0, <1>12 DEF StoreCode, Shapes
  <2>2. /\ pc = "tx" /\ backend = "trie" /\ UNCHANGED <<backend, run>>
        /\ (pc' = "commit" /\ UNCHANGED hist) \/ BlockFails
    BY <1>12 DEF StoreCode
  <2>3. CASE pc' = "commit" /\ UNCHANGED hist
    BY <1>0, <2>1, <2>2, <2>3, QuietStep DEF Executing
  <2>4. CASE BlockFails
    BY <1>0, <2>1, <2>2, <2>4, FailStep DEF Executing
  <2> QED BY <2>2, <2>3, <2>4
<1>13. ASSUME run.block \in Nat, hist' = Committed(hist, run.block)
       PROVE  /\ hist' = [torn |-> hist'.torn, ran |-> hist'.ran, replayed |-> hist'.replayed,
                          failed |-> hist'.failed, headless |-> hist'.headless, tainted |-> hist'.tainted,
                          astray |-> hist'.astray, off |-> hist'.off, parted |-> hist'.parted, last |-> hist'.last]
              /\ hist'.replayed = hist.replayed /\ hist'.failed = hist.failed
              /\ hist'.last = run.block /\ hist'.last \in Nat
  BY <1>0, <1>13 DEF Shapes, Committed
<1>14. CASE CommitTrie
  <2>1. /\ pc = "commit" /\ pc' = "header" /\ hist' = Committed(hist, run.block)
        /\ UNCHANGED <<backend, kv, run>>
    BY <1>14 DEF CommitTrie
  <2>2. run.block \in Nat /\ backend = "trie"
    BY <1>0, <2>1 DEF RoleInv, Executing
  <2>3. Shapes'
    BY <1>0, <1>13, <2>1, <2>2 DEF Shapes
  <2> QED BY <1>13, <2>1, <2>2, <2>3 DEF ExecEffect, Executing
<1>15. CASE CommitTrieFails
  BY <1>0, <1>15, FailStep DEF CommitTrieFails, Executing, dbs, Shapes
<1>16. pc \in Executing => run.block \in 0..Len(Chain) /\ run.block \in Nat
  <2> SUFFICES ASSUME pc \in Executing PROVE run.block \in 0..Len(Chain) /\ run.block \in Nat
    OBVIOUS
  <2>1. /\ batch \in 1..Len(Batches) /\ run.block = next /\ next \in Nat
        /\ Batches[batch].first <= next /\ next <= Batches[batch].last
    BY <1>0, ConstantTypes DEF RoleInv, Busy
  <2>2. next \in Batches[batch].first..Batches[batch].last
    BY <2>1, ConstantTypes
  <2>3. next \in 1..Len(Chain)
    BY <2>1, <2>2, ConstantTypes
  <2> QED BY <2>1, <2>3, ConstantTypes
<1>17. CASE CommitHeader
  <2>1. pc = "header" /\ pc' = "blockDone" /\ UNCHANGED <<backend, run, hist>>
    BY <1>17 DEF CommitHeader
  <2>2. Kept(run.block, Root(trie))
    BY <1>0, <1>17 DEF CommitHeader, Shapes
  <2>3. run.block \in 0..Len(Chain) /\ backend = "trie"
    BY <1>0, <1>16, <2>1 DEF RoleInv, Executing
  <2>4. Shapes'
    BY <1>0, <1>3, <1>4, <2>1, <2>2, <2>3 DEF Shapes
  <2>5. /\ kv'.header[run.block].known
        /\ \A c \in 0..Len(Chain) : kv.header[c].known => kv'.header[c].known
    BY <1>3, <1>4, <2>2, <2>3
  <2>6. /\ pc \in Executing \ {"blockDone"} /\ pc' \in Executing
        /\ pc' \notin {"commit", "header"} /\ run'.block = run.block /\ hist' = hist
    BY <2>1 DEF Executing
  <2>7. BlockAnswered
    BY <2>3, <2>5 DEF BlockAnswered
  <2> QED BY <2>1, <2>3, <2>4, <2>5, <2>6, <2>7 DEF ExecEffect
<1>18. CASE CommitHeaderFails
  <2>1. /\ pc = "header" /\ pc' = "blockDone" /\ UNCHANGED <<backend, run, kv>>
        /\ hist' = [hist EXCEPT !.failed = @ \cup {run.block}, !.headless = @ \cup {run.block}]
    BY <1>18 DEF CommitHeaderFails, dbs
  <2>2. /\ hist' = [torn |-> hist'.torn, ran |-> hist'.ran, replayed |-> hist'.replayed,
                    failed |-> hist'.failed, headless |-> hist'.headless, tainted |-> hist'.tainted,
                    astray |-> hist'.astray, off |-> hist'.off, parted |-> hist'.parted, last |-> hist'.last]
        /\ hist'.replayed = hist.replayed /\ hist'.failed = hist.failed \cup {run.block}
        /\ hist'.last = hist.last
    BY <1>0, <2>1 DEF Shapes
  <2>3. Shapes'
    BY <1>0, <2>1, <2>2 DEF Shapes
  <2>4. /\ pc \in Executing \ {"blockDone"} /\ pc' \in Executing
        /\ pc' \notin {"commit", "header"} /\ run'.block = run.block
        /\ run.block \in hist'.failed /\ hist.failed \subseteq hist'.failed
    BY <2>1, <2>2 DEF Executing
  <2>5. BlockAnswered
    BY <2>4 DEF BlockAnswered
  <2> QED BY <2>1, <2>2, <2>3, <2>4, <2>5 DEF ExecEffect
<1>19. CASE CommitRpc
  <2>1. /\ pc = "tx" /\ pc' = "blockDone" /\ backend = "rpc" /\ UNCHANGED <<backend, kv, run>>
        /\ hist' = Committed(hist, run.block)
    BY <1>19 DEF CommitRpc
  <2>2. run.block \in Nat
    BY <1>16, <2>1 DEF Executing
  <2>3. Shapes'
    BY <1>0, <1>13, <2>1, <2>2 DEF Shapes
  <2> QED BY <1>13, <2>1, <2>2, <2>3 DEF ExecEffect, BlockAnswered, Executing
<1> QED BY <1>1, <1>2, <1>6, <1>7, <1>8, <1>9, <1>10, <1>11, <1>12, <1>14, <1>15, <1>17,
           <1>18, <1>19 DEF ExecStep

-----------------------------------------------------------------------------
(* The role.                                                               *)

(* What was answered stays answered when failures and headers are added    *)
(* and the last block committed does not go back.                          *)
LEMMA AnsweredKept ==
    ASSUME NEW b \in 0..Len(Chain), Answered(b),
           backend' = backend, hist.failed \subseteq hist'.failed,
           \A c \in 0..Len(Chain) : kv.header[c].known => kv'.header[c].known,
           backend = "rpc" => (b <= hist.last => b <= hist'.last)
    PROVE  Answered(b)'
<1>1. CASE b \in hist.failed
  BY <1>1 DEF Answered
<1>2. CASE backend = "trie" /\ kv.header[b].known
  <2>1. backend' = "trie" /\ kv'.header[b].known
    BY <1>2
  <2> QED BY <2>1 DEF Answered
<1>3. CASE backend = "rpc" /\ b <= hist.last
  BY <1>3 DEF Answered
<1> QED BY <1>1, <1>2, <1>3 DEF Answered

(* The blocks of a batch are blocks of the chain.                          *)
LEMMA BatchBlocksType ==
    ASSUME NEW n \in 1..Len(Batches), NEW b \in BatchBlocks(n)
    PROVE  /\ b \in 1..Len(Chain) /\ b \in 0..Len(Chain) /\ b \in Nat
           /\ Batches[n].first <= b /\ b <= Batches[n].last
  BY ConstantTypes DEF BatchBlocks

(* The batches done with come before the one at hand.                      *)
LEMMA DoneBefore ==
    ASSUME RoleInv, pc \in Busy
    PROVE  batch \in 1..Len(Batches) /\ \A n \in Done : n < batch
  BY ConstantTypes DEF RoleInv, Done, Busy, Executing, Opening

(* The executor's steps.                                                   *)
LEMMA ExecPreserves ==
    ASSUME BatchesInOrder, Inv, ExecEffect, UNCHANGED role
    PROVE  Inv'
<1>0. Shapes /\ RoleInv /\ AccountInv /\ UNCHANGED <<cursor, batch, next, derived, saved, outcome>>
  BY DEF Inv, role
<1>1. Shapes'
  BY DEF ExecEffect
<1>2. RoleInv'
  <2>1. \/ pc \in Opening /\ pc' \in Opening
        \/ /\ pc \in Executing /\ pc' \in Executing /\ run'.block = run.block
           /\ pc' \in {"commit", "header"} => backend' = "trie"
    BY DEF ExecEffect
  <2>2. CASE pc \in Opening /\ pc' \in Opening
    <3>1. pc' \notin Busy /\ pc' \notin Executing /\ pc' \notin {"commit", "header"} /\ pc \notin Busy
      BY <2>2 DEF Opening, Busy, Executing
    <3> QED BY <1>0, <2>2, <3>1 DEF RoleInv
  <2>3. CASE /\ pc \in Executing /\ pc' \in Executing /\ run'.block = run.block
             /\ pc' \in {"commit", "header"} => backend' = "trie"
    <3>1. pc' \in Busy /\ pc \in Busy /\ pc' \notin Opening /\ pc \notin Opening
      BY <2>3 DEF Opening, Busy, Executing
    <3> QED BY <1>0, <2>3, <3>1 DEF RoleInv
  <2> QED BY <2>1, <2>2, <2>3
<1>3. ASSUME NEW n \in 1..Len(Batches), NEW b \in BatchBlocks(n), Answered(b),
             n \in Done \/ (pc \in Busy /\ n = batch /\ b < next)
      PROVE  Answered(b)'
  <2>1. b \in 0..Len(Chain) /\ b \in Nat /\ b <= Batches[n].last
    BY BatchBlocksType
  <2>2. b <= hist.last => b <= hist'.last
    <3>1. CASE hist'.last = hist.last
      BY <3>1
    <3>2. CASE pc \in Executing /\ hist'.last = run.block
      <4>1. /\ pc \in Busy /\ run.block = next /\ next \in Nat /\ Batches[batch].first <= next
            /\ batch \in 1..Len(Batches)
        BY <1>0, <3>2, DoneBefore DEF RoleInv, Busy
      <4>2. CASE n \in Done
        <5>1. n < batch
          BY <1>0, <4>1, <4>2, DoneBefore
        <5>2. Batches[n].last < Batches[batch].first
          BY <4>1, <5>1, ConstantTypes DEF BatchesInOrder
        <5> QED BY <2>1, <3>2, <4>1, <5>2, ConstantTypes
      <4>3. CASE b < next
        BY <2>1, <3>2, <4>1, <4>3
      <4> QED BY <1>3, <4>2, <4>3
    <3> QED BY <3>1, <3>2 DEF ExecEffect
  <2>3. /\ backend' = backend /\ hist.failed \subseteq hist'.failed
        /\ \A c \in 0..Len(Chain) : kv.header[c].known => kv'.header[c].known
    BY <1>0 DEF ExecEffect
  <2> QED BY <1>3, <2>1, <2>2, <2>3, AnsweredKept
<1>4. AccountInv'
  <2>1. Done' = Done /\ Done \subseteq 1..Len(Batches)
    BY <1>0 DEF Done
  <2>2. \A n \in Done : \A b \in BatchBlocks(n) : Accounted(n, b)'
    <3> SUFFICES ASSUME NEW n \in Done, NEW b \in BatchBlocks(n) PROVE Accounted(n, b)'
      OBVIOUS
    <3>1. Accounted(n, b) /\ outcome' = outcome
      BY <1>0 DEF AccountInv
    <3>2. Answered(b) => Answered(b)'
      BY <1>3, <2>1
    <3> QED BY <3>1, <3>2 DEF Accounted
  <2>3. pc' \in Busy => pc \in Busy
    BY DEF ExecEffect, Busy, Executing, Opening
  <2>4. ASSUME pc' \in Busy, NEW b \in BatchBlocks(batch), b < next PROVE Answered(b)'
    <3>1. pc \in Busy /\ batch \in 1..Len(Batches)
      BY <1>0, <2>3, <2>4, DoneBefore
    <3> QED BY <1>0, <1>3, <2>4, <3>1 DEF AccountInv
  <2>5. pc' = "blockDone" => Answered(run.block)'
    <3> SUFFICES ASSUME pc' = "blockDone" PROVE Answered(run.block)'
      OBVIOUS
    <3>1. /\ run'.block = run.block /\ backend' = backend
          /\ \/ run.block \in hist'.failed
             \/ backend = "trie" /\ kv'.header[run.block].known
             \/ backend = "rpc" /\ run.block = hist'.last
      BY DEF ExecEffect, BlockAnswered, Opening
    <3>2. run.block = hist'.last => run.block <= hist'.last
      BY <1>1 DEF Shapes
    <3> QED BY <3>1, <3>2 DEF Answered
  <2> QED BY <1>0, <2>1, <2>2, <2>4, <2>5 DEF AccountInv, BatchBlocks
<1> QED BY <1>1, <1>2, <1>4 DEF Inv

(* A step that leaves the history and the headers alone keeps what was     *)
(* answered, and accounted for if the batch's own outcome stays.           *)
LEMMA AnsweredSame ==
    ASSUME UNCHANGED <<backend, kv>>, hist'.failed = hist.failed, hist'.last = hist.last,
           NEW b, Answered(b)
    PROVE  Answered(b)'
  BY DEF Answered

LEMMA AccountedSame ==
    ASSUME UNCHANGED <<backend, kv>>, hist'.failed = hist.failed, hist'.last = hist.last,
           NEW n, outcome'[n] = outcome[n], NEW b, Accounted(n, b)
    PROVE  Accounted(n, b)'
  BY AnsweredSame DEF Accounted

(* The role's own steps.                                                   *)
LEMMA RolePreserves ==
    ASSUME Inv,
           \/ OpenRpc(LastBlockOf(saved)) /\ UNCHANGED role
           \/ NewValidator \/ NextBatch \/ BatchCorrupt \/ ExecuteNext \/ BlockDone
           \/ SaveCheckpoint \/ SaveCheckpointFails \/ Crash \/ UNCHANGED vars
    PROVE  Inv'
<1>0. Shapes /\ RoleInv /\ AccountInv
  BY DEF Inv
<1>1. /\ cursor \in 0..Len(Batches) /\ batch \in 0..Len(Batches) /\ derived \in 0..Len(Batches)
      /\ saved \in 0..Len(Batches) /\ next \in Nat /\ Len(Batches) \in Nat
  BY <1>0, ConstantTypes DEF RoleInv
<1>2. \A n \in Done : \A b \in BatchBlocks(n) : Accounted(n, b)
  BY <1>0 DEF AccountInv
<1>3. CASE OpenRpc(LastBlockOf(saved)) /\ UNCHANGED role
  <2>1. /\ pc = "down" /\ pc' = "opened" /\ UNCHANGED <<backend, kv, run, hist>>
        /\ UNCHANGED <<cursor, batch, next, derived, saved, outcome>>
    BY <1>3 DEF OpenRpc, role
  <2>2. Shapes'
    BY <1>0, <2>1 DEF Shapes
  <2>3. RoleInv'
    BY <1>0, <2>1 DEF RoleInv, Opening, Busy, Executing
  <2>4. AccountInv'
    <3>1. Done' = Done
      BY <2>1 DEF Done
    <3>2. \A n \in Done : \A b \in BatchBlocks(n) : Accounted(n, b)'
      BY <1>2, <2>1, AccountedSame
    <3> QED BY <2>1, <3>1, <3>2 DEF AccountInv, Busy, Executing, BatchBlocks
  <2> QED BY <2>2, <2>3, <2>4 DEF Inv
<1>4. CASE NewValidator
  <2>1. /\ pc = "opened" /\ pc' = "idle" /\ derived' = saved
        /\ UNCHANGED <<backend, kv, run, hist, cursor, batch, next, saved, outcome>>
    BY <1>4 DEF NewValidator, dbs
  <2>2. Shapes'
    BY <1>0, <2>1 DEF Shapes
  <2>3. RoleInv'
    BY <1>0, <1>1, <2>1 DEF RoleInv, Opening, Busy, Executing
  <2>4. AccountInv'
    <3>1. Done' \subseteq Done
      BY <2>1 DEF Done
    <3>2. \A n \in Done : \A b \in BatchBlocks(n) : Accounted(n, b)'
      BY <1>2, <2>1, AccountedSame
    <3> QED BY <2>1, <3>1, <3>2 DEF AccountInv, Busy, Executing, BatchBlocks
  <2> QED BY <2>2, <2>3, <2>4 DEF Inv
<1>5. CASE NextBatch
  <2>1. /\ pc = "idle" /\ cursor < Len(Batches) /\ cursor' = cursor + 1
        /\ UNCHANGED <<backend, kv, run, hist, derived, saved, outcome>>
        /\ \/ cursor + 1 <= derived /\ UNCHANGED <<pc, batch, next>>
           \/ /\ cursor + 1 > derived /\ batch' = cursor + 1
              /\ next' = Batches[cursor + 1].first /\ pc' = "batch"
    BY <1>5 DEF NextBatch, dbs
  <2>2. Shapes'
    BY <1>0, <2>1 DEF Shapes
  <2>3. cursor + 1 \in 1..Len(Batches) /\ Batches[cursor + 1].first \in Nat /\ batch = 0
    <3>1. cursor + 1 \in 1..Len(Batches) /\ batch = 0
      BY <1>0, <1>1, <2>1 DEF RoleInv, Busy, Executing
    <3> QED BY <3>1, ConstantTypes
  <2>4. RoleInv'
    <3>1. CASE cursor + 1 <= derived /\ UNCHANGED <<pc, batch, next>>
      BY <1>0, <1>1, <2>1, <2>3, <3>1 DEF RoleInv, Opening, Busy, Executing
    <3>2. CASE /\ cursor + 1 > derived /\ batch' = cursor + 1
               /\ next' = Batches[cursor + 1].first /\ pc' = "batch"
      <4>1. cursor + 1 \in 0..Len(Batches) /\ cursor + 1 > 0 /\ derived < cursor + 1
        BY <1>1, <2>3, <3>2
      <4>2. saved <= derived
        BY <1>0, <2>1 DEF RoleInv, Opening
      <4>3. Batches[batch'].first = next' /\ next' <= next'
        BY <2>3, <3>2
      <4> QED BY <1>0, <1>1, <2>1, <2>3, <3>2, <4>1, <4>2, <4>3
              DEF RoleInv, Opening, Busy, Executing
    <3> QED BY <2>1, <3>1, <3>2
  <2>5. AccountInv'
    <3>1. Done' \subseteq Done
      <4> SUFFICES ASSUME NEW n \in Done' PROVE n \in Done
        OBVIOUS
      <4>1. /\ n \in 1..Len(Batches)
            /\ n <= saved \/ n <= derived \/ (n <= cursor + 1 /\ n # batch')
        BY <2>1 DEF Done
      <4>2. n <= saved \/ n <= derived \/ n <= cursor
        BY <1>1, <2>1, <4>1
      <4> QED BY <2>3, <4>1, <4>2 DEF Done
    <3>2. \A n \in Done : \A b \in BatchBlocks(n) : Accounted(n, b)'
      BY <1>2, <2>1, AccountedSame
    <3>3. ASSUME pc' \in Busy, NEW b \in BatchBlocks(batch'), b < next' PROVE FALSE
      <4>1. batch' = cursor + 1 /\ next' = Batches[cursor + 1].first
        BY <2>1, <3>3 DEF Busy, Executing
      <4>2. b \in BatchBlocks(cursor + 1)
        BY <3>3, <4>1
      <4>3. Batches[cursor + 1].first <= b /\ b \in Nat
        BY <2>3, <4>2, BatchBlocksType
      <4> QED BY <2>3, <3>3, <4>1, <4>3
    <3>4. pc' # "blockDone"
      BY <2>1
    <3> QED BY <3>1, <3>2, <3>3, <3>4 DEF AccountInv, BatchBlocks
  <2> QED BY <2>2, <2>4, <2>5 DEF Inv
<1>6. CASE BatchCorrupt
  <2>1. /\ pc = "batch" /\ pc' = "idle" /\ batch' = 0 /\ next' = 0
        /\ outcome' = [outcome EXCEPT ![batch] = "corrupt"]
        /\ UNCHANGED <<backend, kv, run, hist, cursor, derived, saved>>
    BY <1>6 DEF BatchCorrupt, Ends, dbs
  <2>2. Shapes'
    BY <1>0, <2>1 DEF Shapes
  <2>5. /\ batch \in 1..Len(Batches) /\ \A n \in Done : outcome'[n] = outcome[n]
        /\ outcome'[batch] = "corrupt"
    <3>1. batch \in 1..Len(Batches) /\ \A n \in Done : n < batch
      BY <1>0, <2>1, DoneBefore DEF Busy
    <3>2. \A n \in Done : n \in 1..Len(Batches) /\ n # batch
      BY <1>1, <3>1 DEF Done
    <3> QED BY <1>0, <2>1, <3>1, <3>2 DEF Shapes
  <2>3. RoleInv'
    BY <1>0, <1>1, <2>1 DEF RoleInv, Opening, Busy, Executing
  <2>4. AccountInv'
    <3>1. Done' \subseteq Done \cup {batch}
      BY <2>1 DEF Done
    <3>2. \A n \in Done : \A b \in BatchBlocks(n) : Accounted(n, b)'
      BY <1>2, <2>1, <2>5, AccountedSame
    <3>3. ASSUME NEW n, n = batch, NEW b PROVE Accounted(n, b)'
      BY <2>5, <3>3 DEF Accounted
    <3>4. \A n \in Done' : \A b \in BatchBlocks(n) : Accounted(n, b)'
      BY <3>1, <3>2, <3>3
    <3> QED BY <2>1, <3>4 DEF AccountInv, Busy, Executing, BatchBlocks
  <2> QED BY <2>2, <2>3, <2>4 DEF Inv
<1>7. CASE ExecuteNext
  <2>1. /\ pc = "batch" /\ next <= Batches[batch].last /\ pc' = "tx"
        /\ run' = [NoRun EXCEPT !.block = next]
        /\ hist' = [hist EXCEPT !.ran = @ \cup {next},
                                !.replayed = IF next \in hist.ran THEN @ \cup {next} ELSE @,
                                !.astray = hist.off \/ next # Base + 1]
        /\ UNCHANGED <<backend, kv, cursor, batch, next, derived, saved, outcome>>
    BY <1>7 DEF ExecuteNext, StartBlock, role, dbs
  <2>2. run' = [block |-> next, results |-> << >>, changes |-> << >>] /\ run'.block = next
    BY <2>1 DEF NoRun
  <2>3. /\ hist' = [torn |-> hist'.torn, ran |-> hist'.ran, replayed |-> hist'.replayed,
                    failed |-> hist'.failed, headless |-> hist'.headless, tainted |-> hist'.tainted,
                    astray |-> hist'.astray, off |-> hist'.off, parted |-> hist'.parted, last |-> hist'.last]
        /\ hist'.failed = hist.failed /\ hist'.last = hist.last
    BY <1>0, <2>1 DEF Shapes
  <2>4. Shapes'
    BY <1>0, <2>1, <2>2, <2>3 DEF Shapes
  <2>5. RoleInv'
    BY <1>0, <2>1, <2>2 DEF RoleInv, Opening, Busy, Executing
  <2>6. AccountInv'
    <3>1. Done' = Done
      BY <2>1 DEF Done
    <3>2. \A n \in Done : \A b \in BatchBlocks(n) : Accounted(n, b)'
      BY <1>2, <2>1, <2>3, AccountedSame
    <3>3. \A b \in BatchBlocks(batch) : b < next => Answered(b)'
      <4>1. \A b \in BatchBlocks(batch) : b < next => Answered(b)
        BY <1>0, <2>1 DEF AccountInv, Busy
      <4> QED BY <2>1, <2>3, <4>1, AnsweredSame
    <3> QED BY <2>1, <3>1, <3>2, <3>3 DEF AccountInv, BatchBlocks
  <2> QED BY <2>4, <2>5, <2>6 DEF Inv
<1>8. CASE BlockDone
  <2>1. /\ pc = "blockDone" /\ pc' = "batch" /\ next' = next + 1 /\ run' = NoRun
        /\ UNCHANGED <<backend, kv, hist, cursor, batch, derived, saved, outcome>>
    BY <1>8 DEF BlockDone, dbs
  <2>2. Shapes'
    BY <1>0, <2>1 DEF Shapes, NoRun
  <2>3. RoleInv'
    <3>1. /\ Batches[batch].first <= next /\ batch \in 1..Len(Batches)
      BY <1>0, <2>1, DoneBefore DEF RoleInv, Busy, Executing
    <3>2. Batches[batch].first <= next + 1 /\ next + 1 \in Nat
      BY <1>1, <3>1, ConstantTypes
    <3> QED BY <1>0, <2>1, <3>2 DEF RoleInv, Opening, Busy, Executing
  <2>4. AccountInv'
    <3>1. Done' = Done
      BY <2>1 DEF Done
    <3>2. \A n \in Done : \A b \in BatchBlocks(n) : Accounted(n, b)'
      BY <1>2, <2>1, AccountedSame
    <3>3. ASSUME NEW b \in BatchBlocks(batch), b < next + 1 PROVE Answered(b)'
      <4>1. run.block = next /\ Answered(run.block) /\ batch \in 1..Len(Batches)
        BY <1>0, <2>1, DoneBefore DEF RoleInv, AccountInv, Busy, Executing
      <4>2. b = next \/ b < next
        BY <1>1, <3>3, <4>1, BatchBlocksType
      <4>3. Answered(b)
        BY <1>0, <2>1, <4>1, <4>2 DEF AccountInv, Busy, Executing
      <4> QED BY <2>1, <4>3, AnsweredSame
    <3> QED BY <2>1, <3>1, <3>2, <3>3 DEF AccountInv, BatchBlocks
  <2> QED BY <2>2, <2>3, <2>4 DEF Inv
<1>9. ASSUME SaveCheckpoint \/ SaveCheckpointFails PROVE Inv'
  <2>1. /\ pc = "batch" /\ next > Batches[batch].last /\ derived' = batch
        /\ saved' = batch \/ saved' = saved
        /\ pc' = "idle" /\ batch' = 0 /\ next' = 0
        /\ UNCHANGED <<backend, kv, run, hist, cursor>>
        /\ \E how : outcome' = [outcome EXCEPT ![batch] = how]
    BY <1>9 DEF SaveCheckpoint, SaveCheckpointFails, Ends, dbs
  <2>2. Shapes'
    BY <1>0, <2>1 DEF Shapes
  <2>3. batch \in 1..Len(Batches) /\ batch = cursor /\ derived < batch /\ saved <= derived
    BY <1>0, <2>1, DoneBefore DEF RoleInv, Busy, Opening
  <2>6. \A n \in Done : outcome'[n] = outcome[n]
    <3>1. \A n \in Done : n < batch
      BY <1>0, <2>1, DoneBefore DEF Busy
    <3>2. \A n \in Done : n \in 1..Len(Batches) /\ n # batch
      BY <1>1, <3>1 DEF Done
    <3> QED BY <1>0, <2>1, <2>3, <3>2 DEF Shapes
  <2>4. RoleInv'
    BY <1>0, <1>1, <2>1, <2>3 DEF RoleInv, Opening, Busy, Executing
  <2>5. AccountInv'
    <3>1. Done' \subseteq Done \cup {batch}
      BY <1>1, <2>1, <2>3 DEF Done
    <3>2. \A n \in Done : \A b \in BatchBlocks(n) : Accounted(n, b)'
      BY <1>2, <2>1, <2>6, AccountedSame
    <3>3. ASSUME NEW n, n = batch, NEW b \in BatchBlocks(n) PROVE Accounted(n, b)'
      <4>1. b < next
        BY <1>1, <2>1, <2>3, <3>3, BatchBlocksType, ConstantTypes
      <4>2. Answered(b)
        BY <1>0, <2>1, <3>3, <4>1 DEF AccountInv, Busy
      <4> QED BY <2>1, <4>2, AnsweredSame DEF Accounted
    <3>4. \A n \in Done' : \A b \in BatchBlocks(n) : Accounted(n, b)'
      BY <3>1, <3>2, <3>3
    <3> QED BY <2>1, <3>4 DEF AccountInv, Busy, Executing, BatchBlocks
  <2> QED BY <2>2, <2>4, <2>5 DEF Inv
<1>10. CASE Crash
  <2>1. /\ pc' = "down" /\ run' = NoRun /\ cursor' = 0 /\ batch' = 0 /\ next' = 0 /\ derived' = 0
        /\ hist' = [hist EXCEPT !.torn = @ \/ pc \in {"trieGenesis", "trieHeader"},
                                !.headless = IF pc = "header" THEN @ \cup {run.block} ELSE @,
                                !.tainted = {}, !.astray = FALSE,
                                !.off = backend = "trie" /\ (@ \/ pc = "trieGenesis")]
        /\ UNCHANGED <<backend, kv, saved, outcome>>
    BY <1>10 DEF Crash, CrashExec
  <2>2. /\ hist' = [torn |-> hist'.torn, ran |-> hist'.ran, replayed |-> hist'.replayed,
                    failed |-> hist'.failed, headless |-> hist'.headless, tainted |-> hist'.tainted,
                    astray |-> hist'.astray, off |-> hist'.off, parted |-> hist'.parted, last |-> hist'.last]
        /\ hist'.failed = hist.failed /\ hist'.last = hist.last
    BY <1>0, <2>1 DEF Shapes
  <2>3. Shapes'
    BY <1>0, <2>1, <2>2 DEF Shapes, NoRun
  <2>4. RoleInv'
    BY <1>0, <1>1, <2>1 DEF RoleInv, Opening, Busy, Executing
  <2>5. AccountInv'
    <3>1. Done' \subseteq Done
      BY <2>1 DEF Done
    <3>2. \A n \in Done : \A b \in BatchBlocks(n) : Accounted(n, b)'
      BY <1>2, <2>1, <2>2, AccountedSame
    <3> QED BY <2>1, <3>1, <3>2 DEF AccountInv, Busy, Executing, BatchBlocks
  <2> QED BY <2>3, <2>4, <2>5 DEF Inv
<1>11. CASE UNCHANGED vars
  <2>1. UNCHANGED <<pc, backend, kv, run, hist, cursor, batch, next, derived, saved, outcome>>
    BY <1>11 DEF vars, execVars, role, dbs
  <2> QED BY <1>0, <2>1 DEF Inv, Shapes, RoleInv, AccountInv, Accounted, Answered, Done, BatchBlocks
<1> QED BY <1>3, <1>4, <1>5, <1>6, <1>7, <1>8, <1>9, <1>10, <1>11

-----------------------------------------------------------------------------
(* A first start has nothing to account for.                               *)
LEMMA InitInv == Init => Inv
<1> SUFFICES ASSUME Init PROVE Inv
  OBVIOUS
<1>1. Shapes
  <2>1. /\ run = NoRun
        /\ kv = [exists |-> FALSE, code |-> {}, header |-> [b \in 0..Len(Chain) |-> NoHeader],
                 safe |-> FALSE, unsafe |-> FALSE]
        /\ hist = [torn |-> FALSE, ran |-> {}, replayed |-> {}, failed |-> {}, headless |-> {},
                   tainted |-> {}, astray |-> FALSE, off |-> FALSE, parted |-> {}, last |-> 0]
        /\ outcome = [n \in DOMAIN Batches |-> "none"]
    BY DEF Init, ExecInit
  <2>2. kv.header = [b \in 0..Len(Chain) |-> NoHeader]
    BY <2>1
  <2>3. /\ DOMAIN kv.header = 0..Len(Chain) /\ kv.header = [b \in 0..Len(Chain) |-> kv.header[b]]
    BY <2>2
  <2> QED BY <2>1, <2>3, ConstantTypes DEF Shapes, NoRun
<1>2. RoleInv
  BY ConstantTypes DEF Init, ExecInit, RoleInv, Opening, Busy, Executing
<1>3. AccountInv
  <2>1. Done = {}
    BY ConstantTypes DEF Init, Done
  <2>2. pc \notin Busy /\ pc # "blockDone"
    BY DEF Init, ExecInit, Busy, Executing
  <2> QED BY <2>1, <2>2 DEF AccountInv
<1> QED BY <1>1, <1>2, <1>3 DEF Inv

(* Every step keeps the invariant.                                         *)
LEMMA NextInv ==
    ASSUME BatchesInOrder, Inv, [Next]_vars
    PROVE  Inv'
<1>1. CASE ExecStep /\ UNCHANGED role
  BY <1>1, ExecStepEffect, ExecPreserves DEF role
<1>2. CASE ~(ExecStep /\ UNCHANGED role)
  BY <1>2, RolePreserves DEF Next
<1> QED BY <1>1, <1>2

(* No step begins a block of a batch that is in the checkpoint file.       *)
LEMMA BeginsNewBlocks ==
    ASSUME BatchesInOrder, Inv, [Next]_vars, NEW b \in hist'.replayed, b \notin hist.replayed,
           NEW n \in 1..saved
    PROVE  b \notin BatchBlocks(n)
<1>0. Shapes /\ RoleInv
  BY DEF Inv
<1>1. CASE ExecuteNext
  <2>1. /\ pc = "batch" /\ next <= Batches[batch].last
        /\ hist' = [hist EXCEPT !.ran = @ \cup {next},
                                !.replayed = IF next \in hist.ran THEN @ \cup {next} ELSE @,
                                !.astray = hist.off \/ next # Base + 1]
    BY <1>1 DEF ExecuteNext, StartBlock
  <2>2. b = next
    BY <1>0, <2>1 DEF Shapes
  <2>3. /\ batch \in 1..Len(Batches) /\ saved < batch /\ Batches[batch].first <= next
        /\ saved \in 0..Len(Batches) /\ next \in Nat
    BY <1>0, <2>1, DoneBefore, ConstantTypes DEF RoleInv, Busy, Opening
  <2>4. n \in 1..Len(Batches) /\ n < batch
    BY <2>3, ConstantTypes
  <2>5. Batches[n].last < Batches[batch].first
    BY <2>3, <2>4, ConstantTypes DEF BatchesInOrder
  <2>6. ~(next <= Batches[n].last)
    BY <2>3, <2>4, <2>5, ConstantTypes
  <2> QED BY <2>2, <2>4, <2>6, BatchBlocksType
<1>2. CASE ExecStep /\ UNCHANGED role
  BY <1>2, ExecStepEffect DEF ExecEffect, role
<1>3. CASE Crash
  <2>1. hist'.replayed = hist.replayed
    BY <1>0, <1>3 DEF Crash, CrashExec, Shapes
  <2> QED BY <2>1
<1>4. CASE \/ OpenRpc(LastBlockOf(saved)) \/ NewValidator \/ NextBatch \/ BatchCorrupt \/ BlockDone
           \/ SaveCheckpoint \/ SaveCheckpointFails \/ UNCHANGED vars
  BY <1>4 DEF OpenRpc, NewValidator, NextBatch, BatchCorrupt, BlockDone, SaveCheckpoint,
     SaveCheckpointFails, vars, execVars
<1> QED BY <1>1, <1>2, <1>3, <1>4 DEF Next

(* Validator::process_batch skips by the checkpoint that Validator::new    *)
(* loads, and the checkpoint is saved after the last block of a batch: for *)
(* every chain, and crashes and failed writes at any step, a block runs    *)
(* again only if its batch is not yet in the checkpoint file.              *)
THEOREM SavedIsNotReplayed ==
    ASSUME BatchesInOrder
    PROVE  Spec => SavedNotReplayed
<1>1. Inv /\ [Next]_vars => Inv'
  BY NextInv
<1>2. Inv /\ [Next]_vars =>
        [\A b \in Blocks : b \in hist'.replayed \ hist.replayed =>
             \A n \in 1..saved : b \notin BatchBlocks(n)]_vars
  BY BeginsNewBlocks
<1> QED BY <1>1, <1>2, InitInv, PTL DEF Spec, SavedNotReplayed

(* The checkpoint file of the validator, over crashes and failed writes at *)
(* any step: a block of a batch it names was committed, or was refused     *)
(* with an error, or its batch was dropped because it did not decode.      *)
THEOREM CheckpointAccounts ==
    ASSUME BatchesInOrder
    PROVE  Spec => []CheckpointAccountsForBlocks
<1>1. Inv /\ [Next]_vars => Inv'
  BY NextInv
<1>2. Inv => CheckpointAccountsForBlocks
  <2> SUFFICES ASSUME Inv, NEW n \in 1..saved, NEW b \in BatchBlocks(n)
               PROVE  Accounted(n, b)
    BY DEF CheckpointAccountsForBlocks, Accounted, Answered
  <2>1. saved \in 0..Len(Batches)
    BY DEF Inv, RoleInv
  <2>2. n \in Done
    BY <2>1, ConstantTypes DEF Done
  <2> QED BY <2>2 DEF Inv, AccountInv
<1> QED BY <1>1, <1>2, InitInv, PTL DEF Spec

=============================================================================
