----------------------------- MODULE NodeProofs -----------------------------
(***************************************************************************)
(* Proofs about the node's life cycle, for every chain, threshold, number  *)
(* of starts, kind of L1 and combination of roles: what the checkpoint     *)
(* file is good for, that the blocks it names were fetched, and which      *)
(* batches the validator skips.                                            *)
(***************************************************************************)
EXTENDS Node, TLAPS, SequenceTheorems

-----------------------------------------------------------------------------
(* The inductive invariant.                                                *)

Live == state \notin {"down", "stopped"}

(* Every copy of the checkpoint names only blocks that were fetched, and   *)
(* the node's covers what its sync stage fetched.                          *)
SyncInv ==
    /\ \A cp \in {nodeCp, seqCp, valCp, file} :
          1..cp.synced \subseteq got /\ cp.executed <= cp.synced
    /\ 1..current \subseteq got
    /\ Live => current <= nodeCp.synced
    /\ state = "stopped" => current <= file.synced

(* Where run() is: before the roles resume nothing was submitted.          *)
StageInv ==
    /\ state \in {"starting", "syncing"} => next = 1 /\ l1 = << >> /\ given = 1
    /\ state = "active" =>
          pc \in {"check", "sequencer", "drain", "validator", "save"}

Running == state \in {"active", "stopping"}

(* The node's copy lags behind a role's copy only during the role's tick.  *)
CopiesInv ==
    Running =>
      /\ Sequences => /\ seqCp.executed <= nodeCp.executed
                      /\ nodeCp.submitted <= seqCp.submitted
                      /\ \/ nodeCp.submitted = seqCp.submitted
                         \/ state = "active" /\ pc \in {"sequencer", "drain"}
      /\ Validates => /\ valCp.executed <= nodeCp.executed
                      /\ nodeCp.derived <= valCp.derived
                      /\ valCp.submitted <= nodeCp.submitted
                      /\ \/ nodeCp.derived = valCp.derived
                         \/ state = "active" /\ pc = "validator"

(* What was achieved and not forgotten: in the file until the roles run,   *)
(* then in the copy of the role that achieved it.                          *)
KeptInv ==
    /\ ~Sequences => kept.submitted = 0
    /\ ~Validates => kept.derived = 0
    /\ ~Running => file.submitted = kept.submitted /\ file.derived = kept.derived
    /\ state \in {"starting", "syncing"} =>
          nodeCp.submitted = kept.submitted /\ nodeCp.derived = kept.derived
    /\ Running => /\ nodeCp.submitted <= kept.submitted
                  /\ nodeCp.derived <= kept.derived
                  /\ Sequences => /\ seqCp.submitted = kept.submitted
                                  /\ seqCp.derived <= kept.derived
                  /\ Validates => /\ valCp.derived = kept.derived
                                  /\ valCp.submitted <= kept.submitted
    /\ NeverAhead /\ OneIsRight

(* A checkpoint may be behind what was derived, never ahead: what lies     *)
(* between its two numbers, which the sequencer would submit again and the *)
(* validator skip, was derived.  With Anvil's numbers that is so only      *)
(* until the sequencer has batches to skip.                                *)
Covered(cp) ==
    (renumbers => cp.submitted = 0) =>
        \A n \in Nat : cp.submitted < n /\ n <= cp.derived => n \in derived

CoveredInv == \A cp \in {nodeCp, seqCp, valCp, file} : Covered(cp)

(* L1 holds the last numbers submitted without a gap, all of them above    *)
(* the number the process resumed from; those already fetched are derived, *)
(* and Anvil's numbers are as many behind as the sequencer skips.          *)
FlowInv ==
    Running =>
      /\ ~Sequences => l1 = << >>
      /\ Sequences /\ Validates =>
           /\ seqCp.submitted = Largest(valCp.submitted, next - 1)
           /\ \A i \in 1..Len(l1) : l1[i] + Len(l1) + 1 = next + i
           /\ l1 # << >> => valCp.submitted + Len(l1) < next
           /\ valCp.submitted < next => valCp.submitted + given + Len(l1) = next
           /\ next <= valCp.submitted => given = 1
           /\ (renumbers => valCp.submitted = 0) =>
                \A n \in Nat :
                  valCp.submitted < n /\ n + Len(l1) < next => n \in derived

Inv == /\ TypeOK /\ SyncInv /\ StageInv /\ CopiesInv /\ KeptInv /\ CoveredInv
       /\ FlowInv

-----------------------------------------------------------------------------
(* Lemmas on the operators.                                                *)

(* The two numbers and the maximum the record_* methods keep.              *)
LEMMA LargestType ==
    ASSUME NEW a \in Nat, NEW b \in Nat
    PROVE  /\ Largest(a, b) \in Nat
           /\ a <= Largest(a, b) /\ b <= Largest(a, b)
           /\ Largest(a, b) = a \/ Largest(a, b) = b
  BY DEF Largest

(* record_* change one field each, and only upwards.                       *)
LEMMA Records ==
    ASSUME NEW cp \in Checkpoint, NEW n \in Nat
    PROVE  /\ RecordBatchSubmitted(cp, n) \in Checkpoint
           /\ RecordBatchSubmitted(cp, n).submitted = Largest(cp.submitted, n)
           /\ RecordBatchSubmitted(cp, n).derived = cp.derived
           /\ RecordBatchSubmitted(cp, n).executed = cp.executed
           /\ RecordBatchSubmitted(cp, n).synced = cp.synced
           /\ RecordBatchDerived(cp, n) \in Checkpoint
           /\ RecordBatchDerived(cp, n).submitted = cp.submitted
           /\ RecordBatchDerived(cp, n).derived = Largest(cp.derived, n)
           /\ RecordBatchDerived(cp, n).executed = cp.executed
           /\ RecordBatchDerived(cp, n).synced = cp.synced
           /\ RecordBlockExecuted(cp, n) \in Checkpoint
           /\ RecordBlockExecuted(cp, n).submitted = cp.submitted
           /\ RecordBlockExecuted(cp, n).derived = cp.derived
           /\ RecordBlockExecuted(cp, n).executed = Largest(cp.executed, n)
           /\ RecordBlockExecuted(cp, n).synced = cp.synced
           /\ RecordSyncProgress(cp, n) \in Checkpoint
           /\ RecordSyncProgress(cp, n).submitted = cp.submitted
           /\ RecordSyncProgress(cp, n).derived = cp.derived
           /\ RecordSyncProgress(cp, n).executed = cp.executed
           /\ RecordSyncProgress(cp, n).synced = Largest(cp.synced, n)
  BY DEF Checkpoint, Largest, RecordBatchSubmitted, RecordBatchDerived,
         RecordBlockExecuted, RecordSyncProgress

(* The numbers in a checkpoint.                                            *)
LEMMA CheckpointFields ==
    ASSUME NEW cp \in Checkpoint
    PROVE  /\ cp.submitted \in Nat /\ cp.derived \in Nat
           /\ cp.executed \in Nat /\ cp.synced \in Nat
  BY DEF Checkpoint

(* A fresh checkpoint, and the one the sync stage builds.                  *)
LEMMA Fresh ==
    ASSUME current \in Nat
    PROVE  /\ Default \in Checkpoint
           /\ Default.submitted = 0 /\ Default.derived = 0
           /\ Default.executed = 0 /\ Default.synced = 0
           /\ SyncCheckpoint \in Checkpoint
           /\ SyncCheckpoint.submitted = 0 /\ SyncCheckpoint.derived = 0
           /\ SyncCheckpoint.executed = current /\ SyncCheckpoint.synced = current
  BY DEF Default, Checkpoint, SyncCheckpoint

(* What the node takes over from its roles.                                *)
LEMMA TickedSteps ==
    ASSUME TypeOK
    PROVE  /\ SequencerTicked =>
                /\ nodeCp' \in Checkpoint
                /\ nodeCp'.derived = nodeCp.derived /\ nodeCp'.synced = nodeCp.synced
                /\ nodeCp'.submitted = IF Sequences
                     THEN Largest(nodeCp.submitted, seqCp.submitted)
                     ELSE nodeCp.submitted
                /\ nodeCp'.executed = IF Sequences
                     THEN Largest(nodeCp.executed, seqCp.executed)
                     ELSE nodeCp.executed
           /\ ValidatorTicked =>
                /\ nodeCp' \in Checkpoint
                /\ nodeCp'.submitted = nodeCp.submitted
                /\ nodeCp'.synced = nodeCp.synced
                /\ nodeCp'.derived = IF Validates
                     THEN Largest(nodeCp.derived, valCp.derived)
                     ELSE nodeCp.derived
                /\ nodeCp'.executed = IF Validates
                     THEN Largest(nodeCp.executed, valCp.executed)
                     ELSE nodeCp.executed
<1>1. /\ nodeCp \in Checkpoint /\ seqCp.submitted \in Nat /\ seqCp.executed \in Nat
      /\ valCp.derived \in Nat /\ valCp.executed \in Nat
  BY CheckpointFields DEF TypeOK
<1> DEFINE s == RecordBatchSubmitted(nodeCp, seqCp.submitted)
           v == RecordBatchDerived(nodeCp, valCp.derived)
<1>2. /\ s \in Checkpoint /\ s.submitted = Largest(nodeCp.submitted, seqCp.submitted)
      /\ s.derived = nodeCp.derived /\ s.executed = nodeCp.executed
      /\ s.synced = nodeCp.synced
  BY <1>1, Records
<1>3. /\ v \in Checkpoint /\ v.derived = Largest(nodeCp.derived, valCp.derived)
      /\ v.submitted = nodeCp.submitted /\ v.executed = nodeCp.executed
      /\ v.synced = nodeCp.synced
  BY <1>1, Records
<1>4. SequencerTicked => nodeCp' = IF Sequences
                           THEN RecordBlockExecuted(s, seqCp.executed) ELSE nodeCp
  BY DEF SequencerTicked
<1>5. ValidatorTicked => nodeCp' = IF Validates
                           THEN RecordBlockExecuted(v, valCp.executed) ELSE nodeCp
  BY DEF ValidatorTicked
<1> HIDE DEF s, v
<1>6. /\ RecordBlockExecuted(s, seqCp.executed) \in Checkpoint
      /\ RecordBlockExecuted(s, seqCp.executed).submitted = s.submitted
      /\ RecordBlockExecuted(s, seqCp.executed).derived = s.derived
      /\ RecordBlockExecuted(s, seqCp.executed).synced = s.synced
      /\ RecordBlockExecuted(s, seqCp.executed).executed
           = Largest(s.executed, seqCp.executed)
  BY <1>1, <1>2, Records
<1>7. /\ RecordBlockExecuted(v, valCp.executed) \in Checkpoint
      /\ RecordBlockExecuted(v, valCp.executed).submitted = v.submitted
      /\ RecordBlockExecuted(v, valCp.executed).derived = v.derived
      /\ RecordBlockExecuted(v, valCp.executed).synced = v.synced
      /\ RecordBlockExecuted(v, valCp.executed).executed
           = Largest(v.executed, valCp.executed)
  BY <1>1, <1>3, Records
<1> QED BY <1>1, <1>2, <1>3, <1>4, <1>5, <1>6, <1>7

(* A stage that is not synced has blocks left to fetch.                    *)
LEMMA MissingBlocks ==
    ASSUME NEW c \in Nat, NEW t \in Nat, NEW s \in Nat, ~(c + s >= t)
    PROVE  t - s - c \in Nat \ {0} /\ c + (t - s - c) <= t
  OBVIOUS

(* A sync tick fetches the blocks from the current one on.                 *)
LEMMA SyncBlocksStep ==
    ASSUME TypeOK, SyncBlocks
    PROVE  /\ current' \in Nat /\ target' \in Nat
           /\ current <= current'
           /\ got' = got \union (current + 1)..current'
           /\ nodeCp' = RecordSyncProgress(nodeCp, current')
<1>1. /\ current \in Nat /\ target' \in Nat
      /\ SyncThreshold \in Nat /\ BlocksPerTick \in Nat
  BY BoundAssumption DEF SyncBlocks, Targets, TypeOK
<1>2. ~(current + SyncThreshold >= target')
  BY Zenon DEF SyncBlocks, IsSynced
<1> DEFINE missing == target' - SyncThreshold - current
           most == IF missing < BlocksPerTick THEN missing ELSE BlocksPerTick
<1>3. missing \in Nat \ {0}
  BY <1>1, <1>2, MissingBlocks, Zenon
<1>4. \E n \in IF ProducerLags THEN 0..most ELSE {most} :
         /\ current' = Reached(n)
         /\ got' = got \union (current + 1)..(current + n)
         /\ nodeCp' = RecordSyncProgress(nodeCp, current')
  BY Zenon DEF SyncBlocks
<1> HIDE DEF missing
<1>6. most \in Nat
  BY <1>1, <1>3
<1> HIDE DEF most
<1>7. PICK n \in 0..most : /\ current' = Reached(n)
                           /\ got' = got \union (current + 1)..(current + n)
                           /\ nodeCp' = RecordSyncProgress(nodeCp, current')
  BY <1>4, <1>6
<1>8. current' = current + n /\ n \in Nat
  BY <1>6, <1>7 DEF Reached
<1> QED BY <1>1, <1>7, <1>8

-----------------------------------------------------------------------------
(* Type correctness.                                                       *)

(* Initially every part of the invariant holds.                            *)
LEMMA InvInit == Init => Inv
<1> SUFFICES ASSUME Init PROVE Inv
  OBVIOUS
<1>1. /\ Default \in Checkpoint
      /\ Default.submitted = 0 /\ Default.derived = 0
      /\ Default.executed = 0 /\ Default.synced = 0
      /\ Nothing \in [submitted : Nat, derived : Nat]
      /\ Nothing.submitted = 0 /\ Nothing.derived = 0
  BY DEF Default, Checkpoint, Nothing
<1>2. TypeOK
  <2>1. << >> \in Seq(Nat \ {0})
    BY EmptySeq
  <2>2. fetched \in 0..MaxPerTick /\ tip \in 0..MaxTip /\ starts \in 0..MaxStarts
    BY BoundAssumption DEF Init
  <2>3. /\ state \in States /\ pc \in PCs
    BY DEF Init, States, PCs
  <2>4. /\ current \in Nat /\ target \in Nat /\ next \in Nat \ {0} /\ feed \in Nat
        /\ given \in Nat \ {0}
    BY DEF Init
  <2> QED BY <1>1, <2>1, <2>2, <2>3, <2>4, Zenon DEF Init, TypeOK
<1>3. SyncInv
  <2>1. 1..0 \subseteq got
    OBVIOUS
  <2> QED BY <1>1, <2>1 DEF Init, SyncInv, Live
<1>4. CoveredInv
  BY <1>1 DEF Init, CoveredInv, Covered
<1>5. KeptInv
  BY <1>1 DEF Init, KeptInv, Running, NeverAhead, OneIsRight
<1> QED
  BY <1>2, <1>3, <1>4, <1>5 DEF Init, Inv, StageInv, CopiesInv, FlowInv, Running

(* The batch the validator fetches, and its number.                        *)
LEMMA FetchType ==
    ASSUME TypeOK, ValidatorFetches
    PROVE  /\ Head(l1) \in Nat \ {0} /\ l1' \in Seq(Nat \ {0})
           /\ SourceNumber \in Nat \ {0} /\ given' \in Nat \ {0}
           /\ fetched' \in 0..MaxPerTick
<1>1. l1 # << >> /\ l1' = Tail(l1) /\ l1 \in Seq(Nat \ {0}) /\ given \in Nat \ {0}
  BY DEF ValidatorFetches, TypeOK
<1>2. Head(l1) \in Nat \ {0} /\ l1' \in Seq(Nat \ {0})
  BY <1>1, HeadTailProperties
<1>3. SourceNumber \in Nat \ {0}
  BY <1>1, <1>2 DEF SourceNumber
<1>4. given' \in Nat \ {0}
  BY <1>1 DEF ValidatorFetches
<1>5. fetched' \in 0..MaxPerTick
  BY BoundAssumption DEF ValidatorFetches, MoreBatches, TypeOK
<1> QED BY <1>2, <1>3, <1>4, <1>5

(* Every step of the node and of its environment keeps the types.          *)
LEMMA TypeNext == TypeOK /\ [Next]_vars => TypeOK'
<1> SUFFICES ASSUME TypeOK, [Next]_vars PROVE TypeOK'
  OBVIOUS
<1> USE DEF feedVars, sourceVars, roleVars, syncVars, stopVars, States, PCs, TypeOK
<1>0. /\ kept.submitted \in Nat /\ kept.derived \in Nat
      /\ file.submitted \in Nat /\ file.derived \in Nat /\ next \in Nat
      /\ Nothing \in [submitted : Nat, derived : Nat]
  BY CheckpointFields DEF Nothing
<1>1. CASE Start
  <2>1. << >> \in Seq(Nat \ {0})
    BY EmptySeq
  <2>2. /\ next' \in Nat \ {0} /\ fetched' \in 0..MaxPerTick
        /\ starts' \in 0..MaxStarts /\ current' \in Nat /\ target' \in Nat
        /\ given' \in Nat \ {0} /\ feed' \in Nat
    BY <1>1, BoundAssumption DEF Start
  <2>3. state' \in States /\ pc' \in PCs
    BY <1>1 DEF Start
  <2>4. feeding' \in BOOLEAN /\ hole' \in BOOLEAN /\ skipSync' \in SkipSyncModes
    BY <1>1, RoleAssumption DEF Start
  <2>5. /\ nodeCp' \in Checkpoint /\ seqCp' \in Checkpoint /\ valCp' \in Checkpoint
        /\ file' \in Checkpoint
    BY <1>1 DEF Start, Load
  <2>6. /\ l1' = << >> /\ message' = FALSE /\ flag' = FALSE
        /\ UNCHANGED <<renumbers, derived, kept, got, tip>>
    BY <1>1 DEF Start
  <2> HIDE <1>1
  <2> QED BY <2>1, <2>2, <2>3, <2>4, <2>5, <2>6
<1>2. CASE SendShutdown \/ RequestShutdown \/ UNCHANGED vars
  BY <1>2 DEF SendShutdown, RequestShutdown, vars
<1>16. CASE Crash
  <2>1. kept' \in [submitted : Nat, derived : Nat]
    BY <1>0, <1>16 DEF Crash
  <2> QED BY <1>16, <2>1 DEF Crash
<1>3. CASE ChainGrows
  BY <1>3, BoundAssumption DEF ChainGrows
<1>4. CASE RunSync
  <2>1. nodeCp.synced \in Nat
    BY DEF Checkpoint
  <2> QED BY <1>4, <2>1, BoundAssumption DEF RunSync, Initialize
<1>5. CASE RunSkipSync \/ SyncShutdown \/ SyncContinue
  BY <1>5 DEF RunSkipSync, SyncShutdown, SyncContinue
<1>6. CASE SyncComplete
  BY <1>0, <1>6, Fresh, BoundAssumption DEF SyncComplete, Save, Targets
<1>7. CASE SyncBlocks
  <2>1. /\ current' \in Nat /\ target' \in Nat /\ nodeCp' \in Checkpoint
        /\ got' = got \union (current + 1)..current'
    <3>1. /\ current' \in Nat /\ target' \in Nat
          /\ got' = got \union (current + 1)..current'
          /\ nodeCp' = RecordSyncProgress(nodeCp, current')
      BY <1>7, SyncBlocksStep
    <3>2. nodeCp' \in Checkpoint
      BY <3>1, Records
    <3> QED BY <3>1, <3>2
  <2>2. file' \in Checkpoint
    BY <1>7 DEF SyncBlocks, Save
  <2>3. got' \subseteq Nat
    BY <2>1
  <2> QED BY <1>7, <2>1, <2>2, <2>3 DEF SyncBlocks
<1>8. CASE Resume
  BY <1>8 DEF Resume, ResumeSequencer, ResumeValidator
<1>9. CASE ActiveShutdown \/ ActiveContinue \/ SequencerSpins
  BY <1>9 DEF ActiveShutdown, ActiveContinue, SequencerSpins
<1>17. CASE FeederEnds \/ PreparationFails
  <2>1. CASE FeederEnds
    <3>1. feed' \in Nat
      BY <2>1 DEF FeederEnds
    <3> QED BY <2>1, <3>1 DEF FeederEnds
  <2>2. CASE PreparationFails
    BY <2>2 DEF PreparationFails
  <2> QED BY <1>17, <2>1, <2>2
<1>15. CASE SequencerSkips
  <2>1. next' \in Nat \ {0}
    BY <1>15 DEF SequencerSkips
  <2> QED BY <1>15, <2>1 DEF SequencerSkips
<1>10. CASE SequencerSubmits
  <2>1. l1' \in Seq(Nat \ {0})
    BY <1>10, AppendProperties DEF SequencerSubmits
  <2>2. next' \in Nat \ {0}
    BY <1>10 DEF SequencerSubmits
  <2>3. seqCp' \in Checkpoint
    BY <1>10, Records DEF SequencerSubmits
  <2>4. kept' \in [submitted : Nat, derived : Nat]
    BY <1>0, <1>10, LargestType DEF SequencerSubmits
  <2> QED BY <1>10, <2>1, <2>2, <2>3, <2>4, Zenon DEF SequencerSubmits, Save
<1>11. CASE SequencerTicked
  <2>1. nodeCp' \in Checkpoint
    BY <1>11, TickedSteps
  <2>2. fetched' \in 0..MaxPerTick
    BY <1>11, BoundAssumption DEF SequencerTicked
  <2> QED BY <1>11, <2>1, <2>2 DEF SequencerTicked
<1>12. CASE ValidatorSkips \/ ValidatorDerives
  <2>1. /\ Head(l1) \in Nat \ {0} /\ l1' \in Seq(Nat \ {0})
        /\ SourceNumber \in Nat \ {0} /\ given' \in Nat \ {0}
        /\ fetched' \in 0..MaxPerTick
    BY <1>12, FetchType DEF ValidatorSkips, ValidatorDerives
  <2>3. RecordBatchDerived(valCp, SourceNumber) \in Checkpoint
    BY <2>1, Records
  <2>4. CASE ValidatorSkips
    BY <2>1, <2>4 DEF ValidatorSkips
  <2>5. CASE ValidatorDerives
    <3>1. kept' \in [submitted : Nat, derived : Nat]
      BY <1>0, <2>1, <2>5, LargestType DEF ValidatorDerives
    <3> QED BY <2>1, <2>3, <2>5, <3>1 DEF ValidatorDerives, Save
  <2> QED BY <1>12, <2>4, <2>5
<1>13. CASE ValidatorTicked
  <2>1. nodeCp' \in Checkpoint
    BY <1>13, TickedSteps
  <2> QED BY <1>13, <2>1 DEF ValidatorTicked
<1>14. CASE MaybeSave \/ Stop
  BY <1>14 DEF MaybeSave, Stop, Save, FinalCheckpoint
<1> QED
  BY <1>1, <1>2, <1>3, <1>4, <1>5, <1>6, <1>7, <1>8, <1>9, <1>10, <1>11,
     <1>12, <1>13, <1>14, <1>15, <1>16, <1>17
     DEF Next, NodeStep, SyncStep, ActiveStep, Environment

-----------------------------------------------------------------------------
(* The parts of the invariant, step by step.                               *)

(* Every copy of the checkpoint names blocks that were fetched.            *)
LEMMA SyncStepInv ==
    ASSUME TypeOK, SyncInv, CopiesInv, [Next]_vars PROVE SyncInv'
<1> USE DEF feedVars, sourceVars, roleVars, syncVars, stopVars
<1>1. /\ current \in Nat /\ next \in Nat
      /\ nodeCp \in Checkpoint /\ seqCp \in Checkpoint /\ valCp \in Checkpoint
      /\ file \in Checkpoint
  BY DEF TypeOK
<1>2. \A cp \in {nodeCp, seqCp, valCp, file} : cp.synced \in Nat /\ cp.executed \in Nat
  BY <1>1, CheckpointFields
<1> DEFINE Sound(cp) == 1..cp.synced \subseteq got /\ cp.executed <= cp.synced
<1>3. /\ Sound(nodeCp) /\ Sound(seqCp) /\ Sound(valCp) /\ Sound(file)
      /\ 1..current \subseteq got
      /\ Live => current <= nodeCp.synced
      /\ state = "stopped" => current <= file.synced
  BY DEF SyncInv
<1>4. SUFFICES /\ Sound(nodeCp)' /\ Sound(seqCp)' /\ Sound(valCp)' /\ Sound(file)'
               /\ 1..current' \subseteq got'
               /\ Live' => current' <= nodeCp'.synced
               /\ state' = "stopped" => current' <= file'.synced
  BY DEF SyncInv
<1>5. CASE Start
  <2>1. 1..current' \subseteq got'
    BY <1>5 DEF Start
  <2> QED BY <1>2, <1>3, <1>5, <2>1 DEF Start, Load
<1>7. CASE ChainGrows \/ Crash \/ SendShutdown \/ RequestShutdown \/ UNCHANGED vars
           \/ RunSkipSync \/ SyncShutdown \/ SyncContinue \/ ActiveShutdown
           \/ ActiveContinue \/ SequencerSkips \/ SequencerSpins \/ FeederEnds
           \/ PreparationFails
  BY <1>3, <1>7 DEF ChainGrows, Crash, SendShutdown, RequestShutdown, vars,
        RunSkipSync, SyncShutdown, SyncContinue, ActiveShutdown, ActiveContinue,
        SequencerSkips, SequencerSpins, FeederEnds, PreparationFails, BatchReady, Live
<1>8. CASE RunSync
  BY <1>1, <1>2, <1>3, <1>8 DEF RunSync, Initialize
<1>9. CASE SyncComplete
  <2>1. nodeCp'.synced = current /\ nodeCp'.executed = current
    BY <1>1, <1>9, Fresh DEF SyncComplete
  <2>2. file' = nodeCp' /\ current' = current /\ got' = got
        /\ seqCp' = seqCp /\ valCp' = valCp
    BY <1>9 DEF SyncComplete, Save
  <2> QED BY <1>1, <1>3, <1>9, <2>1, <2>2 DEF SyncComplete
<1>10. CASE SyncBlocks
  <2>1. /\ current' \in Nat /\ current <= current'
        /\ got' = got \union (current + 1)..current'
        /\ nodeCp' = RecordSyncProgress(nodeCp, current')
    BY <1>10, SyncBlocksStep
  <2>2. /\ nodeCp'.synced = Largest(nodeCp.synced, current')
        /\ nodeCp'.executed = nodeCp.executed
    BY <1>1, <2>1, Records
  <2>3. 1..current' \subseteq got'
    BY <1>1, <1>3, <2>1
  <2>4. /\ nodeCp'.synced = nodeCp.synced \/ nodeCp'.synced = current'
        /\ nodeCp.synced <= nodeCp'.synced /\ current' <= nodeCp'.synced
    BY <1>2, <2>1, <2>2 DEF Largest
  <2>5. got \subseteq got'
    BY <2>1
  <2>6. 1..nodeCp'.synced \subseteq got'
    BY <1>3, <2>3, <2>4, <2>5
  <2>7. nodeCp'.executed <= nodeCp'.synced
    BY <1>2, <1>3, <2>1, <2>2 DEF Largest
  <2>8. /\ file' = file \/ file' = nodeCp
        /\ seqCp' = seqCp /\ valCp' = valCp
    BY <1>10 DEF SyncBlocks, Save
  <2> QED BY <1>3, <1>10, <2>3, <2>4, <2>5, <2>6, <2>7, <2>8 DEF SyncBlocks
<1>11. CASE Resume
  BY <1>3, <1>11 DEF Resume, ResumeSequencer, ResumeValidator, Live
<1>12. CASE SequencerSubmits
  <2>1. seqCp'.synced = seqCp.synced /\ seqCp'.executed = seqCp.executed
    BY <1>1, <1>12, Records DEF SequencerSubmits
  <2> QED BY <1>3, <1>12, <2>1 DEF SequencerSubmits, BatchReady, Save, Live
<1>13. CASE SequencerTicked
  <2>1. nodeCp'.synced = nodeCp.synced /\ nodeCp'.executed = nodeCp.executed
    BY <1>2, <1>13, TickedSteps DEF Largest, SequencerTicked, CopiesInv, Running
  <2> QED BY <1>3, <1>13, <2>1 DEF SequencerTicked, Live
<1>14. CASE ValidatorSkips
  BY <1>3, <1>14 DEF ValidatorSkips, ValidatorFetches, Live
<1>15. CASE ValidatorDerives
  <2>1. SourceNumber \in Nat
    BY <1>15, FetchType DEF ValidatorDerives
  <2>2. valCp'.synced = valCp.synced /\ valCp'.executed = valCp.executed
    BY <1>1, <1>15, <2>1, Records DEF ValidatorDerives
  <2> QED BY <1>3, <1>15, <2>2 DEF ValidatorDerives, ValidatorFetches, Save, Live
<1>16. CASE ValidatorTicked
  <2>1. nodeCp'.synced = nodeCp.synced /\ nodeCp'.executed = nodeCp.executed
    BY <1>2, <1>16, TickedSteps DEF Largest, ValidatorTicked, CopiesInv, Running
  <2> QED BY <1>3, <1>16, <2>1 DEF ValidatorTicked, Live
<1>17. CASE MaybeSave \/ Stop
  BY <1>3, <1>17 DEF MaybeSave, Stop, Save, FinalCheckpoint, Live
<1> QED
  BY <1>5, <1>7, <1>8, <1>9, <1>10, <1>11, <1>12, <1>13, <1>14, <1>15,
     <1>16, <1>17
     DEF Next, NodeStep, SyncStep, ActiveStep, Environment

(* run() goes through its stages in order.                                 *)
LEMMA StageStep ==
    ASSUME TypeOK, StageInv, [Next]_vars PROVE StageInv'
<1> USE DEF feedVars, sourceVars, roleVars, syncVars, stopVars
<1>2. CASE Start
  BY <1>2 DEF Start, StageInv
<1>3. CASE Crash \/ ChainGrows \/ SendShutdown \/ RequestShutdown \/ UNCHANGED vars
           \/ RunSkipSync \/ SyncShutdown \/ SyncContinue \/ RunSync \/ SyncComplete
  BY <1>3 DEF Crash, ChainGrows, SendShutdown, RequestShutdown, vars, RunSkipSync,
        SyncShutdown, SyncContinue, RunSync, SyncComplete, StageInv
<1>4. CASE ActiveShutdown \/ ActiveContinue \/ SequencerSkips \/ SequencerSubmits
           \/ SequencerSpins \/ SequencerTicked \/ ValidatorSkips \/ ValidatorDerives
           \/ ValidatorTicked \/ MaybeSave \/ Stop \/ Resume
  BY <1>4 DEF ActiveShutdown, ActiveContinue, SequencerSkips, SequencerSubmits,
        SequencerSpins, BatchReady, SequencerTicked, ValidatorSkips, ValidatorDerives,
        ValidatorFetches, ValidatorTicked, MaybeSave, Stop, Resume, StageInv
<1>5. CASE FeederEnds \/ PreparationFails
  BY <1>5 DEF FeederEnds, PreparationFails, BatchReady, StageInv
<1>7. CASE SyncBlocks
  BY <1>7 DEF SyncBlocks, StageInv
<1> QED
  BY <1>2, <1>3, <1>4, <1>5, <1>7
     DEF Next, NodeStep, SyncStep, ActiveStep, Environment

(* The node takes over what a role achieved before it leaves the tick.     *)
LEMMA CopiesStep ==
    ASSUME TypeOK, CopiesInv, StageInv, [Next]_vars PROVE CopiesInv'
<1> USE DEF feedVars, sourceVars, roleVars, syncVars, stopVars, Running
<1>1. /\ nodeCp \in Checkpoint /\ seqCp \in Checkpoint /\ valCp \in Checkpoint
      /\ nodeCp.submitted \in Nat /\ nodeCp.derived \in Nat /\ nodeCp.executed \in Nat
      /\ seqCp.submitted \in Nat /\ seqCp.executed \in Nat
      /\ valCp.submitted \in Nat /\ valCp.derived \in Nat /\ valCp.executed \in Nat
      /\ next \in Nat
  BY CheckpointFields DEF TypeOK
<1>2. CASE Start \/ Crash \/ RunSync \/ RunSkipSync \/ SyncShutdown \/ SyncContinue
           \/ SyncComplete \/ SyncBlocks
  BY <1>2 DEF Start, Crash, RunSync, RunSkipSync, SyncShutdown, SyncContinue,
        SyncComplete, SyncBlocks, CopiesInv
<1>3. CASE ChainGrows \/ SendShutdown \/ RequestShutdown \/ UNCHANGED vars
           \/ SequencerSkips \/ ValidatorSkips \/ SequencerSpins
  BY <1>3 DEF ChainGrows, SendShutdown, RequestShutdown, vars, SequencerSkips,
        ValidatorSkips, ValidatorFetches, SequencerSpins, CopiesInv
<1>10. CASE FeederEnds \/ PreparationFails
  BY <1>10 DEF FeederEnds, PreparationFails, CopiesInv
<1>4. CASE Resume
  BY <1>1, <1>4 DEF Resume, ResumeSequencer, ResumeValidator, CopiesInv
<1>5. CASE ActiveShutdown \/ ActiveContinue \/ MaybeSave \/ Stop
  BY <1>5 DEF ActiveShutdown, ActiveContinue, MaybeSave, Stop, CopiesInv
<1>6. CASE SequencerSubmits
  <2>1. /\ seqCp'.submitted = Largest(seqCp.submitted, next)
        /\ seqCp'.executed = seqCp.executed
    BY <1>1, <1>6, Records DEF SequencerSubmits
  <2>2. seqCp'.submitted \in Nat /\ seqCp.submitted <= seqCp'.submitted
    BY <1>1, <2>1, LargestType
  <2>3. /\ state = "active" /\ state' = "active" /\ pc = "sequencer" /\ pc' = "sequencer"
        /\ nodeCp' = nodeCp /\ valCp' = valCp
    BY <1>6 DEF SequencerSubmits, BatchReady
  <2>4. Sequences => /\ seqCp'.executed <= nodeCp'.executed
                     /\ nodeCp'.submitted <= seqCp'.submitted
    BY <1>1, <2>1, <2>2, <2>3 DEF CopiesInv
  <2> QED BY <2>3, <2>4 DEF CopiesInv
<1>7. CASE SequencerTicked
  <2>1. /\ nodeCp'.derived = nodeCp.derived
        /\ nodeCp'.submitted = IF Sequences
             THEN Largest(nodeCp.submitted, seqCp.submitted) ELSE nodeCp.submitted
        /\ nodeCp'.executed = IF Sequences
             THEN Largest(nodeCp.executed, seqCp.executed) ELSE nodeCp.executed
    BY <1>7, TickedSteps
  <2>2. /\ seqCp' = seqCp /\ valCp' = valCp /\ state = "active" /\ state' = "active"
        /\ pc = "sequencer" /\ pc' = "validator"
    BY <1>7 DEF SequencerTicked
  <2> QED BY <1>1, <2>1, <2>2 DEF CopiesInv, Largest
<1>8. CASE ValidatorDerives
  <2>1. SourceNumber \in Nat
    BY <1>8, FetchType DEF ValidatorDerives
  <2>2. /\ valCp'.derived = Largest(valCp.derived, SourceNumber)
        /\ valCp'.submitted = valCp.submitted /\ valCp'.executed = valCp.executed
    BY <1>1, <1>8, <2>1, Records DEF ValidatorDerives
  <2>3. valCp'.derived \in Nat /\ valCp.derived <= valCp'.derived
    BY <1>1, <2>1, <2>2, LargestType
  <2> QED BY <1>1, <1>8, <2>2, <2>3 DEF ValidatorDerives, ValidatorFetches, CopiesInv
<1>9. CASE ValidatorTicked
  <2>1. /\ nodeCp'.submitted = nodeCp.submitted
        /\ nodeCp'.derived = IF Validates
             THEN Largest(nodeCp.derived, valCp.derived) ELSE nodeCp.derived
        /\ nodeCp'.executed = IF Validates
             THEN Largest(nodeCp.executed, valCp.executed) ELSE nodeCp.executed
    BY <1>9, TickedSteps
  <2>2. /\ seqCp' = seqCp /\ valCp' = valCp /\ state = "active" /\ state' = "active"
        /\ pc = "validator" /\ pc' = "save"
    BY <1>9 DEF ValidatorTicked
  <2> QED BY <1>1, <2>1, <2>2 DEF CopiesInv, Largest
<1> QED
  BY <1>2, <1>3, <1>4, <1>5, <1>6, <1>7, <1>8, <1>9, <1>10
     DEF Next, NodeStep, SyncStep, ActiveStep, Environment

(* What was achieved is in the file or in the copy of the role that        *)
(* achieved it, until a step forgets it.                                   *)
LEMMA KeptStep ==
    ASSUME TypeOK, StageInv, CopiesInv, KeptInv, [Next]_vars PROVE KeptInv'
<1> USE DEF feedVars, sourceVars, roleVars, syncVars, stopVars, Running, NeverAhead,
            OneIsRight
<1>1. /\ nodeCp \in Checkpoint /\ seqCp \in Checkpoint /\ valCp \in Checkpoint
      /\ nodeCp.submitted \in Nat /\ nodeCp.derived \in Nat
      /\ seqCp.submitted \in Nat /\ seqCp.derived \in Nat
      /\ valCp.submitted \in Nat /\ valCp.derived \in Nat
      /\ file.submitted \in Nat /\ file.derived \in Nat
      /\ kept.submitted \in Nat /\ kept.derived \in Nat
      /\ next \in Nat
  BY CheckpointFields DEF TypeOK
<1>2. CASE Start
  BY <1>2 DEF Start, Load, KeptInv
<1>3. CASE Crash
  <2>1. /\ kept'.submitted = file.submitted /\ kept'.derived = file.derived
        /\ file' = file /\ state' = "down"
    BY <1>3 DEF Crash
  <2> QED BY <1>1, <2>1 DEF KeptInv
<1>4. CASE ChainGrows \/ SendShutdown \/ RequestShutdown \/ UNCHANGED vars
           \/ SequencerSkips \/ ValidatorSkips \/ SequencerSpins
  BY <1>4 DEF ChainGrows, SendShutdown, RequestShutdown, vars, SequencerSkips,
        ValidatorSkips, SequencerSpins, KeptInv
<1>5. CASE FeederEnds \/ PreparationFails \/ ActiveShutdown \/ ActiveContinue
  BY <1>5 DEF FeederEnds, PreparationFails, ActiveShutdown, ActiveContinue, KeptInv
<1>6. CASE RunSync \/ RunSkipSync \/ SyncShutdown \/ SyncContinue
  BY <1>6 DEF RunSync, RunSkipSync, SyncShutdown, SyncContinue, KeptInv
<1>7. CASE SyncComplete
  <2>1. nodeCp'.submitted = 0 /\ nodeCp'.derived = 0 /\ file' = nodeCp'
        /\ kept' = Nothing /\ state' = "syncing"
    BY <1>7, Fresh DEF SyncComplete, Save, TypeOK
  <2>2. kept'.submitted = 0 /\ kept'.derived = 0
    BY <2>1 DEF Nothing
  <2> QED BY <2>1, <2>2 DEF KeptInv
<1>8. CASE SyncBlocks
  <2>1. nodeCp'.submitted = nodeCp.submitted /\ nodeCp'.derived = nodeCp.derived
    <3>1. current' \in Nat /\ nodeCp' = RecordSyncProgress(nodeCp, current')
      BY <1>8, SyncBlocksStep
    <3> QED BY <1>1, <3>1, Records
  <2>2. /\ file' = file \/ file' = nodeCp
        /\ kept' = kept /\ state = "syncing" /\ state' = "syncing"
    BY <1>8 DEF SyncBlocks, Save
  <2> QED BY <1>1, <2>1, <2>2 DEF KeptInv
<1>9. CASE Resume
  <2>1. /\ nodeCp' = nodeCp /\ file' = file /\ kept' = kept
        /\ state \in {"starting", "syncing"} /\ state' = "active"
        /\ Sequences => seqCp' = nodeCp
        /\ Validates => valCp' = nodeCp
    BY <1>9 DEF Resume, ResumeSequencer, ResumeValidator
  <2> QED BY <1>1, <2>1 DEF KeptInv
<1>10. CASE SequencerSubmits
  <2>1. /\ seqCp'.submitted = Largest(seqCp.submitted, next)
        /\ seqCp'.derived = seqCp.derived
    BY <1>1, <1>10, Records DEF SequencerSubmits
  <2>2. /\ nodeCp' = nodeCp /\ valCp' = valCp /\ file' = seqCp' /\ Sequences
        /\ state = "active" /\ state' = "active"
        /\ kept' = [kept EXCEPT !.submitted = Largest(kept.submitted, next)]
    BY <1>10 DEF SequencerSubmits, BatchReady, Save
  <2>3. /\ kept'.submitted = Largest(kept.submitted, next)
        /\ kept'.derived = kept.derived
    BY <2>2 DEF TypeOK
  <2>4. /\ kept.submitted <= kept'.submitted /\ kept'.submitted \in Nat
    BY <1>1, <2>3 DEF Largest
  <2> QED BY <1>1, <2>1, <2>2, <2>3, <2>4 DEF KeptInv
<1>11. CASE SequencerTicked
  <2>1. /\ nodeCp'.derived = nodeCp.derived
        /\ nodeCp'.submitted = IF Sequences
             THEN Largest(nodeCp.submitted, seqCp.submitted) ELSE nodeCp.submitted
    BY <1>11, TickedSteps
  <2>2. /\ seqCp' = seqCp /\ valCp' = valCp /\ file' = file /\ kept' = kept
        /\ state = "active" /\ state' = "active"
    BY <1>11 DEF SequencerTicked
  <2> QED BY <1>1, <2>1, <2>2 DEF KeptInv, Largest
<1>12. CASE ValidatorDerives
  <2>1. SourceNumber \in Nat
    BY <1>12, FetchType DEF ValidatorDerives
  <2>2. /\ valCp'.derived = Largest(valCp.derived, SourceNumber)
        /\ valCp'.submitted = valCp.submitted
    BY <1>1, <1>12, <2>1, Records DEF ValidatorDerives
  <2>3. /\ nodeCp' = nodeCp /\ seqCp' = seqCp /\ file' = valCp' /\ Validates
        /\ state = "active" /\ state' = "active"
        /\ kept' = [kept EXCEPT !.derived = Largest(kept.derived, SourceNumber)]
    BY <1>12 DEF ValidatorDerives, ValidatorFetches, Save
  <2>4. /\ kept'.derived = Largest(kept.derived, SourceNumber)
        /\ kept'.submitted = kept.submitted
    BY <2>3 DEF TypeOK
  <2>5. /\ kept.derived <= kept'.derived /\ kept'.derived \in Nat
    BY <1>1, <2>1, <2>4 DEF Largest
  <2> QED BY <1>1, <2>2, <2>3, <2>4, <2>5 DEF KeptInv
<1>13. CASE ValidatorTicked
  <2>1. /\ nodeCp'.submitted = nodeCp.submitted
        /\ nodeCp'.derived = IF Validates
             THEN Largest(nodeCp.derived, valCp.derived) ELSE nodeCp.derived
    BY <1>13, TickedSteps
  <2>2. /\ seqCp' = seqCp /\ valCp' = valCp /\ file' = file /\ kept' = kept
        /\ state = "active" /\ state' = "active"
    BY <1>13 DEF ValidatorTicked
  <2> QED BY <1>1, <2>1, <2>2 DEF KeptInv, Largest
<1>14. CASE MaybeSave \/ Stop
  <2>1. /\ nodeCp' = nodeCp /\ seqCp' = seqCp /\ valCp' = valCp /\ kept' = kept
        /\ file' = nodeCp \/ (file' = file /\ state' = "active")
        /\ state \in {"active", "stopping"} /\ state' \in {"active", "stopped"}
        /\ state = "active" => pc = "save"
    BY <1>14 DEF MaybeSave, Stop, Save, FinalCheckpoint
  <2>2. nodeCp.submitted = kept.submitted /\ nodeCp.derived = kept.derived
    BY <1>1, <2>1 DEF KeptInv, CopiesInv
  <2> QED BY <1>1, <2>1, <2>2 DEF KeptInv
<1> QED
  BY <1>2, <1>3, <1>4, <1>5, <1>6, <1>7, <1>8, <1>9, <1>10, <1>11, <1>12, <1>13,
     <1>14
     DEF Next, NodeStep, SyncStep, ActiveStep, Environment

(* Head and tail of the batches on L1, and the number Anvil gives.         *)
LEMMA FetchStep ==
    ASSUME TypeOK, FlowInv, ValidatorFetches
    PROVE  /\ Sequences /\ Validates /\ Running
           /\ Head(l1) \in Nat \ {0} /\ l1' = Tail(l1)
           /\ Len(l1) \in Nat \ {0} /\ Len(l1') = Len(l1) - 1
           /\ Head(l1) + Len(l1) = next
           /\ valCp.submitted < Head(l1) /\ valCp.submitted < next
           /\ valCp.submitted + given = Head(l1)
           /\ (renumbers => valCp.submitted = 0) => SourceNumber = Head(l1)
           /\ \A i \in 1..Len(l1') : l1'[i] = l1[i + 1]
<1>1. /\ l1 # << >> /\ l1' = Tail(l1) /\ Validates /\ Running
      /\ l1 \in Seq(Nat \ {0}) /\ next \in Nat /\ valCp.submitted \in Nat
      /\ given \in Nat
  BY CheckpointFields DEF ValidatorFetches, Running, TypeOK
<1>2. /\ Head(l1) \in Nat \ {0} /\ Len(l1) \in Nat \ {0}
      /\ Head(l1) = l1[1] /\ Len(Tail(l1)) = Len(l1) - 1
      /\ \A i \in 1..(Len(l1) - 1) : Tail(l1)[i] = l1[i + 1]
  <2>1. Len(l1) \in Nat /\ Len(l1) # 0
    BY <1>1, EmptySeq, LenProperties
  <2>2. Head(l1) = l1[1]
    BY <1>1
  <2>3. Head(l1) \in Nat \ {0}
    BY <1>1, HeadTailProperties
  <2>4. Len(Tail(l1)) = Len(l1) - 1
    BY <1>1, HeadTailProperties
  <2>5. \A i \in 1..(Len(l1) - 1) : Tail(l1)[i] = l1[i + 1]
    BY <1>1, <2>4, HeadTailProperties
  <2> QED BY <2>1, <2>2, <2>3, <2>4, <2>5
<1>3. Sequences
  BY <1>1 DEF FlowInv
<1>4. /\ \A i \in 1..Len(l1) : l1[i] + Len(l1) + 1 = next + i
      /\ valCp.submitted + Len(l1) < next
      /\ valCp.submitted < next => valCp.submitted + given + Len(l1) = next
  BY <1>1, <1>3 DEF FlowInv
<1>5. Head(l1) + Len(l1) = next
  <2>1. 1 \in 1..Len(l1)
    BY <1>2
  <2>2. l1[1] + Len(l1) + 1 = next + 1
    BY <1>4, <2>1
  <2> QED BY <1>1, <1>2, <2>2
<1>6. valCp.submitted < Head(l1) /\ valCp.submitted < next
  BY <1>1, <1>2, <1>4, <1>5
<1>7. valCp.submitted + given = Head(l1)
  <2>1. /\ valCp.submitted \in Nat /\ given \in Nat /\ Len(l1) \in Nat
        /\ Head(l1) \in Nat /\ next \in Nat
    BY <1>1, <1>2
  <2>2. valCp.submitted + given + Len(l1) = next
    BY <1>4, <1>6
  <2> QED BY <1>5, <2>1, <2>2
<1>8. (renumbers => valCp.submitted = 0) => SourceNumber = Head(l1)
  BY <1>1, <1>2, <1>7 DEF SourceNumber
<1> QED BY <1>1, <1>2, <1>3, <1>5, <1>6, <1>7, <1>8

(* No checkpoint gets ahead of what was derived.                           *)
LEMMA CoveredStep ==
    ASSUME TypeOK, CoveredInv, CopiesInv, StageInv, FlowInv, [Next]_vars
    PROVE  CoveredInv'
<1> USE DEF feedVars, sourceVars, roleVars, syncVars, stopVars
<1>1. /\ nodeCp \in Checkpoint /\ seqCp \in Checkpoint /\ valCp \in Checkpoint
      /\ nodeCp.submitted \in Nat /\ nodeCp.derived \in Nat
      /\ seqCp.submitted \in Nat /\ valCp.submitted \in Nat /\ valCp.derived \in Nat
      /\ seqCp.derived \in Nat /\ next \in Nat
  BY CheckpointFields DEF TypeOK
<1>2. Covered(nodeCp) /\ Covered(seqCp) /\ Covered(valCp) /\ Covered(file)
  BY DEF CoveredInv
<1>4. ASSUME derived' = derived, renumbers' = renumbers,
             nodeCp' \in {nodeCp, file}, seqCp' \in {seqCp, nodeCp, file},
             valCp' \in {valCp, nodeCp, file}, file' \in {file, nodeCp}
      PROVE  CoveredInv'
  BY <1>2, <1>4 DEF CoveredInv, Covered
<1>5. CASE Start
  BY <1>4, <1>5 DEF Start, Load
<1>6. CASE ChainGrows \/ Crash \/ SendShutdown \/ RequestShutdown \/ UNCHANGED vars
           \/ RunSync \/ RunSkipSync \/ SyncShutdown \/ SyncContinue \/ ActiveShutdown
           \/ ActiveContinue \/ SequencerSkips \/ SequencerSpins \/ FeederEnds
           \/ PreparationFails
  BY <1>4, <1>6 DEF ChainGrows, Crash, SendShutdown, RequestShutdown, vars, RunSync,
        RunSkipSync, SyncShutdown, SyncContinue, ActiveShutdown, ActiveContinue,
        SequencerSkips, SequencerSpins, FeederEnds, PreparationFails
<1>7. CASE ValidatorSkips \/ Resume \/ MaybeSave \/ Stop
  BY <1>4, <1>7 DEF ValidatorSkips, Resume, ResumeSequencer, ResumeValidator,
        MaybeSave, Stop, Save, FinalCheckpoint
<1>8. CASE SyncComplete
  <2>1. nodeCp'.submitted = 0 /\ nodeCp'.derived = 0 /\ file' = nodeCp'
        /\ seqCp' = seqCp /\ valCp' = valCp /\ derived' = derived
        /\ renumbers' = renumbers
    BY <1>8, Fresh DEF SyncComplete, Save, TypeOK
  <2> QED BY <1>2, <2>1 DEF CoveredInv, Covered
<1>9. CASE SyncBlocks
  <2>1. /\ nodeCp'.submitted = nodeCp.submitted /\ nodeCp'.derived = nodeCp.derived
    <3>1. current' \in Nat /\ nodeCp' = RecordSyncProgress(nodeCp, current')
      BY <1>9, SyncBlocksStep
    <3> QED BY <1>1, <3>1, Records
  <2>2. /\ file' = file \/ file' = nodeCp
        /\ seqCp' = seqCp /\ valCp' = valCp /\ derived' = derived
        /\ renumbers' = renumbers
    BY <1>9 DEF SyncBlocks, Save
  <2> QED BY <1>2, <2>1, <2>2 DEF CoveredInv, Covered
<1>10. CASE SequencerSubmits
  <2>1. /\ seqCp'.submitted = Largest(seqCp.submitted, next)
        /\ seqCp'.derived = seqCp.derived
    BY <1>1, <1>10, Records DEF SequencerSubmits
  <2>2. seqCp.submitted <= seqCp'.submitted /\ seqCp'.submitted \in Nat
    <3>1. /\ Largest(seqCp.submitted, next) \in Nat
          /\ seqCp.submitted <= Largest(seqCp.submitted, next)
      BY <1>1, LargestType
    <3> QED BY <2>1, <3>1
  <2>3. nodeCp' = nodeCp /\ valCp' = valCp /\ file' = seqCp' /\ derived' = derived
        /\ renumbers' = renumbers
    BY <1>10 DEF SequencerSubmits, Save
  <2>4. Covered(seqCp)'
    BY <1>1, <1>2, <2>1, <2>2, <2>3 DEF Covered
  <2> QED BY <1>2, <2>3, <2>4 DEF CoveredInv, Covered
<1>11. CASE SequencerTicked
  <2>1. /\ seqCp' = seqCp /\ valCp' = valCp /\ file' = file /\ derived' = derived
        /\ renumbers' = renumbers
    BY <1>11 DEF SequencerTicked
  <2>2. /\ nodeCp.submitted <= nodeCp'.submitted /\ nodeCp'.submitted \in Nat
        /\ nodeCp'.derived = nodeCp.derived
    <3>1. /\ Largest(nodeCp.submitted, seqCp.submitted) \in Nat
          /\ nodeCp.submitted <= Largest(nodeCp.submitted, seqCp.submitted)
      BY <1>1, LargestType
    <3> QED BY <1>1, <1>11, <3>1, TickedSteps
  <2>3. Covered(nodeCp)'
    BY <1>1, <1>2, <2>1, <2>2 DEF Covered
  <2> QED BY <1>2, <2>1, <2>3 DEF CoveredInv, Covered
<1>12. CASE ValidatorDerives
  <2>1. /\ Sequences /\ Validates /\ Running /\ Head(l1) \in Nat \ {0}
        /\ Head(l1) + Len(l1) = next /\ Len(l1) \in Nat
        /\ (renumbers => valCp.submitted = 0) => SourceNumber = Head(l1)
    BY <1>12, FetchStep DEF ValidatorDerives
  <2>7. SourceNumber \in Nat
    BY <1>12, FetchType DEF ValidatorDerives
  <2>2. /\ valCp'.derived = Largest(valCp.derived, SourceNumber)
        /\ valCp'.submitted = valCp.submitted
    BY <1>1, <1>12, <2>7, Records DEF ValidatorDerives
  <2>3. /\ seqCp' = seqCp /\ nodeCp' = nodeCp /\ file' = valCp'
        /\ derived' = derived \union {Head(l1)} /\ renumbers' = renumbers
    BY <1>12 DEF ValidatorDerives, Save
  <2>5. valCp'.derived = SourceNumber
    BY <1>1, <1>12, <2>2, <2>7 DEF ValidatorDerives, AlreadyDerived, Largest
  <2>6. Covered(valCp)'
    <3> SUFFICES ASSUME renumbers => valCp.submitted = 0,
                        NEW n \in Nat, valCp.submitted < n, n <= SourceNumber
                 PROVE  n \in derived'
      BY <2>2, <2>3, <2>5 DEF Covered
    <3>1. n = Head(l1) \/ n + Len(l1) < next
      BY <2>1
    <3>2. n + Len(l1) < next => n \in derived
      BY <2>1 DEF FlowInv
    <3> QED BY <3>1, <3>2, <2>3
  <2> QED BY <1>2, <2>3, <2>6 DEF CoveredInv, Covered
<1>13. CASE ValidatorTicked
  <2>1. /\ seqCp' = seqCp /\ valCp' = valCp /\ file' = file /\ derived' = derived
        /\ renumbers' = renumbers
    BY <1>13 DEF ValidatorTicked
  <2>2. CASE ~Validates
    BY <1>4, <1>13, <2>1, <2>2 DEF ValidatorTicked
  <2>3. CASE Validates
    <3>1. /\ nodeCp'.submitted = nodeCp.submitted
          /\ nodeCp'.derived = Largest(nodeCp.derived, valCp.derived)
      BY <1>13, <2>3, TickedSteps
    <3>2. valCp.submitted <= nodeCp.submitted
      BY <1>13, <2>3 DEF ValidatorTicked, CopiesInv, Running
    <3>3. Covered(nodeCp)'
      BY <1>1, <1>2, <2>1, <3>1, <3>2 DEF Covered, Largest
    <3> QED BY <1>2, <2>1, <3>3 DEF CoveredInv, Covered
  <2> QED BY <2>2, <2>3
<1> QED
  BY <1>5, <1>6, <1>7, <1>8, <1>9, <1>10, <1>11, <1>12, <1>13
     DEF Next, NodeStep, SyncStep, ActiveStep, Environment

(* L1 stays a run of consecutive numbers whose fetched part is derived.    *)
LEMMA FlowStep ==
    ASSUME TypeOK, CoveredInv, CopiesInv, StageInv, FlowInv, [Next]_vars
    PROVE  FlowInv'
<1> USE DEF feedVars, sourceVars, roleVars, syncVars, stopVars, Running
<1>1. /\ l1 \in Seq(Nat \ {0}) /\ Len(l1) \in Nat /\ next \in Nat \ {0}
      /\ seqCp \in Checkpoint /\ valCp \in Checkpoint
      /\ seqCp.submitted \in Nat /\ valCp.submitted \in Nat /\ valCp.derived \in Nat
      /\ given \in Nat \ {0}
  BY CheckpointFields, LenProperties DEF TypeOK
<1>2. CASE Start \/ Crash \/ RunSync \/ RunSkipSync \/ SyncShutdown \/ SyncContinue
           \/ SyncComplete \/ SyncBlocks \/ Stop
  BY <1>2 DEF Start, Crash, RunSync, RunSkipSync, SyncShutdown, SyncContinue,
        SyncComplete, SyncBlocks, Stop, FlowInv
<1>3. CASE ChainGrows \/ SendShutdown \/ RequestShutdown \/ UNCHANGED vars
           \/ ActiveShutdown \/ ActiveContinue \/ SequencerTicked \/ ValidatorTicked
           \/ MaybeSave \/ SequencerSpins \/ FeederEnds \/ PreparationFails
  BY <1>3 DEF ChainGrows, SendShutdown, RequestShutdown, vars, ActiveShutdown,
        ActiveContinue, SequencerTicked, ValidatorTicked, MaybeSave, SequencerSpins,
        FeederEnds, PreparationFails, FlowInv
<1>4. CASE Resume
  <2>1. next' = 1 /\ l1' = << >> /\ given' = 1
    BY <1>4 DEF Resume, StageInv
  <2>2. Len(l1') = 0
    BY <2>1
  <2>3. Sequences /\ Validates => seqCp' = nodeCp /\ valCp' = nodeCp
    BY <1>4 DEF Resume, ResumeSequencer, ResumeValidator
  <2>4. nodeCp.submitted \in Nat
    BY CheckpointFields DEF TypeOK
  <2>5. Sequences /\ Validates =>
          /\ seqCp'.submitted = Largest(valCp'.submitted, next' - 1)
          /\ \A i \in 1..Len(l1') : l1'[i] + Len(l1') + 1 = next' + i
          /\ valCp'.submitted < next' =>
               valCp'.submitted + given' + Len(l1') = next'
          /\ \A n \in Nat :
               valCp'.submitted < n /\ n + Len(l1') < next' => n \in derived'
    BY <2>1, <2>2, <2>3, <2>4 DEF Largest
  <2> QED BY <2>1, <2>5 DEF FlowInv
<1>5. CASE SequencerSkips
  <2>1. /\ next <= seqCp.submitted /\ next' = next + 1 /\ l1' = l1
        /\ seqCp' = seqCp /\ valCp' = valCp /\ derived' = derived
        /\ Sequences /\ state = "active" /\ state' = "active"
        /\ given' = given /\ renumbers' = renumbers
    BY <1>5 DEF SequencerSkips, BatchReady, ShouldSkipBatch
  <2>2. CASE ~Validates
    BY <2>1, <2>2 DEF FlowInv
  <2>3. CASE Validates
    <3>1. /\ seqCp.submitted = Largest(valCp.submitted, next - 1)
          /\ l1 # << >> => valCp.submitted + Len(l1) < next
          /\ next <= valCp.submitted => given = 1
      BY <2>1, <2>3 DEF FlowInv
    <3>2. next <= valCp.submitted
      BY <1>1, <2>1, <3>1 DEF Largest
    <3>3. l1 = << >> /\ Len(l1) = 0
      BY <1>1, <3>1, <3>2, EmptySeq
    <3>4. seqCp.submitted = Largest(valCp.submitted, next' - 1)
      BY <1>1, <2>1, <3>1, <3>2 DEF Largest
    <3>5. \A n \in Nat : ~(valCp.submitted < n /\ n + Len(l1) < next')
      BY <1>1, <2>1, <3>2, <3>3
    <3>6. valCp.submitted < next' => valCp.submitted + given + Len(l1) = next'
      BY <1>1, <2>1, <3>1, <3>2, <3>3
    <3>7. next' <= valCp.submitted => given = 1
      BY <3>1, <3>2
    <3> QED BY <2>1, <3>3, <3>4, <3>5, <3>6, <3>7 DEF FlowInv
  <2> QED BY <2>2, <2>3
<1>6. CASE SequencerSubmits
  <2>1. /\ ~ShouldSkipBatch(seqCp, next) /\ next' = next + 1 /\ l1' = Append(l1, next)
        /\ seqCp' = RecordBatchSubmitted(seqCp, next)
        /\ valCp' = valCp /\ derived' = derived
        /\ Sequences /\ state = "active" /\ state' = "active"
        /\ given' = given /\ renumbers' = renumbers
    BY <1>6 DEF SequencerSubmits, BatchReady
  <2>2. CASE ~Validates
    BY <2>1, <2>2 DEF FlowInv
  <2>3. CASE Validates
    <3>1. /\ seqCp.submitted = Largest(valCp.submitted, next - 1)
          /\ \A i \in 1..Len(l1) : l1[i] + Len(l1) + 1 = next + i
          /\ l1 # << >> => valCp.submitted + Len(l1) < next
          /\ valCp.submitted < next => valCp.submitted + given + Len(l1) = next
          /\ (renumbers => valCp.submitted = 0) =>
                \A n \in Nat :
                  valCp.submitted < n /\ n + Len(l1) < next => n \in derived
      BY <2>1, <2>3 DEF FlowInv
    <3>2. seqCp.submitted < next /\ valCp.submitted < next
      BY <1>1, <2>1, <3>1 DEF ShouldSkipBatch, Largest
    <3>3. seqCp'.submitted = Largest(seqCp.submitted, next)
      BY <1>1, <2>1, Records
    <3>4. seqCp'.submitted = Largest(valCp.submitted, next' - 1)
      BY <1>1, <2>1, <3>2, <3>3 DEF Largest
    <3>5. /\ Len(l1') = Len(l1) + 1 /\ l1'[Len(l1) + 1] = next
          /\ \A i \in 1..Len(l1) : l1'[i] = l1[i]
      BY <1>1, <2>1, AppendProperties
    <3>6. \A i \in 1..Len(l1') : l1'[i] + Len(l1') + 1 = next' + i
      <4> SUFFICES ASSUME NEW i \in 1..Len(l1')
                   PROVE  l1'[i] + Len(l1') + 1 = next' + i
        OBVIOUS
      <4>1. CASE i = Len(l1) + 1
        BY <1>1, <2>1, <3>5, <4>1
      <4>2. CASE i # Len(l1) + 1
        <5>1. i \in 1..Len(l1) /\ l1'[i] = l1[i] /\ l1[i] + Len(l1) + 1 = next + i
          BY <1>1, <3>1, <3>5, <4>2
        <5>2. l1[i] \in Nat
          BY <1>1, <5>1, ElementOfSeq
        <5> QED BY <1>1, <2>1, <3>5, <5>1, <5>2
      <4> QED BY <4>1, <4>2
    <3>7. valCp.submitted + Len(l1') < next'
      <4>1. l1 = << >> => Len(l1) = 0
        BY EmptySeq
      <4> QED BY <1>1, <2>1, <3>1, <3>2, <3>5, <4>1
    <3>8. \A n \in Nat : n + Len(l1') < next' => n + Len(l1) < next
      BY <1>1, <2>1, <3>5
    <3>9. valCp.submitted + given + Len(l1') = next' /\ ~(next' <= valCp.submitted)
      <4>1. /\ valCp.submitted \in Nat /\ given \in Nat /\ Len(l1) \in Nat
            /\ next \in Nat /\ next' = next + 1 /\ Len(l1') = Len(l1) + 1
        BY <1>1, <2>1, <3>5
      <4>2. valCp.submitted + given + Len(l1) = next
        BY <3>1, <3>2
      <4>3. valCp.submitted + given + Len(l1') = next'
        BY <4>1, <4>2
      <4> QED BY <3>2, <4>1, <4>3
    <3> QED BY <2>1, <2>3, <3>1, <3>4, <3>6, <3>7, <3>8, <3>9 DEF FlowInv
  <2> QED BY <2>2, <2>3
<1>7. CASE ValidatorSkips \/ ValidatorDerives
  <2> DEFINE h == Head(l1)
  <2>1. ValidatorFetches
    BY <1>7 DEF ValidatorSkips, ValidatorDerives
  <2>2. /\ Sequences /\ Validates /\ state = "active" /\ state' = "active"
        /\ h \in Nat \ {0} /\ Len(l1) \in Nat \ {0} /\ Len(l1') = Len(l1) - 1
        /\ h + Len(l1) = next /\ valCp.submitted < h /\ valCp.submitted < next
        /\ valCp.submitted + given = h
        /\ (renumbers => valCp.submitted = 0) => SourceNumber = h
        /\ \A i \in 1..Len(l1') : l1'[i] = l1[i + 1]
    <3>1. state = "active" /\ state' = "active"
      BY <1>7 DEF ValidatorSkips, ValidatorDerives, ValidatorFetches
    <3> QED BY <2>1, <3>1, FetchStep
  <2> HIDE DEF h
  <2>3. /\ next' = next /\ seqCp' = seqCp /\ renumbers' = renumbers
        /\ given' = given + 1
    BY <1>7 DEF ValidatorSkips, ValidatorDerives, ValidatorFetches
  <2>4. valCp'.submitted = valCp.submitted
    <3>1. CASE ValidatorSkips
      BY <3>1 DEF ValidatorSkips
    <3>2. CASE ValidatorDerives
      <4>1. valCp' = RecordBatchDerived(valCp, SourceNumber)
        BY <3>2 DEF ValidatorDerives
      <4>2. SourceNumber \in Nat
        BY <2>1, FetchType
      <4> QED BY <1>1, <4>1, <4>2, Records
    <3> QED BY <1>7, <3>1, <3>2
  <2>5. /\ derived \subseteq derived'
        /\ (renumbers => valCp.submitted = 0) => h \in derived'
    <3>1. CASE ValidatorSkips
      BY <1>1, <2>2, <3>1 DEF ValidatorSkips, AlreadyDerived, CoveredInv, Covered
    <3>2. CASE ValidatorDerives
      BY <3>2 DEF ValidatorDerives, h
    <3> QED BY <1>7, <3>1, <3>2
  <2>6. /\ seqCp.submitted = Largest(valCp.submitted, next - 1)
        /\ \A i \in 1..Len(l1) : l1[i] + Len(l1) + 1 = next + i
        /\ (renumbers => valCp.submitted = 0) =>
              \A n \in Nat :
                valCp.submitted < n /\ n + Len(l1) < next => n \in derived
    BY <2>2 DEF FlowInv
  <2>7. \A i \in 1..Len(l1') : l1'[i] + Len(l1') + 1 = next' + i
    <3> SUFFICES ASSUME NEW i \in 1..Len(l1')
                 PROVE  l1'[i] + Len(l1') + 1 = next' + i
      OBVIOUS
    <3>1. i \in Nat /\ i + 1 \in 1..Len(l1)
      BY <2>2
    <3>2. l1'[i] = l1[i + 1] /\ l1[i + 1] + Len(l1) + 1 = next + (i + 1)
      BY <2>2, <2>6, <3>1
    <3>3. l1[i + 1] \in Nat
      BY <1>1, <3>1, ElementOfSeq
    <3>4. l1[i + 1] + (Len(l1) - 1) + 1 = next + i
      <4>1. \A x, k, m \in Nat : x + k + 1 = m + (i + 1) => x + (k - 1) + 1 = m + i
        BY <3>1
      <4> QED BY <1>1, <3>2, <3>3, <4>1
    <3> QED BY <2>2, <2>3, <3>2, <3>4
  <2>8. valCp.submitted + Len(l1') < next
    BY <1>1, <2>2
  <2>9. ASSUME renumbers => valCp.submitted = 0,
               NEW n \in Nat, valCp.submitted < n, n + Len(l1') < next
        PROVE  n \in derived'
    <3>1. n = h \/ n + Len(l1) < next
      BY <1>1, <2>2, <2>9
    <3> QED BY <2>5, <2>6, <2>9, <3>1
  <2>10. valCp.submitted + given' + Len(l1') = next /\ ~(next <= valCp.submitted)
    <3>1. /\ valCp.submitted \in Nat /\ given \in Nat /\ Len(l1) \in Nat
          /\ next \in Nat /\ given' = given + 1 /\ Len(l1') = Len(l1) - 1
          /\ h \in Nat /\ h + Len(l1) = next /\ valCp.submitted + given = h
      BY <1>1, <2>2, <2>3
    <3>2. valCp.submitted + given' + Len(l1') = next
      BY <3>1
    <3> QED BY <1>1, <2>2, <3>2
  <2> QED BY <2>2, <2>3, <2>4, <2>6, <2>7, <2>8, <2>9, <2>10 DEF FlowInv
<1> QED
  BY <1>2, <1>3, <1>4, <1>5, <1>6, <1>7
     DEF Next, NodeStep, SyncStep, ActiveStep, Environment

-----------------------------------------------------------------------------
(* The theorems.                                                           *)

(* The parts together are inductive.                                       *)
LEMMA NodeInvariant == Spec => []Inv
<1>1. Inv /\ [Next]_vars => Inv'
  <2> SUFFICES ASSUME Inv, [Next]_vars PROVE Inv'
    OBVIOUS
  <2>1. /\ TypeOK /\ SyncInv /\ StageInv /\ CopiesInv /\ KeptInv /\ CoveredInv
        /\ FlowInv
    BY DEF Inv
  <2>2. TypeOK'
    BY <2>1, TypeNext
  <2>3. SyncInv' /\ StageInv' /\ CopiesInv' /\ KeptInv'
    BY <2>1, SyncStepInv, StageStep, CopiesStep, KeptStep
  <2>4. CoveredInv' /\ FlowInv'
    BY <2>1, CoveredStep, FlowStep
  <2> QED BY <2>2, <2>3, <2>4 DEF Inv
<1> QED BY InvInit, <1>1, PTL DEF Spec

(* What the checkpoint file is good for, for any number of crashes and     *)
(* restarts and any roles: it names nothing that was not achieved, one of  *)
(* its two batch numbers is right at any moment, and after a clean stop    *)
(* both are, of all that no completed sync stage and no crash made it      *)
(* forget.                                                                 *)
THEOREM FileIsTruthful == Spec => []FileTruthful
<1>1. Inv => FileTruthful
  BY DEF Inv, FileTruthful, StoppedFileComplete, KeptInv, Running
<1> QED BY NodeInvariant, <1>1, PTL

(* The blocks the file names as synced were fetched without a gap, over    *)
(* any number of crashes, stale saves and refreshed tips, and a clean stop *)
(* keeps what the process fetched.                                         *)
THEOREM SyncedIsFetched == Spec => []SyncedWasFetched
<1>1. Inv => SyncedWasFetched
  BY DEF Inv, SyncInv, SyncedWasFetched
<1> QED BY NodeInvariant, <1>1, PTL

(* process_batch skips only batches that some process derived, over any    *)
(* number of crashes and stale saves, and those to which Anvil's source    *)
(* gives smaller numbers than the sequencer did.                           *)
THEOREM SkippedWasDerived == Spec => SkipsOnlyDerived
<1>1. Inv /\ [Next]_vars => [ValidatorSkips => \/ Head(l1) \in derived
                                               \/ renumbers /\ given < Head(l1)]_vars
  <2> SUFFICES ASSUME Inv, ValidatorSkips
               PROVE  Head(l1) \in derived \/ (renumbers /\ given < Head(l1))
    OBVIOUS
  <2>1. ValidatorFetches /\ AlreadyDerived(SourceNumber)
    BY DEF ValidatorSkips
  <2>2. /\ Head(l1) \in Nat /\ valCp.submitted < Head(l1)
        /\ valCp.submitted + given = Head(l1)
        /\ (renumbers => valCp.submitted = 0) => SourceNumber = Head(l1)
    BY <2>1, FetchStep DEF Inv
  <2>3. Covered(valCp) /\ valCp.submitted \in Nat /\ given \in Nat
    BY CheckpointFields DEF Inv, CoveredInv, TypeOK
  <2>4. CASE renumbers => valCp.submitted = 0
    BY <2>1, <2>2, <2>3, <2>4 DEF AlreadyDerived, Covered
  <2>5. CASE ~(renumbers => valCp.submitted = 0)
    BY <2>2, <2>3, <2>5
  <2> QED BY <2>4, <2>5
<1> QED BY NodeInvariant, <1>1, PTL DEF Spec, SkipsOnlyDerived
=============================================================================
