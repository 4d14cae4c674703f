------------------------ MODULE ChainStoreRefinement ------------------------
(***************************************************************************)
(* The storage of the chain implements the abstract log of module ChainLog *)
(* whatever LMDB calls fail, for every set of blocks and every batch size. *)
(***************************************************************************)
EXTENDS ChainStoreProofs

\* A step of the abstract log, or one it does not see.
LogStep == Log!LogNext \/ (Settled' = Settled /\ db'.committed = db.committed
                           /\ db'.survivors = db.survivors)

\* A step after which no batch is open settles on the committed chain.
LEMMA SettledWithoutBatch ==
  ASSUME m_batchCount' = 0
  PROVE  Settled' = db'.committed
BY DEF Settled

\* Taking the database back to its committed chain, flushed or not, is a FallBack.
LEMMA FallBackStep ==
  ASSUME m_batchCount' = 0, db'.committed = db.committed,
         db'.survivors = db.survivors \/ db'.survivors = {db.committed}
  PROVE  LogStep
<1>1. Settled' = db.committed
  BY SettledWithoutBatch
<1> QED  BY <1>1, Zenon DEF LogStep, Log!LogNext, Log!FallBack

\* init reads the database only.
LEMMA StartStep == IInv /\ Start => LogStep
<1> SUFFICES ASSUME IInv, Start PROVE LogStep
  OBVIOUS
<1>1. db' = db /\ m_batchCount' = m_batchCount
  BY DEF Start
<1> QED  BY <1>1 DEF LogStep, Settled

\* beginBatchIfNeeded flushes when the mode of the batch goes back to durable, and changes
\* nothing else that the log sees.
LEMMA BeginBlockStep == IInv /\ BeginBlock => LogStep
<1> SUFFICES ASSUME IInv, BeginBlock PROVE LogStep
  OBVIOUS
<1>0. m_batchCount' = m_batchCount
  BY DEF BeginBlock
<1>1. CASE m_batchCount > 0 /\ db' = BeginNestedWriteTxn(db)
  <2>1. /\ db'.committed = db.committed /\ db'.survivors = db.survivors /\ db'.outer = db.outer
        /\ db'.depth = 2
    BY <1>1, Facts, BeginNestedIs
  <2>2. Settled = db.outer /\ m_batchCount # 0
    BY <1>1, Facts
  <2>3. Settled' = db.outer
    BY <1>0, <2>1, <2>2 DEF Settled, HasActiveTxn
  <2> QED  BY <2>1, <2>2, <2>3 DEF LogStep
<1>2. CASE m_batchCount = 0 /\ db' = BeginWriteTxn(WithMode(db, IsSyncing(View(db))))
  <2> DEFINE d == WithMode(db, IsSyncing(View(db)))
  <2>1. /\ d \in Environment(Blocks) /\ d.committed = db.committed
        /\ d.survivors = db.survivors \/ d.survivors = {db.committed}
    <3>1. d \in {db, SetFastSyncMode(db, TRUE), SetFastSyncMode(db, FALSE)}
      BY DEF WithMode
    <3>2. CASE d = db
      BY <3>2, Facts
    <3>3. CASE d = SetFastSyncMode(db, TRUE)
      BY <3>3, Facts, SetFastIs
    <3>4. CASE d = SetFastSyncMode(db, FALSE)
      BY <3>4, Facts, SetDurableIs
    <3> QED  BY <3>1, <3>2, <3>3, <3>4
  <2> HIDE DEF d
  <2>2. db' = BeginWriteTxn(d)
    BY <1>2 DEF d
  <2>3. db'.committed = db.committed
        /\ (db'.survivors = db.survivors \/ db'.survivors = {db.committed})
    BY <2>1, <2>2, BeginWriteTxnIs
  <2> QED  BY <1>0, <1>2, <2>3, FallBackStep
<1> QED  BY <1>1, <1>2 DEF BeginBlock

\* Inside pushBlock the block lives in the innermost transaction only.
LEMMA WriteBlockStep == ASSUME NEW b \in Blocks PROVE IInv /\ WriteBlock(b) => LogStep
<1> SUFFICES ASSUME IInv, WriteBlock(b) PROVE LogStep
  OBVIOUS
<1> DEFINE c == Append(View(db), b)
<1>1. pc = "begun" /\ db' = Put(db, c) /\ m_batchCount' = m_batchCount /\ c \in Seq(Blocks)
  BY Facts, ViewType DEF WriteBlock
<1> HIDE DEF c
<1>2. CASE m_batchCount > 0
  <2>1. db.depth = 2
    BY <1>1, <1>2 DEF IInv, TxnCount
  <2>2. /\ db'.committed = db.committed /\ db'.survivors = db.survivors /\ db'.outer = db.outer
        /\ db'.depth = db.depth
    BY <1>1, <2>1, Facts, PutInnerIs
  <2> QED  BY <1>1, <2>2 DEF LogStep, Settled, HasActiveTxn
<1>3. CASE m_batchCount = 0
  <2>1. db.depth = 1
    BY <1>1, <1>3 DEF IInv, TxnCount
  <2>2. db'.committed = db.committed /\ db'.survivors = db.survivors
    BY <1>1, <2>1, Facts, PutOuterIs
  <2> QED  BY <1>1, <1>3, <2>2, FallBackStep
<1> QED  BY <1>2, <1>3, Facts

\* A rejected block leaves the chain as it was.
LEMMA RejectBlockStep == IInv /\ RejectBlock => LogStep
<1> SUFFICES ASSUME IInv, RejectBlock PROVE LogStep
  OBVIOUS
<1>1. pc = "begun" /\ m_batchCount' = m_batchCount
  BY DEF RejectBlock
<1>2. CASE m_batchCount > 0
  <2>1. db.depth = 2
    BY <1>1, <1>2 DEF IInv, TxnCount
  <2>2. db' = AbortNestedWriteTxn(db)
    BY <2>1 DEF RejectBlock, HasNestedTxn
  <2>3. /\ db'.committed = db.committed /\ db'.survivors = db.survivors /\ db'.outer = db.outer
        /\ db'.depth = 1
    BY <2>2, Facts, AbortNestedIs
  <2>4. Settled = db.outer /\ Settled' = db.outer
    BY <1>1, <1>2, <2>1, <2>3 DEF Settled, HasActiveTxn
  <2> QED  BY <2>3, <2>4 DEF LogStep
<1>3. CASE m_batchCount = 0
  <2>1. db.depth = 1
    BY <1>1, <1>3 DEF IInv, TxnCount
  <2>2. db' = AbortTxn(db)
    BY <1>3, <2>1 DEF RejectBlock, HasNestedTxn
  <2>3. db'.committed = db.committed /\ db'.survivors = db.survivors
    BY <2>2, Facts, AbortTxnIs
  <2> QED  BY <1>1, <1>3, <2>3, FallBackStep
<1> QED  BY <1>2, <1>3, Facts

\* A block that passes pushBlock extends the log, and saves it when the batch is committed.
LEMMA CommitBlockStep == IInv /\ IInv' /\ CommitBlock => LogStep
<1> SUFFICES ASSUME IInv, IInv', CommitBlock PROVE LogStep
  OBVIOUS
<1>1. PICK b \in Blocks :
        \/ /\ db' \in Environment(Blocks) /\ db'.depth = 0 /\ m_batchCount' = 0
           /\ db'.committed = Append(Settled, b)
           /\ db'.survivors = IF db.nosync THEN db.survivors \cup {Append(Settled, b)}
                              ELSE {Append(Settled, b)}
           /\ db'.nosync = db.nosync
           /\ pc' \in {"idle", "checkpoint", "leaveFast"}
        \/ /\ db' \in Environment(Blocks) /\ db'.depth = 1
           /\ db'.outer = Append(Settled, b)
           /\ db'.committed = db.committed /\ db'.survivors = db.survivors
           /\ db'.nosync = db.nosync
           /\ m_batchCount' = m_batchCount + 1 /\ m_batchCount + 1 < BatchSize
           /\ pc' = "idle"
  BY CommitBlockIs
<1>2. m_batchCount + 1 # 0 /\ m_batchCount + 1 > 0
  BY Facts
<1>3. CASE m_batchCount' = 0
  <2>1. /\ db'.committed = Append(Settled, b)
        /\ \/ db'.survivors = db.survivors \cup {Append(Settled, b)}
           \/ db'.survivors = {Append(Settled, b)}
    BY <1>1, <1>2, <1>3
  <2>2. Settled' = db'.committed
    BY <1>3, SettledWithoutBatch
  <2>3. Log!ExtendAndSave
    BY <2>1, <2>2, Zenon DEF Log!ExtendAndSave, Log!DurableAfter
  <2> QED  BY <2>3 DEF LogStep, Log!LogNext
<1>4. CASE m_batchCount' # 0
  <2>1. /\ db'.depth = 1 /\ db'.outer = Append(Settled, b) /\ m_batchCount' = m_batchCount + 1
        /\ db'.committed = db.committed /\ db'.survivors = db.survivors
    BY <1>1, <1>4
  <2>2. Settled' = Append(Settled, b)
    BY <1>4, <2>1 DEF Settled, HasActiveTxn
  <2>3. Len(Settled') - Len(db.committed) < BatchSize
    <3>1. Len(Settled') = Len(db'.committed) + m_batchCount'
      BY DEF IInv, BatchIsTheLoss
    <3>2. Len(db.committed) \in Nat
      BY Facts
    <3>3. m_batchCount' < BatchSize /\ m_batchCount' \in Nat /\ BatchSize \in Nat
      BY ConstantsAssumption DEF IInv, StateTypes
    <3>4. Len(Settled') = Len(db.committed) + m_batchCount'
      BY <2>1, <3>1
    <3> HIDE DEF IInv
    <3> QED  BY <3>2, <3>3, <3>4
  <2>4. Log!Extend
    BY <2>1, <2>2, <2>3, Zenon DEF Log!Extend
  <2> QED  BY <2>4 DEF LogStep, Log!LogNext
<1> QED  BY <1>3, <1>4

\* The aborts of the catch blocks and the failed flush fall back to the last commit.
LEMMA AbortStep == IInv /\ (AbortBatch \/ FlushFails \/ ResetFails) => LogStep
<1> SUFFICES ASSUME IInv, AbortBatch \/ FlushFails \/ ResetFails PROVE LogStep
  OBVIOUS
<1> DEFINE d == AbortTxn(db)
<1>1. /\ d \in Environment(Blocks) /\ d.committed = db.committed /\ d.survivors = db.survivors
      /\ d.depth = 0 /\ d.nosync = db.nosync /\ d.committed \in d.survivors
  BY Facts, AbortTxnIs
<1>2. m_batchCount' = 0 /\ (LeaveFastThen(d, "idle") \/ db' = SetFastSyncModeUnflushed(d))
  BY DEF AbortBatch, FlushFails, ResetFails
<1> HIDE DEF d
<1>3. db'.committed = db.committed
      /\ (db'.survivors = db.survivors \/ db'.survivors = {db.committed})
  <2>1. CASE LeaveFastThen(d, "idle")
    BY <1>1, <2>1, LeaveFastIs
  <2>2. CASE db' = SetFastSyncModeUnflushed(d)
    BY <1>1, <2>2, UnflushedIs
  <2> QED  BY <1>2, <2>1, <2>2
<1> QED  BY <1>2, <1>3, FallBackStep

\* The flushes after a commit: what is committed is on the disk.
LEMMA FlushSteps == IInv /\ (LeaveFastMode \/ CheckpointFlush) => LogStep
<1> SUFFICES ASSUME IInv, LeaveFastMode \/ CheckpointFlush PROVE LogStep
  OBVIOUS
<1>1. /\ db' \in {SetFastSyncMode(db, FALSE), SyncToDisk(db)}
      /\ m_batchCount' = m_batchCount /\ pc \in {"leaveFast", "checkpoint"}
  BY DEF LeaveFastMode, CheckpointFlush
<1>2. m_batchCount' = 0
  BY <1>1 DEF IInv, TxnCount
<1>3. db'.committed = db.committed /\ db'.survivors = {db.committed}
  <2>1. CASE db' = SetFastSyncMode(db, FALSE)
    BY <2>1, Facts, SetDurableIs
  <2>2. CASE db' = SyncToDisk(db)
    BY <2>2, Facts, SyncToDiskIs
  <2> QED  BY <1>1, <2>1, <2>2
<1> QED  BY <1>2, <1>3, FallBackStep

\* flushBatch saves the settled chain.
LEMMA FlushBatchStep == IInv /\ FlushBatch => LogStep
<1> SUFFICES ASSUME IInv, FlushBatch PROVE LogStep
  OBVIOUS
<1> DEFINE d == CommitTxn(db)
<1>1. /\ d \in Environment(Blocks) /\ d.depth = 0 /\ d.committed = db.outer
      /\ d.survivors = (IF db.nosync THEN db.survivors \cup {db.outer} ELSE {db.outer})
      /\ d.nosync = db.nosync
  BY Facts, CommitTxnIs
<1>2. LeaveFastThen(d, "idle") /\ m_batchCount' = 0 /\ Settled = db.outer
  BY Facts DEF FlushBatch
<1> HIDE DEF d
<1>3. /\ db'.committed = d.committed
      /\ db'.survivors = d.survivors \/ db'.survivors = {d.committed}
  BY <1>1, <1>2, LeaveFastIs
<1>4. /\ db'.committed = Settled
      /\ db'.survivors = db.survivors \cup {Settled} \/ db'.survivors = {Settled}
  BY <1>1, <1>2, <1>3
<1>5. Settled' = db'.committed
  BY <1>2, SettledWithoutBatch
<1>6. Log!Save
  BY <1>4, <1>5, Zenon DEF Log!Save, Log!DurableAfter
<1> QED  BY <1>6 DEF LogStep, Log!LogNext

\* removeLastBlock drops a committed block; inside a leaked transaction nothing is seen.
LEMMA PopStep == IInv /\ (RemoveLastBlock \/ RemoveLastBlockFails) => LogStep
<1> SUFFICES ASSUME IInv, RemoveLastBlock \/ RemoveLastBlockFails PROVE LogStep
  OBVIOUS
<1>1. m_batchCount = 0 /\ m_batchCount' = 0 /\ pc = "idle" /\ Len(View(db)) > 1
  BY DEF RemoveLastBlock, RemoveLastBlockFails
<1>2. db.depth \in {0, 1} /\ db.depth # 2
  BY <1>1, Facts DEF IInv, TxnCount
<1> DEFINE c == DropTip(View(db))
<1>3. c \in Seq(Blocks)
  BY Facts, ViewType, DropTipType
<1> HIDE DEF c
<1>4. CASE db' = db \/ db' = BeginWriteTxn(db) \/ (HasActiveTxn(db) /\ db' = Put(db, c))
  <2>1. db'.committed = db.committed /\ db'.survivors = db.survivors
    <3>1. CASE db' = db
      BY <3>1
    <3>2. CASE db' = BeginWriteTxn(db)
      BY <3>2, Facts, BeginWriteTxnIs
    <3>3. CASE db' = Put(db, c)
      BY <1>2, <1>3, <3>3, Facts, PutOuterIs
    <3> QED  BY <1>4, <3>1, <3>2, <3>3
  <2> QED  BY <1>1, <2>1, FallBackStep
<1>5. CASE ~HasActiveTxn(db) /\ db' = CommitTxn(Put(BeginWriteTxn(db), c))
  <2> DEFINE d == BeginWriteTxn(db)
             e == Put(d, c)
  <2>1. d \in Environment(Blocks) /\ d.depth # 2 /\ d.survivors = db.survivors
    BY Facts, BeginWriteTxnIs
  <2> HIDE DEF d
  <2>2. e \in Environment(Blocks) /\ e.outer = c /\ e.survivors = db.survivors
    BY <1>3, <2>1, PutOuterIs
  <2>3. db' = CommitTxn(e)
    BY <1>5 DEF d
  <2> HIDE DEF e
  <2>4. /\ db'.committed = c
        /\ db'.survivors = db.survivors \cup {c} \/ db'.survivors = {c}
    BY <2>2, <2>3, CommitTxnIs
  <2>5. View(db) = db.committed /\ Settled = db.committed
    BY <1>1, <1>2, <1>5, Facts DEF View, HasActiveTxn
  <2>6. Settled' = db'.committed
    BY <1>1, SettledWithoutBatch
  <2>7. Settled # <<>>
    BY <1>1, <2>5
  <2>8. Log!Retract
    BY <2>4, <2>5, <2>6, <2>7, Zenon
       DEF Log!Retract, Log!DurableAfter, Log!DropTip, DropTip, c
  <2> QED  BY <2>8 DEF LogStep, Log!LogNext
<1> QED  BY <1>4, <1>5 DEF RemoveLastBlock, RemoveLastBlockFails, c

\* resetAndSetGenesisBlock drops everything, open batch included.
LEMMA ResetStep == IInv /\ ResetAndSetGenesisBlock => LogStep
<1> SUFFICES ASSUME IInv, ResetAndSetGenesisBlock PROVE LogStep
  OBVIOUS
<1> DEFINE none == <<>>
           a == AbortTxn(db)
           d == IF HasActiveTxn(db) /\ m_batchFastMode THEN SetFastSyncMode(a, FALSE) ELSE a
           e == BeginWriteTxn(d)
           f == Put(e, none)
<1>1. db' = CommitTxn(f) /\ m_batchCount' = 0
  BY DEF ResetAndSetGenesisBlock
<1>2. a \in Environment(Blocks) /\ a.survivors = db.survivors /\ a.nosync = db.nosync
  BY Facts, AbortTxnIs
<1>3. /\ d \in Environment(Blocks)
      /\ d.survivors = db.survivors \/ ~d.nosync
  <2> HIDE DEF a
  <2>1. CASE HasActiveTxn(db) /\ m_batchFastMode
    BY <1>2, <2>1, SetDurableIs
  <2>2. CASE ~(HasActiveTxn(db) /\ m_batchFastMode)
    BY <1>2, <2>2
  <2> QED  BY <2>1, <2>2
<1> HIDE DEF d
<1>4. /\ e \in Environment(Blocks) /\ e.depth # 2 /\ e.nosync = d.nosync
      /\ e.survivors = d.survivors
  BY <1>3, BeginWriteTxnIs
<1>5. none \in Seq(Blocks)
  BY EmptyChain
<1> HIDE DEF e, none
<1>6. /\ f \in Environment(Blocks) /\ f.outer = none /\ f.nosync = d.nosync
      /\ f.survivors = d.survivors
  BY <1>4, <1>5, PutOuterIs
<1> HIDE DEF f
<1>7. /\ db'.committed = none
      /\ db'.survivors = db.survivors \cup {none} \/ db'.survivors = {none}
  BY <1>1, <1>3, <1>6, CommitTxnIs
<1>8. Settled' = db'.committed
  BY <1>1, SettledWithoutBatch
<1>9. Log!Reset
  BY <1>7, <1>8, Zenon DEF Log!Reset, Log!DurableAfter, none
<1> QED  BY <1>9 DEF LogStep, Log!LogNext

\* deinit and a crash of the process fall back to the last commit, a crash of the system to
\* one the disk may hold.
LEMMA DownStep == IInv /\ (Deinit \/ Crash \/ PowerLoss) => LogStep
<1> SUFFICES ASSUME IInv, Deinit \/ Crash \/ PowerLoss PROVE LogStep
  OBVIOUS
<1>1. m_batchCount' = 0
  BY DEF Deinit, Crash, PowerLoss, Gone
<1>2. CASE Deinit \/ Crash
  <2>1. db' = ProcessCrash(db)
    BY <1>2 DEF Deinit, Crash
  <2>2. db'.committed = db.committed /\ db'.survivors = db.survivors
    BY <2>1, Facts, ProcessCrashIs
  <2> QED  BY <1>1, <2>2, FallBackStep
<1>3. CASE PowerLoss
  <2>1. PICK c \in db.survivors \cup {<<>>} : db' = SystemCrash(db, c)
    BY <1>3 DEF PowerLoss
  <2>2. c \in Seq(Blocks)
    BY Facts, EmptyChain
  <2>3. db'.committed = c /\ db'.survivors = {c}
    BY <2>1, <2>2, Facts, SystemCrashIs
  <2>4. Settled' = db'.committed
    BY <1>1, SettledWithoutBatch
  <2>5. Log!PowerCut
    BY <2>3, <2>4, Zenon DEF Log!PowerCut
  <2> QED  BY <2>5 DEF LogStep, Log!LogNext
<1> QED  BY <1>2, <1>3

\* The steps that touch neither the database nor the batch.
LEMMA OtherSteps ==
  IInv /\ (BeginBlockAsserts \/ Caught \/ Tick \/ UNCHANGED vars) => LogStep
<1> SUFFICES ASSUME IInv, BeginBlockAsserts \/ Caught \/ Tick \/ UNCHANGED vars PROVE LogStep
  OBVIOUS
<1>1. db' = db /\ m_batchCount' = m_batchCount
  BY DEF BeginBlockAsserts, Caught, Tick, vars
<1> QED  BY <1>1 DEF LogStep, Settled

LEMMA NextLogStep == IInv /\ IInv' /\ [Next]_vars => LogStep
BY StartStep, BeginBlockStep, WriteBlockStep, RejectBlockStep, CommitBlockStep, FlushSteps,
   AbortStep, FlushBatchStep, PopStep, ResetStep, DownStep, OtherSteps
   DEF Next, PushFails, SyncFails

\* The storage implements the abstract log: in every behaviour, whatever LMDB calls fail and
\* whenever the process or the system crashes, the chain that users of class Blockchain see
\* only grows by one block, loses its last committed block, is reset, or falls back to the
\* last commit, which is fewer than BATCH_SIZE blocks behind.
THEOREM StoreImplementsLog == Spec => ImplementsLog
<1>1. Init => Log!LogInit
  BY DEF Init, EmptyEnv, Log!LogInit, Settled
<1>2. IInv /\ IInv' /\ [Next]_vars => [Log!LogNext]_(Log!logVars)
  BY NextLogStep DEF LogStep, Log!logVars
<1> QED  BY <1>1, <1>2, StoreInvariant, PTL DEF Spec, ImplementsLog, Log!LogSpec
=============================================================================
