------------------------ MODULE ChainStoreGuarantees ------------------------
(***************************************************************************)
(* What ChainStore guarantees until removeLastBlock fails half way: the    *)
(* transaction assertions hold; and, until in addition the commit of       *)
(* flushBatch fails, m_blobs follows the chain.  Both rest on the          *)
(* invariant of ChainStoreProofs.                                          *)
(***************************************************************************)
EXTENDS ChainStoreProofs

\* A step that ends with no transaction and no batch keeps the discipline.
LEMMA Quiet ==
  ASSUME db' \in Environment(Blocks), db'.depth = 0, m_batchCount' = 0,
         pc' \notin {"stuck", "begun", "written"}
  PROVE  TxnsBalanced' /\ View(db)' = db'.committed
BY DEF TxnsBalanced, HasActiveTxn, View

\* Between operations without a batch, no transaction is open and the chain is the
\* committed one.
LEMMA QuietFacts ==
  ASSUME IInv, TxnsBalanced, m_batchCount = 0,
         pc \in {"idle", "genesis", "thrown", "leaveFast", "checkpoint", "down"}
  PROVE  db.depth = 0 /\ View(db) = db.committed
BY Facts DEF TxnsBalanced, HasActiveTxn, View

\* Cutting a chain to the length of the one it starts with gives that one.
LEMMA CutToPrefix ==
  ASSUME NEW s \in Seq(Blocks), NEW base \in Seq(Blocks), StartsWith(s, base)
  PROVE  CutTo(s, Len(base)) = base
<1>1. Len(base) <= Len(s) /\ SubSeq(s, 1, Len(base)) = base
  BY DEF StartsWith
<1>2. CASE Len(s) > Len(base)
  BY <1>1, <1>2 DEF CutTo
<1>3. CASE Len(s) = Len(base)
  BY <1>1, <1>3 DEF CutTo
<1> QED  BY <1>1, <1>2, <1>3

\* Whatever step an operation is at, what it sees starts with the committed chain.
LEMMA ViewStartsWithCommitted ==
  ASSUME IInv, TxnsBalanced, pc # "down"
  PROVE  StartsWith(View(db), db.committed)
<1>1. StartsWith(Settled, db.committed)
  BY DEF IInv, BatchIsTheLoss
<1>2. CASE pc = "begun"
  BY <1>1, <1>2 DEF IInv, TxnContents
<1>3. CASE pc = "written"
  <2>1. PICK b \in Blocks : View(db) = Append(Settled, b)
    BY <1>3 DEF IInv, TxnContents
  <2> QED  BY <1>1, <2>1, Facts, PrefixOfAppend
<1>4. CASE pc \in {"idle", "genesis", "thrown", "leaveFast", "checkpoint"}
  <2>1. CASE m_batchCount = 0
    BY <1>4, <2>1, QuietFacts, Facts, PrefixReflexive
  <2>2. CASE m_batchCount > 0
    <3>1. db.depth = 1
      BY <1>4, <2>2, Facts DEF IInv, TxnCount
    <3>2. View(db) = db.outer /\ Settled = db.outer
      BY <2>2, <3>1, Facts DEF View
    <3> QED  BY <1>1, <3>2
  <2> QED  BY <2>1, <2>2, Facts
<1> QED  BY <1>2, <1>3, <1>4, Facts DEF Steps, TxnsBalanced

---------------------------------------------------------------------------
(* One lemma per group of actions *)

LEMMA StartKeeps ==
  IInv /\ TxnsBalanced /\ Start => TxnsBalanced' /\ BlobsFollow'
<1> SUFFICES ASSUME IInv, TxnsBalanced, Start PROVE TxnsBalanced' /\ BlobsFollow'
  OBVIOUS
<1>1. /\ db' = db /\ m_batchCount' = m_batchCount /\ m_blobs' = db.committed /\ pc = "down"
      /\ pc' \in {"genesis", "idle"}
  BY DEF Start
<1>2. db.depth = 0 /\ m_batchCount = 0
  BY <1>1 DEF IInv, TxnCount
<1> QED  BY <1>1, <1>2, Facts, Quiet DEF BlobsFollow

LEMMA BeginBlockKeeps ==
  IInv /\ TxnsBalanced /\ (BeginBlock \/ BeginBlockAsserts)
    => TxnsBalanced' /\ View(db)' = View(db) /\ m_blobs' = m_blobs /\ pc # "down"
<1> SUFFICES ASSUME IInv, TxnsBalanced, BeginBlock \/ BeginBlockAsserts
             PROVE  TxnsBalanced' /\ View(db)' = View(db) /\ m_blobs' = m_blobs /\ pc # "down"
  OBVIOUS
<1>1. pc \in {"idle", "genesis"} /\ m_batchCount' = m_batchCount /\ m_blobs' = m_blobs
  BY DEF BeginBlock, BeginBlockAsserts
<1>2. CASE m_batchCount = 0
  <2>1. db.depth = 0 /\ View(db) = db.committed
    BY <1>1, <1>2, QuietFacts
  <2>2. pc' = "begun" /\ db' = BeginWriteTxn(WithMode(db, IsSyncing(View(db))))
    BY <1>2, <2>1 DEF BeginBlock, BeginBlockAsserts, MayBeginWriteTxn
  <2> DEFINE d == WithMode(db, IsSyncing(View(db)))
  <2>3. d \in Environment(Blocks) /\ d.committed = db.committed
    <3>1. d \in {db, SetFastSyncMode(db, TRUE), SetFastSyncMode(db, FALSE)}
      BY DEF WithMode
    <3>2. CASE d = db
      BY <3>2, Facts
    <3>3. CASE d = SetFastSyncMode(db, TRUE)
      BY <3>3, Facts, SetFastIs
    <3>4. CASE d = SetFastSyncMode(db, FALSE)
      BY <3>4, Facts, SetDurableIs
    <3> QED  BY <3>1, <3>2, <3>3, <3>4
  <2>4. db' = BeginWriteTxn(d)
    BY <2>2
  <2> HIDE DEF d
  <2>5. db'.depth = 1 /\ db'.outer = db.committed
    BY <2>3, <2>4, BeginWriteTxnIs
  <2> QED  BY <1>1, <1>2, <2>1, <2>2, <2>5 DEF TxnsBalanced, View
<1>3. CASE m_batchCount > 0
  <2>1. pc' = "begun" /\ db' = BeginNestedWriteTxn(db)
    BY <1>3, Facts DEF BeginBlock, BeginBlockAsserts
  <2>2. db'.depth = 2 /\ db'.inner = db.outer
    BY <2>1, Facts, BeginNestedIs
  <2>3. db.depth = 1
    BY <1>1, <1>3, Facts DEF IInv, TxnCount
  <2> QED  BY <1>1, <1>3, <2>1, <2>2, <2>3 DEF TxnsBalanced, View
<1> QED  BY <1>2, <1>3, Facts

LEMMA WriteBlockKeeps ==
  ASSUME NEW b \in Blocks
  PROVE  IInv /\ TxnsBalanced /\ WriteBlock(b)
           => /\ TxnsBalanced'
              /\ View(db)' = Append(View(db), b) /\ m_blobs' = Append(m_blobs, b) /\ pc # "down"
<1> SUFFICES ASSUME IInv, TxnsBalanced, WriteBlock(b)
             PROVE  /\ TxnsBalanced' /\ View(db)' = Append(View(db), b)
                    /\ m_blobs' = Append(m_blobs, b) /\ pc # "down"
  OBVIOUS
<1> DEFINE c == Append(View(db), b)
<1>1. /\ pc = "begun" /\ pc' = "written" /\ db' = Put(db, c) /\ m_batchCount' = m_batchCount
      /\ c \in Seq(Blocks) /\ m_blobs' = Append(m_blobs, b)
  BY Facts, ViewType DEF WriteBlock
<1> HIDE DEF c
<1>2. db.depth = IF m_batchCount > 0 THEN 2 ELSE 1
  BY <1>1 DEF IInv, TxnCount
<1>3. db'.depth = db.depth /\ View(db)' = c
  <2>1. CASE db.depth = 2
    BY <1>1, <2>1, Facts, PutInnerIs DEF View
  <2>2. CASE db.depth = 1
    BY <1>1, <2>2, Facts, PutOuterIs DEF View
  <2> QED  BY <1>2, <2>1, <2>2
<1> QED  BY <1>1, <1>2, <1>3 DEF TxnsBalanced, c

LEMMA RejectBlockKeeps ==
  IInv /\ TxnsBalanced /\ RejectBlock
    => TxnsBalanced' /\ (BlobsFollow => BlobsFollow')
<1> SUFFICES ASSUME IInv, TxnsBalanced, RejectBlock
             PROVE  TxnsBalanced' /\ (BlobsFollow => BlobsFollow')
  OBVIOUS
<1>1. /\ pc = "begun" /\ pc' = "idle" /\ m_batchCount' = m_batchCount
      /\ m_blobs' = CutTo(m_blobs, Len(View(db)'))
  BY DEF RejectBlock, TrimBlobs, View
<1>2. View(db) = Settled /\ Settled \in Seq(Blocks)
  BY <1>1, Facts DEF IInv, TxnContents
<1>3. TxnsBalanced' /\ View(db)' = Settled
  <2>1. CASE m_batchCount > 0
    <3>1. db.depth = 2
      BY <1>1, <2>1 DEF IInv, TxnCount
    <3>2. db' = AbortNestedWriteTxn(db)
      BY <3>1 DEF RejectBlock, HasNestedTxn
    <3>3. db'.depth = 1 /\ db'.outer = db.outer
      BY <3>2, Facts, AbortNestedIs
    <3>4. Settled = db.outer
      BY <2>1, Facts
    <3> QED  BY <1>1, <2>1, <3>3, <3>4 DEF TxnsBalanced, View, HasActiveTxn
  <2>2. CASE m_batchCount = 0
    <3>1. db.depth = 1
      BY <1>1, <2>2 DEF IInv, TxnCount
    <3>2. db' = AbortTxn(db)
      BY <2>2, <3>1 DEF RejectBlock, HasNestedTxn
    <3>3. db' \in Environment(Blocks) /\ db'.depth = 0 /\ db'.committed = db.committed
      BY <3>2, Facts, AbortTxnIs
    <3>4. Settled = db.committed
      BY <2>2, Facts
    <3> QED  BY <1>1, <2>2, <3>3, <3>4, Quiet
  <2> QED  BY <2>1, <2>2, Facts
<1>4. BlobsFollow => BlobsFollow'
  <2>1. BlobsFollow => m_blobs = Settled
    BY <1>1, <1>2 DEF BlobsFollow
  <2>2. CutTo(Settled, Len(Settled)) = Settled
    BY <1>2, PrefixReflexive, CutToPrefix
  <2> QED  BY <1>1, <1>3, <2>1, <2>2 DEF BlobsFollow
<1> QED  BY <1>3, <1>4

LEMMA CommitBlockKeeps ==
  IInv /\ TxnsBalanced /\ CommitBlock
    => TxnsBalanced' /\ View(db)' = View(db) /\ m_blobs' = m_blobs /\ pc # "down"
<1> SUFFICES ASSUME IInv, TxnsBalanced, CommitBlock
             PROVE  TxnsBalanced' /\ View(db)' = View(db) /\ m_blobs' = m_blobs /\ pc # "down"
  OBVIOUS
<1> DEFINE d == IF HasNestedTxn(db) THEN CommitNestedWriteTxn(db) ELSE db
<1>1. pc = "written" /\ m_blobs' = m_blobs
  BY DEF CommitBlock
<1>2. db.depth = IF m_batchCount > 0 THEN 2 ELSE 1
  BY <1>1 DEF IInv, TxnCount
<1>3. d \in Environment(Blocks) /\ d.depth = 1 /\ d.outer = View(db)
  <2>1. CASE db.depth = 2
    <3>1. d = CommitNestedWriteTxn(db) /\ View(db) = db.inner
      BY <2>1 DEF HasNestedTxn, View
    <3> QED  BY <3>1, Facts, CommitNestedIs
  <2>2. CASE db.depth = 1
    BY <2>2, Facts DEF HasNestedTxn, View
  <2> QED  BY <1>2, <2>1, <2>2
<1>4. \/ /\ db' = CommitTxn(d) /\ m_batchCount' = 0
         /\ pc' \in {"idle", "checkpoint", "leaveFast"}
      \/ db' = d /\ m_batchCount' = m_batchCount + 1 /\ pc' = "idle"
  BY DEF CommitBlock
<1> HIDE DEF d
<1>5. CASE db' = CommitTxn(d) /\ m_batchCount' = 0 /\ pc' \in {"idle", "checkpoint", "leaveFast"}
  <2>1. db' \in Environment(Blocks) /\ db'.depth = 0 /\ db'.committed = View(db)
    BY <1>3, <1>5, CommitTxnIs
  <2> QED  BY <1>1, <1>5, <2>1, Quiet
<1>6. CASE db' = d /\ m_batchCount' = m_batchCount + 1 /\ pc' = "idle"
  <2>1. m_batchCount' > 0
    BY <1>6, Facts
  <2>2. View(db)' = View(db) /\ db'.depth = 1
    BY <1>3, <1>6 DEF View
  <2> QED  BY <1>1, <1>6, <2>1, <2>2 DEF TxnsBalanced, HasActiveTxn
<1> QED  BY <1>4, <1>5, <1>6

\* The catch blocks of pushBlock: m_blobs is cut back to the committed chain.
LEMMA AbortBatchKeeps ==
  IInv /\ TxnsBalanced /\ pc # "down" /\ AbortBatch
    => TxnsBalanced' /\ (BlobsFollow => BlobsFollow')
<1> SUFFICES ASSUME IInv, TxnsBalanced, pc # "down", AbortBatch
             PROVE  TxnsBalanced' /\ (BlobsFollow => BlobsFollow')
  OBVIOUS
<1> DEFINE d == AbortTxn(db)
<1>1. /\ d \in Environment(Blocks) /\ d.depth = 0 /\ d.committed \in d.survivors
      /\ d.nosync = db.nosync /\ d.committed = db.committed
  BY Facts, AbortTxnIs
<1>2. /\ LeaveFastThen(d, "idle")
      /\ m_batchCount' = 0 /\ m_blobs' = CutTo(m_blobs, Len(db.committed))
  BY DEF AbortBatch, TrimBlobs
<1> HIDE DEF d
<1>3. db' \in Environment(Blocks) /\ db'.depth = 0 /\ db'.committed = db.committed
      /\ pc' \in {"idle", "thrown"}
  BY <1>1, <1>2, LeaveFastIs
<1>4. TxnsBalanced' /\ View(db)' = db.committed
  BY <1>2, <1>3, Quiet
<1>5. CutTo(View(db), Len(db.committed)) = db.committed
  BY ViewStartsWithCommitted, Facts, ViewType, CutToPrefix
<1> QED  BY <1>2, <1>4, <1>5 DEF BlobsFollow

LEMMA FlushKeeps ==
  IInv /\ TxnsBalanced /\ (LeaveFastMode \/ CheckpointFlush \/ FlushBatch)
    => TxnsBalanced' /\ View(db)' = View(db) /\ m_blobs' = m_blobs /\ pc # "down"
<1> SUFFICES ASSUME IInv, TxnsBalanced, LeaveFastMode \/ CheckpointFlush \/ FlushBatch
             PROVE  TxnsBalanced' /\ View(db)' = View(db) /\ m_blobs' = m_blobs /\ pc # "down"
  OBVIOUS
<1>1. pc \in {"leaveFast", "checkpoint", "idle"} /\ m_blobs' = m_blobs
  BY DEF LeaveFastMode, CheckpointFlush, FlushBatch
<1>2. CASE LeaveFastMode \/ CheckpointFlush
  <2>1. /\ db' \in {SetFastSyncMode(db, FALSE), SyncToDisk(db)} /\ pc' = "idle"
        /\ pc \in {"leaveFast", "checkpoint"} /\ m_batchCount' = m_batchCount
    BY <1>2 DEF LeaveFastMode, CheckpointFlush
  <2>2. db.depth = 0 /\ m_batchCount = 0 /\ View(db) = db.committed
    BY <2>1 DEF IInv, TxnCount, View
  <2>3. db' \in Environment(Blocks) /\ db'.depth = 0 /\ db'.committed = db.committed
    <3>1. CASE db' = SetFastSyncMode(db, FALSE)
      BY <2>2, <3>1, Facts, SetDurableIs
    <3>2. CASE db' = SyncToDisk(db)
      BY <2>2, <3>2, Facts, SyncToDiskIs
    <3> QED  BY <2>1, <3>1, <3>2
  <2> QED  BY <1>1, <2>1, <2>2, <2>3, Quiet
<1>3. CASE FlushBatch
  <2> DEFINE d == CommitTxn(db)
  <2>1. /\ d \in Environment(Blocks) /\ d.depth = 0 /\ d.committed \in d.survivors
        /\ d.nosync = db.nosync /\ d.committed = db.outer
    BY Facts, CommitTxnIs
  <2>2. LeaveFastThen(d, "idle") /\ m_batchCount' = 0 /\ m_batchCount > 0 /\ pc = "idle"
    BY <1>3 DEF FlushBatch
  <2> HIDE DEF d
  <2>3. db' \in Environment(Blocks) /\ db'.depth = 0 /\ db'.committed = db.outer
        /\ pc' \in {"idle", "thrown"}
    BY <2>1, <2>2, LeaveFastIs
  <2>4. View(db) = db.outer
    BY <2>2, Facts DEF IInv, TxnCount, View
  <2> QED  BY <1>1, <2>2, <2>3, <2>4, Quiet
<1> QED  BY <1>2, <1>3

LEMMA FlushFailsKeeps ==
  IInv /\ TxnsBalanced /\ (FlushFails \/ ResetFails) => TxnsBalanced'
<1> SUFFICES ASSUME IInv, TxnsBalanced, FlushFails \/ ResetFails PROVE TxnsBalanced'
  OBVIOUS
<1> DEFINE d == AbortTxn(db)
<1>1. /\ d \in Environment(Blocks) /\ d.depth = 0 /\ d.committed \in d.survivors
      /\ d.nosync = db.nosync
  BY Facts, AbortTxnIs
<1>2. /\ m_batchCount' = 0
      /\ LeaveFastThen(d, "idle") \/ (db' = SetFastSyncModeUnflushed(d) /\ pc' = "thrown")
  BY DEF FlushFails, ResetFails
<1> HIDE DEF d
<1>3. db' \in Environment(Blocks) /\ db'.depth = 0 /\ pc' \in {"idle", "thrown"}
  <2>1. CASE LeaveFastThen(d, "idle")
    BY <1>1, <2>1, LeaveFastIs
  <2>2. CASE db' = SetFastSyncModeUnflushed(d) /\ pc' = "thrown"
    BY <1>1, <2>2, UnflushedIs
  <2> QED  BY <1>2, <2>1, <2>2
<1> QED  BY <1>2, <1>3, Quiet

\* A pop commits a transaction of its own, or fails and leaves none when only the commit can.
LEMMA PopKeeps ==
  ASSUME "popWrite" \notin failed'
  PROVE  IInv /\ TxnsBalanced /\ (RemoveLastBlock \/ RemoveLastBlockFails)
           => TxnsBalanced' /\ (BlobsFollow => BlobsFollow')
<1> SUFFICES ASSUME IInv, TxnsBalanced, RemoveLastBlock \/ RemoveLastBlockFails
             PROVE  TxnsBalanced' /\ (BlobsFollow => BlobsFollow')
  OBVIOUS
<1>1. m_batchCount = 0 /\ m_batchCount' = 0 /\ pc = "idle" /\ Len(View(db)) > 1
  BY DEF RemoveLastBlock, RemoveLastBlockFails
<1>2. db.depth = 0 /\ View(db) = db.committed /\ ~HasActiveTxn(db)
  BY <1>1, QuietFacts DEF HasActiveTxn
<1>3. CASE RemoveLastBlockFails
  <2>1. db' = db /\ m_blobs' = m_blobs /\ pc' = "thrown"
    BY <1>2, <1>3 DEF RemoveLastBlockFails
  <2> QED  BY <1>1, <1>2, <2>1, Facts, Quiet DEF BlobsFollow
<1>4. CASE RemoveLastBlock
  <2> DEFINE c == DropTip(View(db))
             d == BeginWriteTxn(db)
             e == Put(d, c)
  <2>1. db' = CommitTxn(e) /\ pc' = "idle" /\ m_blobs' = PopBlob
    BY <1>1, <1>2, <1>4 DEF RemoveLastBlock
  <2>2. c \in Seq(Blocks)
    BY Facts, ViewType, DropTipType
  <2>3. d \in Environment(Blocks) /\ d.depth # 2
    BY Facts, BeginWriteTxnIs
  <2> HIDE DEF c, d
  <2>4. e \in Environment(Blocks) /\ e.outer = c
    BY <2>2, <2>3, PutOuterIs
  <2> HIDE DEF e
  <2>5. db' \in Environment(Blocks) /\ db'.depth = 0 /\ db'.committed = c
    BY <2>1, <2>4, CommitTxnIs
  <2>6. TxnsBalanced' /\ View(db)' = c
    BY <1>1, <2>1, <2>5, Quiet
  <2>7. ASSUME BlobsFollow PROVE m_blobs' = c
    <3>1. m_blobs = View(db)
      BY <1>1, <2>7 DEF BlobsFollow
    <3>2. m_blobs # <<>>
      BY <1>1, <3>1
    <3> QED  BY <2>1, <3>1, <3>2 DEF PopBlob, c
  <2> QED  BY <2>6, <2>7 DEF BlobsFollow
<1> QED  BY <1>3, <1>4

LEMMA ResetKeeps ==
  IInv /\ ResetAndSetGenesisBlock => TxnsBalanced' /\ BlobsFollow'
<1> SUFFICES ASSUME IInv, ResetAndSetGenesisBlock
             PROVE  TxnsBalanced' /\ BlobsFollow'
  OBVIOUS
<1> DEFINE none == <<>>
           a == AbortTxn(db)
           d == IF HasActiveTxn(db) /\ m_batchFastMode THEN SetFastSyncMode(a, FALSE) ELSE a
           e == BeginWriteTxn(d)
           f == Put(e, none)
<1>1. db' = CommitTxn(f) /\ m_batchCount' = 0 /\ m_blobs' = none /\ pc' = "genesis"
  BY DEF ResetAndSetGenesisBlock
<1>2. a \in Environment(Blocks)
  BY Facts, AbortTxnIs
<1>3. d \in Environment(Blocks)
  <2> HIDE DEF a
  <2> QED  BY <1>2, SetDurableIs
<1> HIDE DEF d
<1>4. e \in Environment(Blocks) /\ e.depth # 2
  BY <1>3, BeginWriteTxnIs
<1>5. none \in Seq(Blocks)
  BY EmptyChain
<1> HIDE DEF e, none
<1>6. f \in Environment(Blocks) /\ f.outer = none
  BY <1>4, <1>5, PutOuterIs
<1> HIDE DEF f
<1>7. db' \in Environment(Blocks) /\ db'.depth = 0 /\ db'.committed = none
  BY <1>1, <1>6, CommitTxnIs
<1> QED  BY <1>1, <1>7, Quiet DEF BlobsFollow

LEMMA DownKeeps ==
  IInv /\ (Deinit \/ Crash \/ PowerLoss) => TxnsBalanced' /\ BlobsFollow'
<1> SUFFICES ASSUME IInv, Deinit \/ Crash \/ PowerLoss PROVE TxnsBalanced' /\ BlobsFollow'
  OBVIOUS
<1>1. m_batchCount' = 0 /\ pc' = "down"
  BY DEF Deinit, Crash, PowerLoss, Gone
<1>2. IInv'
  BY DownIInv
<1>3. db' \in Environment(Blocks) /\ db'.depth = 0
  BY <1>1, <1>2 DEF IInv, StateTypes, TxnCount
<1> QED  BY <1>1, <1>3, Quiet DEF BlobsFollow

LEMMA OtherKeeps ==
  TxnsBalanced /\ (Caught \/ Tick \/ UNCHANGED vars)
    => TxnsBalanced' /\ (BlobsFollow => BlobsFollow')
<1> SUFFICES ASSUME TxnsBalanced, Caught \/ Tick \/ UNCHANGED vars
             PROVE  TxnsBalanced' /\ (BlobsFollow => BlobsFollow')
  OBVIOUS
<1>1. /\ db' = db /\ m_batchCount' = m_batchCount /\ m_blobs' = m_blobs
      /\ pc' = pc \/ (pc = "thrown" /\ pc' = "idle")
  BY DEF Caught, Tick, vars
<1> QED  BY <1>1 DEF TxnsBalanced, BlobsFollow, View, HasActiveTxn

\* A step that changes neither the chain an operation sees nor m_blobs, or extends both.
LEMMA SameChange ==
  ASSUME pc # "down", View(db)' = View(db) /\ m_blobs' = m_blobs
  PROVE  BlobsFollow => BlobsFollow'
BY DEF BlobsFollow

LEMMA SameExtension ==
  ASSUME NEW b, pc # "down", View(db)' = Append(View(db), b), m_blobs' = Append(m_blobs, b)
  PROVE  BlobsFollow => BlobsFollow'
BY DEF BlobsFollow

\* The record of the failures only grows while the process runs.
LEMMA FailedGrows ==
  IInv /\ [Next]_vars
    => \/ failed \subseteq failed'
       \/ ResetAndSetGenesisBlock \/ Deinit \/ Crash \/ PowerLoss
BY DEF Next, vars, Start, BeginBlock, BeginBlockAsserts, WriteBlock, RejectBlock, CommitBlock,
       LeaveFastMode, CheckpointFlush, PushFails, SyncFails, AbortBatch, FlushBatch, FlushFails,
       RemoveLastBlock, RemoveLastBlockFails, Caught, ResetFails, Tick

LEMMA NextDiscipline == IInv /\ TxnDiscipline /\ [Next]_vars => TxnDiscipline'
<1> SUFFICES ASSUME IInv, TxnDiscipline, [Next]_vars, "popWrite" \notin failed'
             PROVE  TxnsBalanced'
  BY DEF TxnDiscipline
<1>1. CASE ResetAndSetGenesisBlock \/ Deinit \/ Crash \/ PowerLoss
  BY <1>1, ResetKeeps, DownKeeps
<1>2. CASE failed \subseteq failed'
  <2>1. TxnsBalanced
    BY <1>2 DEF TxnDiscipline
  <2> QED  BY <2>1, StartKeeps, BeginBlockKeeps, WriteBlockKeeps, RejectBlockKeeps,
              CommitBlockKeeps, AbortBatchKeeps, FlushKeeps, FlushFailsKeeps, PopKeeps,
              ResetKeeps, DownKeeps, OtherKeeps
           DEF Next, PushFails, SyncFails
<1> QED  BY <1>1, <1>2, FailedGrows

LEMMA NextBlobs ==
  IInv /\ TxnDiscipline /\ BlobsMatchChain /\ [Next]_vars => BlobsMatchChain'
<1> SUFFICES ASSUME IInv, TxnDiscipline, BlobsMatchChain, [Next]_vars, failed' = {}
             PROVE  BlobsFollow'
  BY DEF BlobsMatchChain
<1>1. CASE ResetAndSetGenesisBlock \/ Deinit \/ Crash \/ PowerLoss
  BY <1>1, ResetKeeps, DownKeeps
<1>2. CASE failed \subseteq failed'
  <2>1. TxnsBalanced /\ BlobsFollow /\ "popWrite" \notin failed'
    BY <1>2 DEF TxnDiscipline, BlobsMatchChain
  <2>2. ~FlushFails /\ ~ResetFails
    BY DEF FlushFails, ResetFails
  <2>3. CASE BeginBlock \/ BeginBlockAsserts
    BY <2>1, <2>3, BeginBlockKeeps, SameChange
  <2>4. CASE \E b \in Blocks : WriteBlock(b)
    BY <2>1, <2>4, WriteBlockKeeps, SameExtension
  <2>5. CASE CommitBlock
    BY <2>1, <2>5, CommitBlockKeeps, SameChange
  <2>6. CASE LeaveFastMode \/ CheckpointFlush \/ FlushBatch
    BY <2>1, <2>6, FlushKeeps, SameChange
  <2>7. CASE PushFails \/ SyncFails
    BY <2>1, <2>7, AbortBatchKeeps DEF PushFails, SyncFails
  <2> QED  BY <2>1, <2>2, <2>3, <2>4, <2>5, <2>6, <2>7, StartKeeps, RejectBlockKeeps,
              PopKeeps, ResetKeeps, DownKeeps, OtherKeeps
           DEF Next
<1> QED  BY <1>1, <1>2, FailedGrows

---------------------------------------------------------------------------
(* The theorems *)

\* No transaction assertion of LMDBBlockchainDB fires and a transaction is open exactly when
\* Blockchain believes so, until a delete of removeLastBlock throws.
THEOREM StoreTxnDiscipline == Spec => []TxnDiscipline
<1>1. Init => TxnDiscipline
  BY DEF Init, EmptyEnv, TxnDiscipline, TxnsBalanced, HasActiveTxn
<1>2. IInv /\ TxnDiscipline /\ [Next]_vars => TxnDiscipline'
  BY NextDiscipline
<1> QED  BY <1>1, <1>2, StoreInvariant, PTL DEF Spec

\* m_blobs, which getBlockLongHash indexes by height, is the hashing blobs of the chain the
\* next block builds on, until a delete of removeLastBlock, the commit of flushBatch or the
\* flush of a reset throws; a completed reset and a restart make it so again.
THEOREM StoreBlobsMatchChain == Spec => []BlobsMatchChain
<1>1. Init => BlobsMatchChain
  BY DEF Init, BlobsMatchChain, BlobsFollow
<1>2. IInv /\ TxnDiscipline /\ BlobsMatchChain /\ [Next]_vars => BlobsMatchChain'
  BY NextBlobs
<1> QED  BY <1>1, <1>2, StoreTxnDiscipline, StoreInvariant, PTL DEF Spec

---------------------------------------------------------------------------
(* Live blocks are durable *)

\* commitBatchOrBlock flushes after a commit only in the fast mode.
FlushIsFast == pc \in {"leaveFast", "checkpoint"} => m_batchFastMode

LEMMA NextFlushIsFast == IInv /\ FlushIsFast /\ [Next]_vars => FlushIsFast'
<1> SUFFICES ASSUME IInv, FlushIsFast, [Next]_vars, pc' \in {"leaveFast", "checkpoint"}
             PROVE  m_batchFastMode'
  BY DEF FlushIsFast
<1>1. CASE CommitBlock
  BY <1>1, Facts DEF CommitBlock
<1>2. CASE Tick \/ UNCHANGED vars
  BY <1>2 DEF Tick, vars, FlushIsFast
<1>3. ~(AbortBatch \/ FlushBatch \/ FlushFails)
  BY DEF AbortBatch, FlushBatch, FlushFails, LeaveFastThen
<1> QED  BY <1>1, <1>2, <1>3
         DEF Next, Start, BeginBlock, BeginBlockAsserts, WriteBlock, RejectBlock, LeaveFastMode,
             CheckpointFlush, PushFails, SyncFails, RemoveLastBlock, RemoveLastBlockFails,
             Caught, ResetAndSetGenesisBlock, ResetFails, Deinit, Crash, PowerLoss, Gone

\* The step that ends a successful pushBlock at the tip of the network.
LiveBlockAdded ==
  /\ pc \in {"written", "leaveFast", "checkpoint"} /\ pc' = "idle"
  /\ View(db)' = View(db)
  /\ ~IsSyncing(View(db))'

LEMMA CommitIsDurable ==
  IInv /\ CommitBlock /\ LiveBlockAdded => db'.survivors = {View(db)'}
<1> SUFFICES ASSUME IInv, CommitBlock, LiveBlockAdded PROVE db'.survivors = {View(db)'}
  OBVIOUS
<1> DEFINE d == IF HasNestedTxn(db) THEN CommitNestedWriteTxn(db) ELSE db
<1>1. pc = "written" /\ now' = now /\ pc' = "idle"
  BY DEF CommitBlock, LiveBlockAdded
<1>2. d \in Environment(Blocks) /\ d.nosync = db.nosync
  BY Facts, CommitNestedIs
<1>3. CASE db' = CommitTxn(d) /\ ~m_batchFastMode
  <2>1. ~d.nosync
    BY <1>2, <1>3 DEF IInv, NoSyncIsRemembered
  <2> HIDE DEF d
  <2>2. db'.survivors = {d.outer} /\ db'.committed = d.outer /\ db'.depth = 0
    BY <1>2, <1>3, <2>1, CommitTxnIs
  <2>3. View(db)' = d.outer
    BY <2>2 DEF View
  <2> QED  BY <2>2, <2>3
<1>4. CASE db' = d /\ IsSyncing(View(d))
  <2>1. IsSyncing(View(db))'
    BY <1>1, <1>4 DEF IsSyncing, View
  <2> QED  BY <2>1 DEF LiveBlockAdded
<1> QED  BY <1>1, <1>3, <1>4 DEF CommitBlock

\* An abort that gives up a written block is seen as such; one after the commit flushes.
LEMMA AbortIsDurable ==
  IInv /\ FlushIsFast /\ AbortBatch /\ LiveBlockAdded => db'.survivors = {View(db)'}
<1> SUFFICES ASSUME IInv, FlushIsFast, AbortBatch, LiveBlockAdded
             PROVE  db'.survivors = {View(db)'}
  OBVIOUS
<1> DEFINE d == AbortTxn(db)
<1>1. d \in Environment(Blocks) /\ d.depth = 0 /\ d.committed = db.committed
  BY Facts, AbortTxnIs
<1>2. /\ db' = (IF m_batchFastMode THEN SetFastSyncMode(d, FALSE) ELSE d) /\ pc' = "idle"
  BY DEF AbortBatch, LeaveFastThen, LiveBlockAdded
<1> HIDE DEF d
<1>3. db'.committed = db.committed /\ db'.depth = 0
  BY <1>1, <1>2, SetDurableIs
<1>4. View(db)' = db.committed
  BY <1>3 DEF View
<1>5. CASE pc = "written"
  <2>1. PICK b \in Blocks : View(db) = Append(Settled, b)
    BY <1>5 DEF IInv, TxnContents
  <2>2. Len(Settled) = Len(db.committed) + m_batchCount
    BY DEF IInv, BatchIsTheLoss
  <2>3. Len(View(db)) = Len(db.committed) + (m_batchCount + 1)
    <3>0. db.committed \in Seq(Blocks) /\ Settled \in Seq(Blocks) /\ m_batchCount \in Nat
      BY Facts
    <3>1. Len(Append(Settled, b)) = Len(db.committed) + (m_batchCount + 1)
      BY <2>2, <3>0, LenOfAppend
    <3> QED  BY <2>1, <3>1, Zenon
  <2>4. Len(db.committed) \in Nat
    BY Facts
  <2>5. View(db) # db.committed
    BY <2>3, <2>4, Facts
  <2> QED  BY <1>4, <2>5 DEF LiveBlockAdded
<1>6. CASE pc \in {"leaveFast", "checkpoint"}
  <2>1. db' = SetFastSyncMode(d, FALSE)
    BY <1>2, <1>6 DEF FlushIsFast
  <2>2. db'.survivors = {db.committed}
    BY <1>1, <2>1, SetDurableIs
  <2> QED  BY <1>4, <2>2
<1> QED  BY <1>5, <1>6 DEF LiveBlockAdded

LEMMA FlushIsDurable ==
  IInv /\ (LeaveFastMode \/ CheckpointFlush) => db'.survivors = {View(db)'}
<1> SUFFICES ASSUME IInv, LeaveFastMode \/ CheckpointFlush PROVE db'.survivors = {View(db)'}
  OBVIOUS
<1>1. db.depth = 0 /\ db' \in {SetFastSyncMode(db, FALSE), SyncToDisk(db)}
  BY DEF IInv, TxnCount, LeaveFastMode, CheckpointFlush
<1>2. db'.survivors = {db.committed} /\ db'.committed = db.committed /\ db'.depth = 0
  <2>1. CASE db' = SetFastSyncMode(db, FALSE)
    BY <1>1, <2>1, Facts, SetDurableIs
  <2>2. CASE db' = SyncToDisk(db)
    BY <1>1, <2>2, Facts, SyncToDiskIs
  <2> QED  BY <1>1, <2>1, <2>2
<1> QED  BY <1>2 DEF View

LEMMA NextLiveBlock ==
  IInv /\ FlushIsFast /\ [Next]_vars => (LiveBlockAdded => db'.survivors = {View(db)'})
<1> SUFFICES ASSUME IInv, FlushIsFast, [Next]_vars, LiveBlockAdded
             PROVE  db'.survivors = {View(db)'}
  OBVIOUS
<1>1. pc \in {"written", "leaveFast", "checkpoint"} /\ pc' = "idle"
  BY DEF LiveBlockAdded
<1>2. CommitBlock \/ LeaveFastMode \/ CheckpointFlush \/ AbortBatch
  BY <1>1
     DEF Next, Start, BeginBlock, BeginBlockAsserts, WriteBlock, RejectBlock, PushFails,
         SyncFails, FlushBatch, FlushFails, RemoveLastBlock, RemoveLastBlockFails, Caught,
         ResetAndSetGenesisBlock, ResetFails, Deinit, Crash, PowerLoss, Gone, Tick, vars
<1> QED  BY <1>2, CommitIsDurable, AbortIsDurable, FlushIsDurable

\* A block that pushBlock adds at the tip survives a crash of the system, whatever LMDB calls
\* fail ("each live commit must be fully durable", setFastSyncMode).
THEOREM StoreLiveBlockIsDurable == Spec => LiveBlockIsDurable
<1>1. Init => FlushIsFast
  BY DEF Init, FlushIsFast
<1>2. IInv /\ FlushIsFast /\ [Next]_vars => FlushIsFast'
  BY NextFlushIsFast
<1>3. IInv /\ FlushIsFast /\ [Next]_vars
        => [LiveBlockAdded => db'.survivors = {View(db)'}]_vars
  BY NextLiveBlock
<1>4. [LiveBlockAdded => db'.survivors = {View(db)'}]_vars
        <=> [(/\ pc \in {"written", "leaveFast", "checkpoint"} /\ pc' = "idle"
              /\ View(db)' = View(db)
              /\ ~IsSyncing(View(db))') => db'.survivors = {View(db)'}]_vars
  BY DEF LiveBlockAdded
<1> QED  BY <1>1, <1>2, <1>3, <1>4, StoreInvariant, PTL DEF Spec, LiveBlockIsDurable
=============================================================================
