-------------------------- MODULE ChainStoreProofs --------------------------
(***************************************************************************)
(* Proofs about ChainStore for every set of blocks, every batch size and   *)
(* every set of LMDB failures.                                             *)
(***************************************************************************)
EXTENDS ChainStore, TLAPS

\* How many transactions are open at each step of an operation.
TxnCount ==
  /\ pc \in {"idle", "genesis", "thrown", "stuck"} =>
       db.depth <= 1 /\ (m_batchCount > 0 => db.depth = 1)
  /\ pc \in {"begun", "written"} => db.depth = IF m_batchCount > 0 THEN 2 ELSE 1
  /\ pc \in {"leaveFast", "checkpoint", "down"} => db.depth = 0 /\ m_batchCount = 0

\* What the innermost transaction of pushBlock holds.
TxnContents ==
  /\ pc = "begun" => View(db) = Settled
  /\ pc = "written" => \E b \in Blocks : View(db) = Append(Settled, b)

\* The inductive invariant.
IInv == StateTypes /\ TxnCount /\ TxnContents /\ BatchIsTheLoss /\ NoSyncIsRemembered

---------------------------------------------------------------------------
(* What each operator of LmdbEnv does to the fields of an environment. *)

LEMMA EmptyChain == <<>> \in Seq(Blocks)
OBVIOUS

LEMMA ViewType ==
  ASSUME NEW d \in Environment(Blocks)
  PROVE  View(d) \in Seq(Blocks)
BY DEF View, Environment

LEMMA BeginWriteTxnIs ==
  ASSUME NEW d \in Environment(Blocks)
  PROVE  LET e == BeginWriteTxn(d)
         IN  /\ e \in Environment(Blocks)
             /\ e.committed = d.committed
             /\ e.survivors = d.survivors
             /\ e.depth = 1
             /\ e.outer = d.committed
             /\ e.inner = d.inner
             /\ e.nosync = d.nosync
BY EmptyChain DEF Environment, BeginWriteTxn

LEMMA BeginNestedIs ==
  ASSUME NEW d \in Environment(Blocks)
  PROVE  LET e == BeginNestedWriteTxn(d)
         IN  /\ e \in Environment(Blocks)
             /\ e.committed = d.committed
             /\ e.survivors = d.survivors
             /\ e.depth = 2
             /\ e.outer = d.outer
             /\ e.inner = d.outer
             /\ e.nosync = d.nosync
BY EmptyChain DEF Environment, BeginNestedWriteTxn

LEMMA CommitNestedIs ==
  ASSUME NEW d \in Environment(Blocks)
  PROVE  LET e == CommitNestedWriteTxn(d)
         IN  /\ e \in Environment(Blocks)
             /\ e.committed = d.committed
             /\ e.survivors = d.survivors
             /\ e.depth = 1
             /\ e.outer = d.inner
             /\ e.inner = <<>>
             /\ e.nosync = d.nosync
BY EmptyChain DEF Environment, CommitNestedWriteTxn

LEMMA AbortNestedIs ==
  ASSUME NEW d \in Environment(Blocks)
  PROVE  LET e == AbortNestedWriteTxn(d)
         IN  /\ e \in Environment(Blocks)
             /\ e.committed = d.committed
             /\ e.survivors = d.survivors
             /\ e.depth = 1
             /\ e.outer = d.outer
             /\ e.inner = <<>>
             /\ e.nosync = d.nosync
BY EmptyChain DEF Environment, AbortNestedWriteTxn

LEMMA AbortTxnIs ==
  ASSUME NEW d \in Environment(Blocks)
  PROVE  LET e == AbortTxn(d)
         IN  /\ e \in Environment(Blocks)
             /\ e.committed = d.committed
             /\ e.survivors = d.survivors
             /\ e.depth = 0
             /\ e.outer = <<>>
             /\ e.inner = <<>>
             /\ e.nosync = d.nosync
BY EmptyChain DEF Environment, AbortTxn

LEMMA CommitTxnIs ==
  ASSUME NEW d \in Environment(Blocks)
  PROVE  LET e == CommitTxn(d)
         IN  /\ e \in Environment(Blocks)
             /\ e.committed = d.outer
             /\ e.survivors = IF d.nosync THEN d.survivors \cup {d.outer} ELSE {d.outer}
             /\ e.depth = 0
             /\ e.outer = <<>>
             /\ e.inner = <<>>
             /\ e.nosync = d.nosync
BY EmptyChain DEF Environment, CommitTxn

LEMMA PutInnerIs ==
  ASSUME NEW d \in Environment(Blocks), NEW c \in Seq(Blocks), d.depth = 2
  PROVE  LET e == Put(d, c)
         IN  /\ e \in Environment(Blocks)
             /\ e.committed = d.committed
             /\ e.survivors = d.survivors
             /\ e.depth = d.depth
             /\ e.outer = d.outer
             /\ e.inner = c
             /\ e.nosync = d.nosync
BY EmptyChain DEF Environment, Put, HasNestedTxn

LEMMA PutOuterIs ==
  ASSUME NEW d \in Environment(Blocks), NEW c \in Seq(Blocks), d.depth # 2
  PROVE  LET e == Put(d, c)
         IN  /\ e \in Environment(Blocks)
             /\ e.committed = d.committed
             /\ e.survivors = d.survivors
             /\ e.depth = d.depth
             /\ e.outer = c
             /\ e.inner = d.inner
             /\ e.nosync = d.nosync
BY EmptyChain DEF Environment, Put, HasNestedTxn

LEMMA SetFastIs ==
  ASSUME NEW d \in Environment(Blocks)
  PROVE  LET e == SetFastSyncMode(d, TRUE)
         IN  /\ e \in Environment(Blocks)
             /\ e.committed = d.committed
             /\ e.survivors = d.survivors
             /\ e.depth = d.depth
             /\ e.outer = d.outer
             /\ e.inner = d.inner
             /\ e.nosync = TRUE
BY EmptyChain DEF Environment, SetFastSyncMode

LEMMA SetDurableIs ==
  ASSUME NEW d \in Environment(Blocks)
  PROVE  LET e == SetFastSyncMode(d, FALSE)
         IN  /\ e \in Environment(Blocks)
             /\ e.committed = d.committed
             /\ e.survivors = {d.committed}
             /\ e.depth = d.depth
             /\ e.outer = d.outer
             /\ e.inner = d.inner
             /\ e.nosync = FALSE
BY EmptyChain DEF Environment, SetFastSyncMode, SyncToDisk

LEMMA UnflushedIs ==
  ASSUME NEW d \in Environment(Blocks)
  PROVE  LET e == SetFastSyncModeUnflushed(d)
         IN  /\ e \in Environment(Blocks)
             /\ e.committed = d.committed
             /\ e.survivors = d.survivors
             /\ e.depth = d.depth
             /\ e.outer = d.outer
             /\ e.inner = d.inner
             /\ e.nosync = FALSE
BY EmptyChain DEF Environment, SetFastSyncModeUnflushed

LEMMA SyncToDiskIs ==
  ASSUME NEW d \in Environment(Blocks)
  PROVE  LET e == SyncToDisk(d)
         IN  /\ e \in Environment(Blocks)
             /\ e.committed = d.committed
             /\ e.survivors = {d.committed}
             /\ e.depth = d.depth
             /\ e.outer = d.outer
             /\ e.inner = d.inner
             /\ e.nosync = d.nosync
BY EmptyChain DEF Environment, SyncToDisk

LEMMA ProcessCrashIs ==
  ASSUME NEW d \in Environment(Blocks)
  PROVE  LET e == ProcessCrash(d)
         IN  /\ e \in Environment(Blocks)
             /\ e.committed = d.committed
             /\ e.survivors = d.survivors
             /\ e.depth = 0
             /\ e.outer = <<>>
             /\ e.inner = <<>>
             /\ e.nosync = FALSE
BY EmptyChain DEF Environment, ProcessCrash, AbortTxn

LEMMA SystemCrashIs ==
  ASSUME NEW d \in Environment(Blocks), NEW c \in Seq(Blocks)
  PROVE  LET e == SystemCrash(d, c)
         IN  /\ e \in Environment(Blocks)
             /\ e.committed = c
             /\ e.survivors = {c}
             /\ e.depth = 0
             /\ e.outer = <<>>
             /\ e.inner = <<>>
             /\ e.nosync = FALSE
BY EmptyChain DEF Environment, SystemCrash, EmptyEnv

---------------------------------------------------------------------------
(* Prefixes *)

LEMMA PrefixReflexive ==
  ASSUME NEW s \in Seq(Blocks)
  PROVE  StartsWith(s, s)
BY DEF StartsWith

LEMMA PrefixOfAppend ==
  ASSUME NEW s \in Seq(Blocks), NEW t \in Seq(Blocks), NEW b \in Blocks, StartsWith(t, s)
  PROVE  StartsWith(Append(t, b), s)
<1>1. Len(s) <= Len(t) /\ Len(s) \in Nat /\ Len(t) \in Nat
  BY DEF StartsWith
<1>2. SubSeq(Append(t, b), 1, Len(s)) = SubSeq(t, 1, Len(s))
  BY <1>1
<1>3. Len(Append(t, b)) = Len(t) + 1
  OBVIOUS
<1> QED  BY <1>1, <1>2, <1>3 DEF StartsWith

LEMMA LenOfAppend ==
  ASSUME NEW s \in Seq(Blocks), NEW t \in Seq(Blocks), NEW b \in Blocks, NEW n \in Nat,
         Len(t) = Len(s) + n
  PROVE  Len(Append(t, b)) = Len(s) + (n + 1)
OBVIOUS

LEMMA CutType ==
  ASSUME NEW s \in Seq(Blocks), NEW n \in Nat
  PROVE  CutTo(s, n) \in Seq(Blocks)
BY DEF CutTo

LEMMA DropTipType ==
  ASSUME NEW s \in Seq(Blocks)
  PROVE  DropTip(s) \in Seq(Blocks)
BY DEF DropTip

---------------------------------------------------------------------------
(* The inductive invariant *)

\* What IInv says of the variables, in the form the steps use it.
LEMMA Facts ==
  ASSUME IInv
  PROVE  /\ db \in Environment(Blocks) /\ db.depth \in {0, 1, 2}
         /\ db.committed \in Seq(Blocks) /\ db.outer \in Seq(Blocks) /\ db.inner \in Seq(Blocks)
         /\ db.survivors \subseteq Seq(Blocks) /\ db.committed \in db.survivors
         /\ Settled \in Seq(Blocks)
         /\ m_batchCount \in Nat /\ m_batchCount < BatchSize
         /\ BatchSize \in Nat /\ BatchSize > 0
         /\ m_batchCount = 0 => Settled = db.committed
         /\ m_batchCount > 0 => Settled = db.outer /\ db.depth > 0
         /\ m_blobs \in Seq(Blocks) /\ m_batchFastMode \in BOOLEAN
         /\ pc \in Steps /\ now \in 0 .. MaxNow
<1>1. /\ db \in Environment(Blocks) /\ m_batchCount \in 0 .. BatchSize - 1 /\ pc \in Steps
      /\ m_blobs \in Seq(Blocks) /\ m_batchFastMode \in BOOLEAN /\ now \in 0 .. MaxNow
  BY DEF IInv, StateTypes
<1>2. /\ db.committed \in Seq(Blocks) /\ db.outer \in Seq(Blocks) /\ db.inner \in Seq(Blocks)
      /\ db.survivors \subseteq Seq(Blocks) /\ db.depth \in {0, 1, 2}
  BY <1>1 DEF Environment
<1>3. m_batchCount \in Nat /\ m_batchCount < BatchSize /\ BatchSize \in Nat /\ BatchSize > 0
  BY <1>1, ConstantsAssumption
<1>4. m_batchCount > 0 => db.depth > 0
  BY <1>1, <1>2, <1>3 DEF IInv, TxnCount, Steps
<1>5. /\ m_batchCount = 0 => Settled = db.committed
      /\ m_batchCount > 0 => Settled = db.outer
  BY <1>3, <1>4 DEF Settled, HasActiveTxn
<1>6. db.committed \in db.survivors
  BY DEF IInv, BatchIsTheLoss
<1> QED  BY <1>1, <1>2, <1>3, <1>4, <1>5, <1>6

LEMMA InitIInv == Init => IInv
<1> SUFFICES ASSUME Init PROVE IInv
  OBVIOUS
<1>1. db \in Environment(Blocks)
  BY EmptyChain DEF Init, EmptyEnv, Environment
<1>2. /\ db.committed = <<>> /\ db.survivors = {<<>>} /\ db.nosync = FALSE /\ db.depth = 0
      /\ m_batchCount = 0 /\ pc = "down" /\ m_batchFastMode = FALSE
  BY DEF Init, EmptyEnv
<1>3. StateTypes
  <2>1. m_batchCount \in 0 .. BatchSize - 1 /\ now \in 0 .. MaxNow
    BY ConstantsAssumption DEF Init
  <2> QED  BY <1>1, <2>1, EmptyChain DEF Init, StateTypes, Steps
<1>4. TxnCount /\ TxnContents
  BY <1>2 DEF TxnCount, TxnContents
<1>5. BatchIsTheLoss
  <2>1. Settled = db.committed
    BY <1>2 DEF Settled
  <2>2. StartsWith(Settled, db.committed)
    BY <1>2, <2>1, EmptyChain, PrefixReflexive
  <2>3. Len(Settled) = Len(db.committed) + m_batchCount
    BY <1>2, <2>1, EmptyChain
  <2> QED  BY <1>2, <2>2, <2>3 DEF BatchIsTheLoss
<1> QED  BY <1>2, <1>3, <1>4, <1>5 DEF IInv, NoSyncIsRemembered

\* Steps that leave no batch open keep IInv when the environment is well typed and its
\* committed chain can survive a crash of the system.
LEMMA NoBatchIInv ==
  ASSUME db' \in Environment(Blocks), db'.depth \in {0, 1},
         db'.committed \in db'.survivors, NoSyncIsRemembered',
         m_batchCount' = 0, m_batchFastMode' \in BOOLEAN, m_blobs' \in Seq(Blocks),
         now' \in 0 .. MaxNow,
         \/ pc' \in {"idle", "genesis", "thrown", "stuck"}
         \/ pc' \in {"leaveFast", "checkpoint", "down"} /\ db'.depth = 0
  PROVE  IInv'
<1>1. StateTypes'
  <2>1. m_batchCount' \in 0 .. BatchSize - 1
    BY ConstantsAssumption
  <2>2. pc' \in Steps
    BY DEF Steps
  <2> QED  BY <2>1, <2>2 DEF StateTypes
<1>2. TxnCount' /\ TxnContents'
  BY DEF TxnCount, TxnContents
<1>3. BatchIsTheLoss'
  <2>1. Settled' = db'.committed
    BY DEF Settled
  <2>2. db'.committed \in Seq(Blocks) /\ Len(db'.committed) \in Nat
    <3>1. db'.committed \in Seq(Blocks)
      BY DEF Environment
    <3> QED  BY <3>1
  <2>3. StartsWith(db'.committed, db'.committed)
    BY <2>2, PrefixReflexive
  <2> QED  BY <2>1, <2>2, <2>3 DEF BatchIsTheLoss
<1> QED  BY <1>1, <1>2, <1>3 DEF IInv

---------------------------------------------------------------------------
(* One lemma per group of actions *)

LEMMA StartIInv == IInv /\ Start => IInv'
<1> SUFFICES ASSUME IInv, Start PROVE IInv'
  OBVIOUS
<1>1. m_batchCount = 0 /\ db.depth = 0
  BY DEF IInv, TxnCount, Start
<1>2. NoSyncIsRemembered'
  BY DEF IInv, NoSyncIsRemembered, Start
<1>3. db' = db /\ m_batchCount' = 0 /\ m_batchFastMode' = m_batchFastMode /\ now' = now
  BY <1>1 DEF Start
<1>4. pc' \in {"idle", "genesis"} /\ m_blobs' = db.committed
  BY DEF Start
<1> QED  BY <1>1, <1>2, <1>3, <1>4, Facts, NoBatchIInv

LEMMA BeginBlockIInv == IInv /\ BeginBlock => IInv'
<1> SUFFICES ASSUME IInv, BeginBlock PROVE IInv'
  OBVIOUS
<1>1. CASE m_batchCount > 0
  <2>1. db' = BeginNestedWriteTxn(db) /\ m_batchFastMode' = m_batchFastMode
    BY <1>1, Facts DEF BeginBlock
  <2>2. /\ db' \in Environment(Blocks) /\ db'.depth = 2 /\ db'.outer = db.outer
        /\ db'.inner = db.outer /\ db'.committed = db.committed
        /\ db'.survivors = db.survivors /\ db'.nosync = db.nosync
    BY <2>1, Facts, BeginNestedIs
  <2>3. m_batchCount' = m_batchCount /\ pc' = "begun" /\ m_blobs' = m_blobs /\ now' = now
    BY DEF BeginBlock
  <2>4. Settled' = Settled /\ View(db') = Settled
    BY <1>1, <2>2, <2>3, Facts DEF Settled, HasActiveTxn, View
  <2>5. StateTypes'
    BY <2>1, <2>2, <2>3 DEF IInv, StateTypes, Steps
  <2>6. TxnCount' /\ TxnContents'
    BY <1>1, <2>2, <2>3, <2>4 DEF TxnCount, TxnContents
  <2>7. BatchIsTheLoss'
    BY <2>2, <2>3, <2>4 DEF IInv, BatchIsTheLoss
  <2> QED  BY <2>1, <2>2, <2>5, <2>6, <2>7 DEF IInv, NoSyncIsRemembered
<1>2. CASE m_batchCount = 0
  <2> DEFINE fast == IsSyncing(View(db))
  <2>1. db' = BeginWriteTxn(WithMode(db, fast)) /\ m_batchFastMode' = fast
    BY <1>2 DEF BeginBlock
  <2>2. fast \in BOOLEAN
    BY DEF IsSyncing
  <2> HIDE DEF fast
  <2>3. /\ WithMode(db, fast) \in Environment(Blocks)
        /\ WithMode(db, fast).committed = db.committed
        /\ db.committed \in WithMode(db, fast).survivors
        /\ WithMode(db, fast).nosync => fast
    <3>1. CASE m_batchFastMode /\ ~fast
      BY <3>1, Facts, SetDurableIs DEF WithMode
    <3>2. CASE ~m_batchFastMode /\ fast
      BY <3>2, Facts, SetFastIs DEF WithMode
    <3>3. CASE (m_batchFastMode /\ fast) \/ (~m_batchFastMode /\ ~fast)
      BY <3>3, Facts DEF WithMode, IInv, NoSyncIsRemembered
    <3> QED  BY <3>1, <3>2, <3>3
  <2>4. /\ db' \in Environment(Blocks) /\ db'.depth = 1 /\ db'.outer = db.committed
        /\ db'.committed = db.committed /\ db.committed \in db'.survivors
        /\ db'.nosync => m_batchFastMode'
    BY <2>1, <2>3, BeginWriteTxnIs
  <2>5. m_batchCount' = 0 /\ pc' = "begun" /\ m_blobs' = m_blobs /\ now' = now
    BY <1>2 DEF BeginBlock
  <2>6. Settled' = db.committed /\ View(db') = db.committed
    BY <2>4, <2>5 DEF Settled, View
  <2>7. StateTypes'
    BY <2>1, <2>2, <2>4, <2>5, <1>2 DEF IInv, StateTypes, Steps
  <2>8. TxnCount' /\ TxnContents'
    BY <2>4, <2>5, <2>6 DEF TxnCount, TxnContents
  <2>9. BatchIsTheLoss'
    BY <1>2, <2>4, <2>5, <2>6, Facts DEF IInv, BatchIsTheLoss
  <2> QED  BY <2>4, <2>7, <2>8, <2>9 DEF IInv, NoSyncIsRemembered
<1> QED  BY <1>1, <1>2, Facts

LEMMA BeginBlockAssertsIInv == IInv /\ BeginBlockAsserts => IInv'
<1> SUFFICES ASSUME IInv, BeginBlockAsserts PROVE IInv'
  OBVIOUS
<1>1. m_batchCount = 0 /\ db.depth \in {0, 1}
  BY Facts DEF IInv, TxnCount, BeginBlockAsserts
<1>2. /\ db' = db /\ m_batchCount' = 0 /\ m_batchFastMode' = m_batchFastMode
      /\ m_blobs' = m_blobs /\ now' = now /\ pc' = "stuck"
  BY <1>1 DEF BeginBlockAsserts
<1>3. NoSyncIsRemembered'
  BY <1>2 DEF IInv, NoSyncIsRemembered
<1> QED  BY <1>1, <1>2, <1>3, Facts, NoBatchIInv

LEMMA WriteBlockIInv == ASSUME NEW b \in Blocks PROVE IInv /\ WriteBlock(b) => IInv'
<1> SUFFICES ASSUME IInv, WriteBlock(b) PROVE IInv'
  OBVIOUS
<1> DEFINE chain == Append(View(db), b)
<1>1. /\ m_batchCount' = m_batchCount /\ m_batchFastMode' = m_batchFastMode
      /\ m_blobs' = Append(m_blobs, b) /\ now' = now /\ pc' = "written" /\ pc = "begun"
      /\ db' = Put(db, chain)
  BY DEF WriteBlock
<1>2. View(db) = Settled /\ db.depth = IF m_batchCount > 0 THEN 2 ELSE 1
  BY <1>1 DEF IInv, TxnContents, TxnCount
<1>3. chain \in Seq(Blocks) /\ m_blobs' \in Seq(Blocks)
  BY <1>1, <1>2, Facts
<1> HIDE DEF chain
<1>4. /\ db' \in Environment(Blocks) /\ db'.committed = db.committed
      /\ db'.survivors = db.survivors /\ db'.depth = db.depth /\ db'.nosync = db.nosync
  BY <1>1, <1>3, Facts, PutInnerIs, PutOuterIs
<1>5. Settled' = Settled /\ View(db') = chain
  <2>1. CASE m_batchCount > 0
    <3>1. db'.outer = db.outer /\ db'.inner = chain
      BY <2>1, <1>1, <1>2, <1>3, Facts, PutInnerIs
    <3> QED  BY <2>1, <3>1, <1>1, <1>2, <1>4, Facts DEF Settled, HasActiveTxn, View
  <2>2. CASE m_batchCount = 0
    <3>1. db'.outer = chain /\ db.depth = 1
      BY <2>2, <1>1, <1>2, <1>3, Facts, PutOuterIs
    <3> QED  BY <2>2, <3>1, <1>1, <1>4, Facts DEF Settled, HasActiveTxn, View
  <2> QED  BY <2>1, <2>2, Facts
<1>6. StateTypes'
  BY <1>1, <1>3, <1>4 DEF IInv, StateTypes, Steps
<1>7. TxnCount' /\ TxnContents'
  BY <1>1, <1>2, <1>4, <1>5 DEF TxnCount, TxnContents, chain
<1>8. BatchIsTheLoss'
  BY <1>1, <1>4, <1>5 DEF IInv, BatchIsTheLoss
<1> QED  BY <1>1, <1>4, <1>6, <1>7, <1>8 DEF IInv, NoSyncIsRemembered

LEMMA RejectBlockIInv == IInv /\ RejectBlock => IInv'
<1> SUFFICES ASSUME IInv, RejectBlock PROVE IInv'
  OBVIOUS
<1>1. /\ m_batchCount' = m_batchCount /\ m_batchFastMode' = m_batchFastMode
      /\ m_blobs' = TrimBlobs(View(db')) /\ now' = now /\ pc' = "idle" /\ pc = "begun"
  BY DEF RejectBlock
<1>2. db.depth = IF m_batchCount > 0 THEN 2 ELSE 1
  BY <1>1 DEF IInv, TxnCount
<1>3. /\ db' \in Environment(Blocks) /\ db'.committed = db.committed
      /\ db'.survivors = db.survivors /\ db'.nosync = db.nosync
      /\ db'.depth = (IF m_batchCount > 0 THEN 1 ELSE 0)
      /\ m_batchCount > 0 => db'.outer = db.outer
  <2>1. CASE m_batchCount > 0
    <3>1. db' = AbortNestedWriteTxn(db)
      BY <2>1, <1>2 DEF RejectBlock, HasNestedTxn
    <3> QED  BY <2>1, <3>1, Facts, AbortNestedIs
  <2>2. CASE m_batchCount = 0
    <3>1. db' = AbortTxn(db)
      BY <2>2, <1>2 DEF RejectBlock, HasNestedTxn
    <3> QED  BY <2>2, <3>1, Facts, AbortTxnIs
  <2> QED  BY <2>1, <2>2, Facts
<1>4. m_blobs' \in Seq(Blocks)
  <2>1. View(db') \in Seq(Blocks)
    BY <1>3, ViewType
  <2>2. Len(View(db')) \in Nat
    BY <2>1
  <2> QED  BY <1>1, <2>2, Facts, CutType DEF TrimBlobs
<1>5. Settled' = Settled
  BY <1>1, <1>3, Facts DEF Settled, HasActiveTxn
<1>6. StateTypes'
  BY <1>1, <1>3, <1>4 DEF IInv, StateTypes, Steps
<1>7. TxnCount' /\ TxnContents'
  BY <1>1, <1>3, Facts DEF TxnCount, TxnContents
<1>8. BatchIsTheLoss'
  BY <1>1, <1>3, <1>5 DEF IInv, BatchIsTheLoss
<1> QED  BY <1>1, <1>3, <1>6, <1>7, <1>8 DEF IInv, NoSyncIsRemembered

\* commitBatchOrBlock: the block written last joins the batch, or the batch with it becomes
\* the committed chain.
LEMMA CommitBlockIs ==
  ASSUME IInv, CommitBlock
  PROVE  \E b \in Blocks :
           \/ /\ db' \in Environment(Blocks) /\ db'.depth = 0 /\ m_batchCount' = 0
              /\ db'.committed = Append(Settled, b)
              /\ db'.survivors = IF db.nosync THEN db.survivors \cup {Append(Settled, b)}
                                 ELSE {Append(Settled, b)}
              /\ db'.nosync = db.nosync
              /\ pc' \in {"idle", "checkpoint", "leaveFast"}
           \/ /\ db' \in Environment(Blocks) /\ db'.depth = 1
              /\ db'.outer = Append(Settled, b)
              /\ db'.committed = db.committed /\ db'.survivors = db.survivors
              /\ db'.nosync = db.nosync
              /\ m_batchCount' = m_batchCount + 1 /\ m_batchCount + 1 < BatchSize
              /\ pc' = "idle"
<1> DEFINE d == IF HasNestedTxn(db) THEN CommitNestedWriteTxn(db) ELSE db
           full == Len(View(d)) = 1 \/ ~IsSyncing(View(d)) \/ m_batchCount + 1 >= BatchSize
<1>1. pc = "written"
  BY DEF CommitBlock
<1>2. PICK b \in Blocks : View(db) = Append(Settled, b)
  BY <1>1 DEF IInv, TxnContents
<1>3. db.depth = IF m_batchCount > 0 THEN 2 ELSE 1
  BY <1>1 DEF IInv, TxnCount
<1>4. /\ d \in Environment(Blocks) /\ d.depth = 1 /\ d.outer = Append(Settled, b)
      /\ d.committed = db.committed /\ d.survivors = db.survivors /\ d.nosync = db.nosync
  <2>1. CASE m_batchCount > 0
    <3>1. d = CommitNestedWriteTxn(db) /\ db.inner = Append(Settled, b)
      BY <2>1, <1>2, <1>3 DEF HasNestedTxn, View
    <3> QED  BY <3>1, Facts, CommitNestedIs
  <2>2. CASE m_batchCount = 0
    <3>1. d = db /\ db.outer = Append(Settled, b) /\ db.depth = 1
      BY <2>2, <1>2, <1>3 DEF HasNestedTxn, View
    <3> QED  BY <3>1, Facts
  <2> QED  BY <2>1, <2>2, Facts
<1>5. \/ /\ db' = CommitTxn(d) /\ m_batchCount' = 0
         /\ pc' \in {"idle", "checkpoint", "leaveFast"}
      \/ /\ db' = d /\ m_batchCount' = m_batchCount + 1 /\ pc' = "idle"
         /\ m_batchCount + 1 < BatchSize
  <2>1. CASE full
    BY <2>1 DEF CommitBlock
  <2>2. CASE ~full
    <3>1. m_batchCount + 1 < BatchSize
      BY <2>2, Facts
    <3>2. db' = d /\ m_batchCount' = m_batchCount + 1 /\ pc' = "idle"
      BY <2>2 DEF CommitBlock
    <3> QED  BY <3>1, <3>2
  <2> QED  BY <2>1, <2>2
<1> HIDE DEF d, full
<1>6. CASE db' = CommitTxn(d) /\ m_batchCount' = 0 /\ pc' \in {"idle", "checkpoint", "leaveFast"}
  <2>1. /\ db' \in Environment(Blocks) /\ db'.depth = 0 /\ db'.committed = d.outer
        /\ db'.survivors = (IF d.nosync THEN d.survivors \cup {d.outer} ELSE {d.outer})
        /\ db'.nosync = d.nosync
    BY <1>4, <1>6, CommitTxnIs
  <2> QED  BY <1>4, <1>6, <2>1, Zenon
<1>7. CASE /\ db' = d /\ m_batchCount' = m_batchCount + 1 /\ pc' = "idle"
           /\ m_batchCount + 1 < BatchSize
  BY <1>4, <1>7, Zenon
<1> QED  BY <1>5, <1>6, <1>7

LEMMA CommitBlockIInv == IInv /\ CommitBlock => IInv'
<1> SUFFICES ASSUME IInv, CommitBlock PROVE IInv'
  OBVIOUS
<1>1. m_batchFastMode' = m_batchFastMode /\ m_blobs' = m_blobs /\ now' = now
  BY DEF CommitBlock
<1>2. PICK b \in Blocks :
        \/ /\ db' \in Environment(Blocks) /\ db'.depth = 0 /\ m_batchCount' = 0
           /\ db'.committed = Append(Settled, b)
           /\ db'.survivors = IF db.nosync THEN db.survivors \cup {Append(Settled, b)}
                              ELSE {Append(Settled, b)}
           /\ db'.nosync = db.nosync
           /\ pc' \in {"idle", "checkpoint", "leaveFast"}
        \/ /\ db' \in Environment(Blocks) /\ db'.depth = 1
           /\ db'.outer = Append(Settled, b)
           /\ db'.committed = db.committed /\ db'.survivors = db.survivors
           /\ db'.nosync = db.nosync
           /\ m_batchCount' = m_batchCount + 1 /\ m_batchCount + 1 < BatchSize
           /\ pc' = "idle"
  BY CommitBlockIs
<1>3. NoSyncIsRemembered'
  BY <1>1, <1>2 DEF IInv, NoSyncIsRemembered
<1>4. CASE m_batchCount' = 0
  <2>1. /\ db' \in Environment(Blocks) /\ db'.depth = 0 /\ db'.committed \in db'.survivors
        /\ pc' \in {"idle", "checkpoint", "leaveFast"}
    <3>1. m_batchCount + 1 # 0
      BY Facts
    <3> QED  BY <1>2, <1>4, <3>1, Zenon
  <2> QED  BY <1>1, <1>3, <1>4, <2>1, Facts, NoBatchIInv
<1>5. CASE m_batchCount' # 0
  <2>0. /\ db' \in Environment(Blocks) /\ db'.depth = 1
        /\ db'.outer = Append(Settled, b)
        /\ db'.committed = db.committed /\ db'.survivors = db.survivors
        /\ m_batchCount' = m_batchCount + 1 /\ m_batchCount + 1 < BatchSize
        /\ pc' = "idle"
    BY <1>2, <1>5
  <2>1. m_batchCount' \in Nat /\ m_batchCount' > 0 /\ m_batchCount' \in 0 .. BatchSize - 1
    BY <2>0, Facts
  <2>2. Settled' = Append(Settled, b)
    BY <2>0, <2>1 DEF Settled, HasActiveTxn
  <2>3. StateTypes'
    BY <1>1, <2>0, <2>1 DEF IInv, StateTypes, Steps
  <2>4. TxnCount' /\ TxnContents'
    BY <2>0 DEF TxnCount, TxnContents
  <2>5. BatchIsTheLoss'
    <3>1. StartsWith(Append(Settled, b), db.committed)
      BY Facts, PrefixOfAppend DEF IInv, BatchIsTheLoss
    <3>2. Len(Settled) = Len(db.committed) + m_batchCount
      BY DEF IInv, BatchIsTheLoss
    <3>3. Len(Append(Settled, b)) = Len(db.committed) + (m_batchCount + 1)
      <4>1. db.committed \in Seq(Blocks) /\ Settled \in Seq(Blocks) /\ m_batchCount \in Nat
        BY Facts
      <4> QED  BY <3>2, <4>1, LenOfAppend
    <3> QED  BY <2>0, <2>2, <3>1, <3>3, Facts DEF BatchIsTheLoss
  <2> QED  BY <1>3, <2>3, <2>4, <2>5 DEF IInv
<1> QED  BY <1>4, <1>5

\* setFastSyncMode(false) on the way out, whether its flush works or not.
LEMMA LeaveFastIs ==
  ASSUME IInv, NEW d \in Environment(Blocks), d.depth = 0, d.committed \in d.survivors,
         d.nosync = db.nosync, LeaveFastThen(d, "idle")
  PROVE  /\ db' \in Environment(Blocks) /\ db'.depth = 0 /\ db'.committed = d.committed
         /\ db'.survivors = d.survivors \/ db'.survivors = {d.committed}
         /\ db'.committed \in db'.survivors
         /\ m_batchFastMode' \in BOOLEAN /\ NoSyncIsRemembered'
         /\ pc' \in {"idle", "thrown"}
<1>1. CASE m_batchFastMode /\ db' = SetFastSyncMode(d, FALSE) /\ m_batchFastMode' = FALSE
           /\ pc' = "idle"
  BY <1>1, SetDurableIs DEF NoSyncIsRemembered
<1>2. CASE ~m_batchFastMode /\ db' = d /\ m_batchFastMode' = FALSE /\ pc' = "idle"
  BY <1>2 DEF IInv, NoSyncIsRemembered
<1>3. CASE db' = SetFastSyncModeUnflushed(d) /\ m_batchFastMode' = m_batchFastMode
           /\ pc' = "thrown"
  BY <1>3, Facts, UnflushedIs DEF NoSyncIsRemembered
<1> QED  BY <1>1, <1>2, <1>3, Facts DEF LeaveFastThen

LEMMA AbortBatchIInv == IInv /\ AbortBatch => IInv'
<1> SUFFICES ASSUME IInv, AbortBatch PROVE IInv'
  OBVIOUS
<1> DEFINE d == AbortTxn(db)
<1>1. /\ d \in Environment(Blocks) /\ d.depth = 0 /\ d.committed \in d.survivors
      /\ d.nosync = db.nosync
  BY Facts, AbortTxnIs
<1>2. /\ LeaveFastThen(d, "idle")
      /\ m_batchCount' = 0 /\ m_blobs' = TrimBlobs(db.committed) /\ now' = now
  BY DEF AbortBatch
<1> HIDE DEF d
<1>3. m_blobs' \in Seq(Blocks)
  <2>1. Len(db.committed) \in Nat
    BY Facts
  <2> QED  BY <1>2, <2>1, Facts, CutType DEF TrimBlobs
<1>4. /\ db' \in Environment(Blocks) /\ db'.depth = 0 /\ db'.committed \in db'.survivors
      /\ m_batchFastMode' \in BOOLEAN /\ NoSyncIsRemembered' /\ pc' \in {"idle", "thrown"}
  BY <1>1, <1>2, LeaveFastIs
<1> QED  BY <1>2, <1>3, <1>4, Facts, NoBatchIInv

LEMMA FlushStepsIInv == IInv /\ (LeaveFastMode \/ CheckpointFlush) => IInv'
<1> SUFFICES ASSUME IInv, LeaveFastMode \/ CheckpointFlush PROVE IInv'
  OBVIOUS
<1>1. m_batchCount = 0 /\ db.depth = 0
  BY DEF IInv, TxnCount, LeaveFastMode, CheckpointFlush
<1>2. CASE LeaveFastMode
  <2>1. /\ db' = SetFastSyncMode(db, FALSE) /\ m_batchFastMode' = FALSE /\ pc' = "idle"
        /\ m_batchCount' = 0 /\ m_blobs' = m_blobs /\ now' = now
    BY <1>1, <1>2 DEF LeaveFastMode
  <2>2. /\ db' \in Environment(Blocks) /\ db'.depth = 0 /\ db'.committed \in db'.survivors
        /\ NoSyncIsRemembered'
    BY <1>1, <2>1, Facts, SetDurableIs DEF NoSyncIsRemembered
  <2> QED  BY <2>1, <2>2, Facts, NoBatchIInv
<1>3. CASE CheckpointFlush
  <2>1. /\ db' = SyncToDisk(db) /\ m_batchFastMode' = m_batchFastMode /\ pc' = "idle"
        /\ m_batchCount' = 0 /\ m_blobs' = m_blobs /\ now' = now
    BY <1>1, <1>3 DEF CheckpointFlush
  <2>2. /\ db' \in Environment(Blocks) /\ db'.depth = 0 /\ db'.committed \in db'.survivors
        /\ db'.nosync = db.nosync
    BY <1>1, <2>1, Facts, SyncToDiskIs
  <2>3. NoSyncIsRemembered'
    BY <2>1, <2>2 DEF IInv, NoSyncIsRemembered
  <2> QED  BY <2>1, <2>2, <2>3, Facts, NoBatchIInv
<1> QED  BY <1>2, <1>3

LEMMA FlushBatchIInv == IInv /\ (FlushBatch \/ FlushFails) => IInv'
<1> SUFFICES ASSUME IInv, FlushBatch \/ FlushFails PROVE IInv'
  OBVIOUS
<1>1. m_batchCount' = 0 /\ m_blobs' = m_blobs /\ now' = now
  BY DEF FlushBatch, FlushFails
<1>2. PICK d \in {CommitTxn(db), AbortTxn(db)} : LeaveFastThen(d, "idle")
  BY DEF FlushBatch, FlushFails
<1>3. /\ d \in Environment(Blocks) /\ d.depth = 0 /\ d.committed \in d.survivors
      /\ d.nosync = db.nosync
  <2>1. CASE d = CommitTxn(db)
    BY <2>1, Facts, CommitTxnIs
  <2>2. CASE d = AbortTxn(db)
    BY <2>2, Facts, AbortTxnIs
  <2> QED  BY <2>1, <2>2
<1>4. /\ db' \in Environment(Blocks) /\ db'.depth = 0 /\ db'.committed \in db'.survivors
      /\ m_batchFastMode' \in BOOLEAN /\ NoSyncIsRemembered' /\ pc' \in {"idle", "thrown"}
  BY <1>2, <1>3, LeaveFastIs
<1> QED  BY <1>1, <1>4, Facts, NoBatchIInv

LEMMA ResetFailsIInv == IInv /\ ResetFails => IInv'
<1> SUFFICES ASSUME IInv, ResetFails PROVE IInv'
  OBVIOUS
<1> DEFINE d == AbortTxn(db)
<1>1. d \in Environment(Blocks) /\ d.depth = 0 /\ d.committed \in d.survivors
  BY Facts, AbortTxnIs
<1>2. /\ db' = SetFastSyncModeUnflushed(d) /\ m_batchFastMode' = m_batchFastMode
      /\ m_batchCount' = 0 /\ m_blobs' = m_blobs /\ now' = now /\ pc' = "thrown"
  BY DEF ResetFails
<1> HIDE DEF d
<1>3. /\ db' \in Environment(Blocks) /\ db'.depth = 0 /\ db'.committed \in db'.survivors
      /\ NoSyncIsRemembered'
  BY <1>1, <1>2, UnflushedIs DEF NoSyncIsRemembered
<1> QED  BY <1>2, <1>3, Facts, NoBatchIInv

LEMMA PopIInv == IInv /\ (RemoveLastBlock \/ RemoveLastBlockFails) => IInv'
<1> SUFFICES ASSUME IInv, RemoveLastBlock \/ RemoveLastBlockFails PROVE IInv'
  OBVIOUS
<1>1. /\ m_batchCount = 0 /\ m_batchCount' = 0 /\ m_batchFastMode' = m_batchFastMode
      /\ now' = now /\ pc = "idle" /\ pc' \in {"idle", "thrown"}
  BY DEF RemoveLastBlock, RemoveLastBlockFails
<1>2. db.depth \in {0, 1} /\ db.depth # 2
  BY <1>1, Facts DEF IInv, TxnCount
<1>3. m_blobs' \in Seq(Blocks)
  BY Facts, DropTipType DEF RemoveLastBlock, RemoveLastBlockFails, PopBlob
<1> DEFINE chain == DropTip(View(db))
<1>4. chain \in Seq(Blocks)
  BY Facts, ViewType, DropTipType
<1> HIDE DEF chain
<1>5. /\ db' \in Environment(Blocks) /\ db'.depth \in {0, 1} /\ db'.committed \in db'.survivors
      /\ db'.nosync = db.nosync
  <2>1. CASE db' = db
    BY <2>1, <1>2, Facts
  <2>2. CASE db' = BeginWriteTxn(db)
    BY <2>2, Facts, BeginWriteTxnIs
  <2>3. CASE db' = Put(db, chain)
    BY <2>3, <1>2, <1>4, Facts, PutOuterIs
  <2>4. CASE db' = CommitTxn(Put(BeginWriteTxn(db), chain))
    <3>1. BeginWriteTxn(db) \in Environment(Blocks) /\ BeginWriteTxn(db).depth = 1
          /\ BeginWriteTxn(db).nosync = db.nosync
      BY Facts, BeginWriteTxnIs
    <3>2. Put(BeginWriteTxn(db), chain) \in Environment(Blocks)
          /\ Put(BeginWriteTxn(db), chain).nosync = db.nosync
      BY <3>1, <1>4, PutOuterIs
    <3> QED  BY <2>4, <3>2, CommitTxnIs
  <2> QED  BY <2>1, <2>2, <2>3, <2>4 DEF RemoveLastBlock, RemoveLastBlockFails, chain
<1>6. NoSyncIsRemembered'
  BY <1>1, <1>5 DEF IInv, NoSyncIsRemembered
<1> QED  BY <1>1, <1>3, <1>5, <1>6, Facts, NoBatchIInv

LEMMA CaughtIInv == IInv /\ Caught => IInv'
<1> SUFFICES ASSUME IInv, Caught PROVE IInv'
  OBVIOUS
<1>1. /\ db' = db /\ m_batchCount' = m_batchCount /\ m_batchFastMode' = m_batchFastMode
      /\ m_blobs' = m_blobs /\ now' = now /\ pc' = "idle" /\ pc = "thrown"
  BY DEF Caught
<1>2. StateTypes'
  BY <1>1 DEF IInv, StateTypes, Steps
<1>3. TxnCount' /\ TxnContents'
  BY <1>1 DEF IInv, TxnCount, TxnContents
<1>4. BatchIsTheLoss' /\ NoSyncIsRemembered'
  BY <1>1 DEF IInv, BatchIsTheLoss, Settled, NoSyncIsRemembered
<1> QED  BY <1>2, <1>3, <1>4 DEF IInv

LEMMA ResetIInv == IInv /\ ResetAndSetGenesisBlock => IInv'
<1> SUFFICES ASSUME IInv, ResetAndSetGenesisBlock PROVE IInv'
  OBVIOUS
<1> DEFINE a == AbortTxn(db)
           d == IF HasActiveTxn(db) /\ m_batchFastMode THEN SetFastSyncMode(a, FALSE) ELSE a
<1>1. /\ db' = CommitTxn(Put(BeginWriteTxn(d), <<>>))
      /\ m_batchCount' = 0 /\ m_batchFastMode' = (m_batchFastMode /\ ~HasActiveTxn(db))
      /\ m_blobs' = <<>> /\ pc' = "genesis" /\ now' = now
  BY DEF ResetAndSetGenesisBlock
<1>2. a \in Environment(Blocks) /\ a.nosync = db.nosync
  BY Facts, AbortTxnIs
<1>3. d \in Environment(Blocks) /\ (d.nosync => m_batchFastMode')
  <2>1. CASE HasActiveTxn(db) /\ m_batchFastMode
    BY <2>1, <1>2, SetDurableIs
  <2>2. CASE ~(HasActiveTxn(db) /\ m_batchFastMode)
    BY <2>2, <1>1, <1>2 DEF IInv, NoSyncIsRemembered
  <2> QED  BY <2>1, <2>2
<1> HIDE DEF d
<1>4. BeginWriteTxn(d) \in Environment(Blocks) /\ BeginWriteTxn(d).depth = 1
      /\ BeginWriteTxn(d).nosync = d.nosync
  BY <1>3, BeginWriteTxnIs
<1>5. Put(BeginWriteTxn(d), <<>>) \in Environment(Blocks)
      /\ Put(BeginWriteTxn(d), <<>>).nosync = d.nosync
  <2> DEFINE none == <<>>
             e    == BeginWriteTxn(d)
  <2>1. none \in Seq(Blocks) /\ e \in Environment(Blocks) /\ e.depth # 2 /\ e.nosync = d.nosync
    BY <1>4, EmptyChain
  <2> HIDE DEF none, e
  <2>2. Put(e, none) \in Environment(Blocks) /\ Put(e, none).nosync = d.nosync
    BY <2>1, PutOuterIs
  <2> QED  BY <2>2 DEF none, e
<1>6. /\ db' \in Environment(Blocks) /\ db'.depth = 0 /\ db'.committed \in db'.survivors
      /\ db'.nosync = d.nosync
  BY <1>1, <1>5, CommitTxnIs
<1>7. m_batchFastMode' \in BOOLEAN /\ NoSyncIsRemembered'
  BY <1>1, <1>3, <1>6 DEF NoSyncIsRemembered
<1> QED  BY <1>1, <1>6, <1>7, EmptyChain, Facts, NoBatchIInv

LEMMA DownIInv == IInv /\ (Deinit \/ Crash \/ PowerLoss) => IInv'
<1> SUFFICES ASSUME IInv, Deinit \/ Crash \/ PowerLoss PROVE IInv'
  OBVIOUS
<1>1. /\ m_batchCount' = 0 /\ m_batchFastMode' = FALSE /\ m_blobs' = <<>> /\ pc' = "down"
      /\ now' = now
  BY DEF Deinit, Crash, PowerLoss, Gone
<1>2. /\ db' \in Environment(Blocks) /\ db'.depth = 0 /\ db'.committed \in db'.survivors
      /\ db'.nosync = FALSE
  <2>1. CASE Deinit \/ Crash
    <3>1. db' = ProcessCrash(db)
      BY <2>1 DEF Deinit, Crash
    <3> QED  BY <3>1, Facts, ProcessCrashIs
  <2>2. CASE PowerLoss
    <3>1. PICK chain \in db.survivors \cup {<<>>} : db' = SystemCrash(db, chain)
      BY <2>2 DEF PowerLoss
    <3>2. chain \in Seq(Blocks)
      BY Facts, EmptyChain
    <3>3. db \in Environment(Blocks)
      BY Facts
    <3> DEFINE e == SystemCrash(db, chain)
    <3>4. /\ e \in Environment(Blocks) /\ e.depth = 0 /\ e.committed = chain
          /\ e.survivors = {chain} /\ e.nosync = FALSE
      BY <3>2, <3>3, SystemCrashIs
    <3> HIDE DEF e
    <3>5. db' = e
      BY <3>1 DEF e
    <3> QED  BY <3>4, <3>5
  <2> QED  BY <2>1, <2>2
<1>3. NoSyncIsRemembered'
  BY <1>2 DEF NoSyncIsRemembered
<1> QED  BY <1>1, <1>2, <1>3, EmptyChain, Facts, NoBatchIInv

LEMMA TickIInv == IInv /\ (Tick \/ UNCHANGED vars) => IInv'
<1> SUFFICES ASSUME IInv, Tick \/ UNCHANGED vars PROVE IInv'
  OBVIOUS
<1>1. /\ db' = db /\ m_batchCount' = m_batchCount /\ m_batchFastMode' = m_batchFastMode
      /\ m_blobs' = m_blobs /\ pc' = pc
  BY DEF Tick, vars
<1>2. now' \in 0 .. MaxNow
  BY Facts, ConstantsAssumption DEF Tick, vars
<1>3. StateTypes'
  BY <1>1, <1>2 DEF IInv, StateTypes
<1>4. TxnCount' /\ TxnContents' /\ BatchIsTheLoss' /\ NoSyncIsRemembered'
  BY <1>1 DEF IInv, TxnCount, TxnContents, BatchIsTheLoss, Settled, NoSyncIsRemembered
<1> QED  BY <1>3, <1>4 DEF IInv

LEMMA NextIInv == IInv /\ [Next]_vars => IInv'
BY StartIInv, BeginBlockIInv, BeginBlockAssertsIInv, WriteBlockIInv, RejectBlockIInv,
   CommitBlockIInv, FlushStepsIInv, AbortBatchIInv, FlushBatchIInv, PopIInv, CaughtIInv,
   ResetIInv, ResetFailsIInv, DownIInv, TickIInv
   DEF Next, PushFails, SyncFails

---------------------------------------------------------------------------
(* The theorems *)

\* The inductive invariant holds in every reachable state of the storage.
THEOREM StoreInvariant == Spec => []IInv
<1>1. Init => IInv
  BY InitIInv
<1>2. IInv /\ [Next]_vars => IInv'
  BY NextIInv
<1> QED  BY <1>1, <1>2, PTL DEF Spec

\* The variables of the storage keep their types and bounds: the batch counter never reaches
\* BATCH_SIZE between operations, and never are more than two transactions open.
THEOREM StoreTypes == Spec => []TypeOK
<1> DEFINE FailedType == failed \subseteq Uncovered
<1>1. Init => FailedType
  BY DEF Init
<1>2. FailedType /\ [Next]_vars => FailedType'
  BY DEF Uncovered, Next, vars, Start, BeginBlock, BeginBlockAsserts, WriteBlock, RejectBlock,
         CommitBlock, LeaveFastMode, CheckpointFlush, PushFails, SyncFails, AbortBatch,
         FlushBatch, FlushFails, RemoveLastBlock, RemoveLastBlockFails, Caught,
         ResetAndSetGenesisBlock, ResetFails, Deinit, Crash, PowerLoss, Gone, Tick
<1>3. IInv /\ FailedType => TypeOK
  BY DEF IInv, TypeOK
<1> QED  BY <1>1, <1>2, <1>3, StoreInvariant, PTL DEF Spec

\* What an abort or a crash of the process takes away is exactly the open batch, whatever
\* LMDB calls fail (commitBatchOrBlock, abortEntireBatchTxn, flushBatch).
THEOREM StoreLosesOnlyTheBatch == Spec => []BatchIsTheLoss
<1>1. IInv => BatchIsTheLoss
  BY DEF IInv
<1> QED  BY <1>1, StoreInvariant, PTL

\* MDB_NOSYNC is never left set without m_batchFastMode remembering it.
THEOREM StoreRemembersNoSync == Spec => []NoSyncIsRemembered
<1>1. IInv => NoSyncIsRemembered
  BY DEF IInv
<1> QED  BY <1>1, StoreInvariant, PTL
=============================================================================
