----------------------------- MODULE ChainStore -----------------------------
(***************************************************************************)
(* How class Blockchain keeps the main chain in LMDB.  While the node is   *)
(* syncing (its tip is more than SyncLag old) up to BatchSize blocks share *)
(* one top-level write transaction, each written in a nested one, and the  *)
(* environment runs with MDB_NOSYNC; live blocks are committed one by one  *)
(* and must be durable.  Beside the database the class keeps m_blobs, the  *)
(* hashing blobs of the chain, indexed by height.                          *)
(*                                                                         *)
(* m_blockchain_lock serialises the operations, so they interleave only    *)
(* with the clock, with failing LMDB calls (the set Faults) and with       *)
(* crashes; the steps below are cut where a crash or a failure can tell.   *)
(***************************************************************************)
EXTENDS LmdbEnv

CONSTANTS
  Blocks,     \* all the blocks there are
  Genesis,    \* currency.genesisBlock()
  Timestamp,  \* Timestamp[b]: the time block b carries
  SyncLag,    \* isSyncing(): a tip older than this means "syncing" (3600 s)
  BatchSize,  \* BATCH_SIZE, blocks per write transaction while syncing
  MaxNow,     \* bound on the clock
  MaxStale,   \* bound on the blobs of dropped blocks that pile up
  Faults,     \* the LMDB failures that may happen
  Ordered     \* the file system keeps the order of writes

ASSUME ConstantsAssumption ==
  /\ Genesis \in Blocks
  /\ Timestamp \in [Blocks -> Nat]
  /\ SyncLag \in Nat /\ MaxNow \in Nat /\ MaxStale \in Nat
  /\ BatchSize \in Nat \ {0}
  /\ Faults \subseteq {"push", "flush", "popWrite", "popCommit", "sync", "reset"}
  /\ Ordered \in BOOLEAN

VARIABLES
  db,          \* m_db, the LMDB environment
  m_batchCount,
  m_batchFastMode,
  m_blobs,
  pc,          \* how far the current operation is
  now,         \* time(nullptr)
  failed       \* (history) the failures no clean-up covers, since the process started

vars == <<db, m_batchCount, m_batchFastMode, m_blobs, pc, now, failed>>

Uncovered == {"popWrite", "flush", "reset"}

\* "down": no process; "genesis": init or a reset is about to push the genesis block;
\* "begun", "written": inside pushBlock; "leaveFast", "checkpoint": committed, about to
\* flush; "thrown": an exception leaves the class; "stuck": a transaction assertion failed.
Steps == {"down", "genesis", "idle", "begun", "written", "leaveFast", "checkpoint",
          "thrown", "stuck"}

IsSyncing(chain) == chain # <<>> /\ now > Timestamp[Tip(chain)] + SyncLag

\* The chain between two operations: the batch's when one is open, else the committed one.
Settled == IF m_batchCount = 0 \/ ~HasActiveTxn(db) THEN db.committed ELSE db.outer

Init ==
  /\ db = EmptyEnv
  /\ m_batchCount = 0 /\ m_batchFastMode = FALSE
  /\ m_blobs = <<>>
  /\ pc = "down"
  /\ now = 0
  /\ failed = {}

\* init(): m_blobs is reloaded from the database, an empty database gets the genesis block.
Start ==
  /\ pc = "down"
  /\ m_blobs' = db.committed
  /\ pc' = IF db.committed = <<>> THEN "genesis" ELSE "idle"
  /\ UNCHANGED <<db, m_batchCount, m_batchFastMode, now, failed>>

\* The part of beginBatchIfNeeded that fixes the mode of a new batch.
WithMode(d, fast) ==
  IF m_batchFastMode /\ ~fast THEN SetFastSyncMode(d, FALSE)
  ELSE IF ~m_batchFastMode /\ fast THEN SetFastSyncMode(d, TRUE) ELSE d

\* pushBlock up to its first write: beginBatchIfNeeded, then a nested transaction
\* when the batch already holds blocks.
BeginBlock ==
  /\ pc \in {"idle", "genesis"}
  /\ \/ /\ m_batchCount > 0
        /\ db' = BeginNestedWriteTxn(db)
        /\ UNCHANGED m_batchFastMode
     \/ /\ m_batchCount = 0 /\ MayBeginWriteTxn(db)
        /\ LET fast == IsSyncing(View(db))
           IN  /\ db' = BeginWriteTxn(WithMode(db, fast))
               /\ m_batchFastMode' = fast
  /\ pc' = "begun"
  /\ UNCHANGED <<m_batchCount, m_blobs, now, failed>>

\* beginBatchIfNeeded with a transaction left open: growMapIfNeeded asserts.
BeginBlockAsserts ==
  /\ pc \in {"idle", "genesis"} /\ m_batchCount = 0 /\ ~MayBeginWriteTxn(db)
  /\ pc' = "stuck"
  /\ UNCHANGED <<db, m_batchCount, m_batchFastMode, m_blobs, now, failed>>

\* The block passed its checks: its transactions, its tables and its blob are written.
WriteBlock(b) ==
  /\ pc = "begun"
  /\ b \notin BlocksOf(View(db))
  /\ (b = Genesis) <=> (View(db) = <<>>)
  /\ db' = Put(db, Append(View(db), b))
  /\ m_blobs' = Append(m_blobs, b)
  /\ pc' = "written"
  /\ UNCHANGED <<m_batchCount, m_batchFastMode, now, failed>>

\* trimBlobsToActiveChain
TrimBlobs(chain) == CutTo(m_blobs, Len(chain))

\* Mutant: a rejected block leaves the transaction beginBatchIfNeeded opened for it.
RejectBlockKeepsTxn ==
  /\ pc = "begun"
  /\ db' = IF HasNestedTxn(db) THEN AbortNestedWriteTxn(db) ELSE db
  /\ m_blobs' = TrimBlobs(View(db'))
  /\ pc' = "idle"
  /\ UNCHANGED <<m_batchCount, m_batchFastMode, now, failed>>

\* abortCurrentBlockTxn: a check failed, the block's own transaction is dropped.
RejectBlock ==
  /\ pc = "begun"
  /\ db' = IF HasNestedTxn(db) THEN AbortNestedWriteTxn(db)
           ELSE IF m_batchCount = 0 THEN AbortTxn(db) ELSE db
  /\ m_blobs' = TrimBlobs(View(db'))
  /\ pc' = "idle"
  /\ UNCHANGED <<m_batchCount, m_batchFastMode, now, failed>>

\* Mutant: the batch is committed one block late.
CommitBlockLate ==
  /\ pc = "written"
  /\ LET d       == IF HasNestedTxn(db) THEN CommitNestedWriteTxn(db) ELSE db
         syncing == IsSyncing(View(d))
     IN  IF Len(View(d)) = 1 \/ ~syncing \/ m_batchCount + 1 > BatchSize
           THEN /\ db' = CommitTxn(d)
                /\ m_batchCount' = 0
                /\ pc' = IF ~m_batchFastMode THEN "idle"
                         ELSE IF syncing THEN "checkpoint" ELSE "leaveFast"
           ELSE /\ db' = d
                /\ m_batchCount' = m_batchCount + 1
                /\ pc' = "idle"
  /\ UNCHANGED <<m_batchFastMode, m_blobs, now, failed>>

\* commitNestedWriteTxn, then commitBatchOrBlock up to the commit.
CommitBlock ==
  /\ pc = "written"
  /\ LET d       == IF HasNestedTxn(db) THEN CommitNestedWriteTxn(db) ELSE db
         syncing == IsSyncing(View(d))
         force   == Len(View(d)) = 1
     IN  IF force \/ ~syncing \/ m_batchCount + 1 >= BatchSize
           THEN /\ db' = CommitTxn(d)
                /\ m_batchCount' = 0
                /\ pc' = IF ~m_batchFastMode THEN "idle"
                         ELSE IF syncing THEN "checkpoint" ELSE "leaveFast"
           ELSE /\ db' = d
                /\ m_batchCount' = m_batchCount + 1
                /\ pc' = "idle"
  /\ UNCHANGED <<m_batchFastMode, m_blobs, now, failed>>

\* Mutant: the flag is cleared, the pages written without it are not flushed.
LeaveFastModeUnflushed ==
  /\ pc = "leaveFast"
  /\ db' = SetFastSyncModeUnflushed(db)
  /\ m_batchFastMode' = FALSE
  /\ pc' = "idle"
  /\ UNCHANGED <<m_batchCount, m_blobs, now, failed>>

\* The rest of commitBatchOrBlock: back to durable commits at the tip ...
LeaveFastMode ==
  /\ pc = "leaveFast"
  /\ db' = SetFastSyncMode(db, FALSE)
  /\ m_batchFastMode' = FALSE
  /\ pc' = "idle"
  /\ UNCHANGED <<m_batchCount, m_blobs, now, failed>>

\* ... or a flush that keeps MDB_NOSYNC for the next batch.
CheckpointFlush ==
  /\ pc = "checkpoint"
  /\ db' = SyncToDisk(db)
  /\ pc' = "idle"
  /\ UNCHANGED <<m_batchCount, m_batchFastMode, m_blobs, now, failed>>

\* setFastSyncMode(false) if the batch was fast, in state d of the database, and then the
\* step next; its flush may fail, and then the exception leaves the class.
LeaveFastThen(d, next) ==
  \/ /\ db' = IF m_batchFastMode THEN SetFastSyncMode(d, FALSE) ELSE d
     /\ m_batchFastMode' = FALSE
     /\ pc' = next
  \/ /\ "sync" \in Faults /\ m_batchFastMode
     /\ db' = SetFastSyncModeUnflushed(d)
     /\ pc' = "thrown"
     /\ UNCHANGED m_batchFastMode

\* Mutants of the catch blocks: the count survives the batch; the blobs do; the flag does.
AbortBatchKeepsCount ==
  /\ LeaveFastThen(AbortTxn(db), "idle")
  /\ m_blobs' = TrimBlobs(db.committed)
  /\ UNCHANGED <<m_batchCount, now, failed>>

AbortBatchKeepsBlobs ==
  /\ LeaveFastThen(AbortTxn(db), "idle")
  /\ m_batchCount' = 0
  /\ UNCHANGED <<m_blobs, now, failed>>

AbortBatchKeepsNoSync ==
  /\ db' = AbortTxn(db)
  /\ m_batchCount' = 0
  /\ m_batchFastMode' = FALSE
  /\ m_blobs' = TrimBlobs(db.committed)
  /\ pc' = "idle"
  /\ UNCHANGED <<now, failed>>

\* The catch blocks of pushBlock: the whole batch is aborted and the mode reset.
AbortBatch ==
  /\ LeaveFastThen(AbortTxn(db), "idle")
  /\ m_batchCount' = 0
  /\ m_blobs' = TrimBlobs(db.committed)
  /\ UNCHANGED <<now, failed>>

\* A put, the nested commit or the commit of the batch failed (map full, I/O error).
PushFails == "push" \in Faults /\ pc \in {"begun", "written"} /\ AbortBatch

\* A flush inside pushBlock failed: the one after a commit, or the one of a
\* beginBatchIfNeeded that leaves the fast mode.
SyncFails ==
  /\ "sync" \in Faults
  /\ \/ pc \in {"leaveFast", "checkpoint"}
     \/ /\ pc \in {"idle", "genesis"} /\ m_batchCount = 0 /\ MayBeginWriteTxn(db)
        /\ m_batchFastMode /\ ~IsSyncing(View(db))
  /\ AbortBatch

\* flushBatch
FlushBatch ==
  /\ pc = "idle" /\ m_batchCount > 0
  /\ LeaveFastThen(CommitTxn(db), "idle")
  /\ m_batchCount' = 0
  /\ UNCHANGED <<m_blobs, now, failed>>

\* flushBatch when the commit fails: the batch is dropped, m_blobs is not trimmed.
\* (Bound: no more of these once MaxStale blobs of dropped blocks have piled up.)
FlushFails ==
  /\ "flush" \in Faults
  /\ pc = "idle" /\ m_batchCount > 0
  /\ Len(m_blobs) <= Len(db.outer) + MaxStale
  /\ LeaveFastThen(AbortTxn(db), "idle")
  /\ m_batchCount' = 0
  /\ failed' = failed \cup {"flush"}
  /\ UNCHANGED <<m_blobs, now>>

PopBlob == IF m_blobs = <<>> THEN m_blobs ELSE DropTip(m_blobs)

\* Mutant: the block is removed from the transaction of an open batch as well, which is
\* what happens when a caller forgets to flush.
RemoveLastBlockUnflushed ==
  /\ pc = "idle"
  /\ Len(View(db)) > 1
  /\ db' = IF HasActiveTxn(db) THEN Put(db, DropTip(View(db)))
           ELSE CommitTxn(Put(BeginWriteTxn(db), DropTip(View(db))))
  /\ m_blobs' = PopBlob
  /\ UNCHANGED <<m_batchCount, m_batchFastMode, pc, now, failed>>

\* removeLastBlock, from popBlock or rollbackBlockchainTo; every caller flushes the batch
\* first.  It commits a transaction of its own unless one is open.
RemoveLastBlock ==
  /\ pc = "idle" /\ m_batchCount = 0
  /\ Len(View(db)) > 1
  /\ db' = IF HasActiveTxn(db) THEN Put(db, DropTip(View(db)))
           ELSE CommitTxn(Put(BeginWriteTxn(db), DropTip(View(db))))
  /\ m_blobs' = PopBlob
  /\ UNCHANGED <<m_batchCount, m_batchFastMode, pc, now, failed>>

\* removeLastBlock throws from a delete: nothing aborts its transaction.
RemoveLastBlockFails ==
  /\ pc = "idle" /\ m_batchCount = 0
  /\ Len(View(db)) > 1
  /\ \/ /\ "popWrite" \in Faults
        /\ db' = IF HasActiveTxn(db) THEN db ELSE BeginWriteTxn(db)
        /\ failed' = failed \cup {"popWrite"}
     \/ /\ "popCommit" \in Faults /\ ~HasActiveTxn(db)
        /\ UNCHANGED <<db, failed>>
  /\ pc' = "thrown"
  /\ UNCHANGED <<m_batchCount, m_batchFastMode, m_blobs, now>>

\* The caller of the class drops the exception with the request that caused it.
Caught ==
  /\ pc = "thrown"
  /\ pc' = "idle"
  /\ UNCHANGED <<db, m_batchCount, m_batchFastMode, m_blobs, now, failed>>

\* resetAndSetGenesisBlock up to its addNewBlock.
ResetAndSetGenesisBlock ==
  /\ pc = "idle"
  /\ LET d == IF HasActiveTxn(db) /\ m_batchFastMode
                THEN SetFastSyncMode(AbortTxn(db), FALSE) ELSE AbortTxn(db)
     IN  db' = CommitTxn(Put(BeginWriteTxn(d), <<>>))
  /\ m_batchCount' = 0
  /\ m_batchFastMode' = (m_batchFastMode /\ ~HasActiveTxn(db))
  /\ m_blobs' = <<>>
  /\ pc' = "genesis"
  /\ failed' = {}
  /\ UNCHANGED now

\* The flush of resetAndSetGenesisBlock fails: it throws before it clears anything.
ResetFails ==
  /\ "reset" \in Faults
  /\ pc = "idle" /\ HasActiveTxn(db) /\ m_batchFastMode
  /\ Len(m_blobs) <= Len(db.outer) + MaxStale
  /\ db' = SetFastSyncModeUnflushed(AbortTxn(db))
  /\ m_batchCount' = 0
  /\ pc' = "thrown"
  /\ failed' = failed \cup {"reset"}
  /\ UNCHANGED <<m_batchFastMode, m_blobs, now>>

\* The memory of the process is gone.
Gone ==
  /\ m_batchCount' = 0 /\ m_batchFastMode' = FALSE
  /\ m_blobs' = <<>>
  /\ pc' = "down"
  /\ failed' = {}

\* deinit, then close(); a batch is flushed by a FlushBatch step before it.
Deinit ==
  /\ pc = "idle" /\ m_batchCount = 0
  /\ db' = ProcessCrash(db)
  /\ Gone
  /\ UNCHANGED now

\* The process dies (the system does not): what was committed stays.
Crash ==
  /\ pc # "down"
  /\ db' = ProcessCrash(db)
  /\ Gone
  /\ UNCHANGED now

\* The system dies: one of the survivors is left.  When unflushed writes may have
\* reached the disk out of order, opening the environment can fail; init() then
\* salvages a copy or rebuilds the database from nothing.
PowerLoss ==
  /\ \E chain \in db.survivors
       \cup (IF Ordered \/ (~db.nosync /\ db.survivors = {db.committed}) THEN {} ELSE {<<>>}) :
       db' = SystemCrash(db, chain)
  /\ Gone
  /\ UNCHANGED now

Tick ==
  /\ now < MaxNow
  /\ now' = now + 1
  /\ UNCHANGED <<db, m_batchCount, m_batchFastMode, m_blobs, pc, failed>>

Next ==
  \/ Start \/ BeginBlock \/ BeginBlockAsserts
  \/ \E b \in Blocks : WriteBlock(b)
  \/ RejectBlock \/ CommitBlock \/ LeaveFastMode \/ CheckpointFlush
  \/ PushFails \/ SyncFails
  \/ FlushBatch \/ FlushFails
  \/ RemoveLastBlock \/ RemoveLastBlockFails \/ Caught
  \/ ResetAndSetGenesisBlock \/ ResetFails \/ Deinit \/ Crash \/ PowerLoss \/ Tick

Spec == Init /\ [][Next]_vars

---------------------------------------------------------------------------
(* Properties *)

\* The types of the variables of the code.
StateTypes ==
  /\ db \in Environment(Blocks)
  /\ m_batchCount \in 0 .. BatchSize - 1
  /\ m_batchFastMode \in BOOLEAN
  /\ m_blobs \in Seq(Blocks)
  /\ pc \in Steps
  /\ now \in 0 .. MaxNow

\* Types, with the bounds the code relies on: a batch that stays open holds fewer than
\* BATCH_SIZE blocks, and there is at most one nested transaction (commitBatchOrBlock,
\* beginNestedWriteTxn).
TypeOK == StateTypes /\ failed \subseteq Uncovered

\* What an abort or a crash of the process takes away is exactly the open batch: the
\* committed chain is the settled one without its last m_batchCount blocks, and a system
\* crash can still leave it (commitBatchOrBlock, abortEntireBatchTxn, flushBatch).
BatchIsTheLoss ==
  /\ StartsWith(Settled, db.committed)
  /\ Len(Settled) = Len(db.committed) + m_batchCount
  /\ db.committed \in db.survivors

\* Between operations a transaction is open exactly while a batch is, and inside pushBlock
\* a nested one exactly then.
TxnsBalanced ==
  /\ pc # "stuck"
  /\ pc \in {"idle", "genesis", "thrown"} => (HasActiveTxn(db) <=> m_batchCount > 0)
  /\ pc \in {"begun", "written"} => db.depth = IF m_batchCount > 0 THEN 2 ELSE 1
  /\ pc \in {"leaveFast", "checkpoint", "down"} => ~HasActiveTxn(db)

\* The assertions of beginWriteTxn, beginNestedWriteTxn, commitTxn and growMapIfNeeded
\* hold wherever Blockchain makes those calls, whatever has failed, unless a delete of
\* removeLastBlock threw since the process started or the chain was reset.
TxnDiscipline == "popWrite" \notin failed => TxnsBalanced

\* No transaction assertion of LMDBBlockchainDB ever fires.
AssertionsHold == pc # "stuck"

\* m_blobs holds the hashing blob of the block at each height of the chain the next block
\* builds on: getBlockLongHash reads m_blobs[height] for it.
BlobsFollow == pc # "down" => m_blobs = View(db)

\* m_blobs follows the chain through every failure that pushBlock and removeLastBlock
\* clean up after: all but a throwing delete, a failed commit of flushBatch and a failed
\* flush of resetAndSetGenesisBlock.
BlobsMatchChain == failed = {} => BlobsFollow

\* MDB_NOSYNC is set only while m_batchFastMode remembers to clear it, and a batch opened
\* in the durable mode stays durable (beginBatchIfNeeded, the catch blocks).
NoSyncIsRemembered == db.nosync => m_batchFastMode

\* "each live commit must be fully durable": when pushBlock has added a block and the chain
\* is not behind, a crash of the system leaves nothing but the chain with that block.
LiveBlockIsDurable ==
  [][(/\ pc \in {"written", "leaveFast", "checkpoint"} /\ pc' = "idle"
      /\ View(db)' = View(db)
      /\ ~IsSyncing(View(db))') => db'.survivors = {View(db)'}]_vars

\* The storage implements the abstract log: whatever fails, the settled chain only grows by
\* one block, shrinks by one committed block, is reset, or falls back to the last commit.
Log == INSTANCE ChainLog WITH
  Window <- BatchSize, chain <- Settled, saved <- db.committed, durable <- db.survivors

ImplementsLog == Log!LogSpec
=============================================================================
