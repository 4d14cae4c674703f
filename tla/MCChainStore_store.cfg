SPECIFICATION Spec
CONSTANTS
  g = g
  o1 = o1
  o2 = o2
  f1 = f1
  Blocks <- MCBlocks
  Genesis = g
  Timestamp <- MCTimestamp
  SyncLag = 1
  BatchSize = 2
  MaxStale = 0
  MaxNow = 3
  Faults = {"push", "flush", "popWrite", "popCommit", "sync", "reset"}
  Ordered = FALSE
INVARIANT TypeOK
INVARIANT BatchIsTheLoss
INVARIANT TxnDiscipline
INVARIANT BlobsMatchChain
INVARIANT NoSyncIsRemembered
PROPERTY LiveBlockIsDurable
PROPERTY ImplementsLog
