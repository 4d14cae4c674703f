SPECIFICATION LiveSpec
CONSTANTS
  Blocks <- EarlyBlocks
  Genesis = "g"
  Parent <- EarlyParent
  Height <- EarlyHeight
  CumDifficulty <- EarlyWork
  Txs <- EarlyTxs
  TxsOf <- EarlyTxsOf
  KeyImages <- TreeKeyImages
  Uses <- EarlyUses
  Unsound = {}
  BatchSize = 1
  Network <- TreeNetwork
  Faults = {"push", "sync", "crash"}
  MaxFaults = 1
  m_points <- OneCheckpoint
  m_reject_deep_reorg_depth = 0
  Width = 8
INVARIANT
  MainIsConsistent
PROPERTY
  Resyncs
CHECK_DEADLOCK FALSE
