SPECIFICATION LiveSpec
CONSTANTS
  Blocks <- ForkBlocks
  Genesis = "g"
  Parent <- ForkParent
  Height <- ForkHeight
  CumDifficulty <- ForkWork
  Txs <- ForkTxs
  TxsOf <- ForkTxsOf
  KeyImages <- ForkKeyImages
  Uses <- ForkUses
  Unsound = {}
  BatchSize = 3
  Network <- ForkNetwork
  Faults = {"push"}
  MaxFaults = 1
  m_points <- NoCheckpoints
  m_reject_deep_reorg_depth = 0
  Width = 8
PROPERTY
  Resyncs
CHECK_DEADLOCK FALSE
