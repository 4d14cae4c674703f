SPECIFICATION LiveSpec
CONSTANTS
  Blocks <- TreeBlocks
  Genesis = "g"
  Parent <- TreeParent
  Height <- TreeHeight
  CumDifficulty <- LightWork
  Txs <- TreeTxs
  TxsOf <- TreeTxsOf
  KeyImages <- TreeKeyImages
  Uses <- TreeUses
  Unsound <- TreeUnsound
  BatchSize = 3
  Network <- TreeNetwork
  Faults = {}
  MaxFaults = 0
  m_points <- OneCheckpoint
  m_reject_deep_reorg_depth = 0
  Width = 8
PROPERTY
  CheckpointReached
CHECK_DEADLOCK FALSE
