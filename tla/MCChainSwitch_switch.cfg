SPECIFICATION Spec
CONSTANTS
  Blocks <- TreeBlocks
  Genesis = "g"
  Parent <- TreeParent
  Height <- TreeHeight
  CumDifficulty <- TreeWork
  Txs <- TreeTxs
  TxsOf <- TreeTxsOf
  KeyImages <- TreeKeyImages
  Uses <- TreeUses
  Unsound <- TreeUnsound
  BatchSize = 3
  Network <- TreeNetwork
  Faults = {"push", "sync", "flush", "throw", "crash"}
  MaxFaults = 1
  m_points <- NoCheckpoints
  m_reject_deep_reorg_depth = 0
  Width = 8
INVARIANTS
  TypeOK
  MainIsConsistent
  SwitchShape
  PoolBesideChain
  AltsBesideChain
  MessagesTellTheChain
PROPERTIES
  SwitchAllOrNothing
  MoreWorkWins
  NoTransactionLost
CHECK_DEADLOCK FALSE
