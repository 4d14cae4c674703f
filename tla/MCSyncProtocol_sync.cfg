SPECIFICATION Spec
CONSTANTS
  p = p
  q = q
  Conns <- Peers
  Blocks <- TreeBlocks
  Genesis = "g"
  ChainOf <- TreeChainOf
  CumDifficulty <- TreeWork
  Batch = 2
  IdsCount = 10
  None = None
  PeerTips = {"a2"}
  Mined = {"b1"}
  Unasked = {"new_lite_block", "new_transactions", "timed_sync"}
  MaxLink = 1
  MaxCuts = 0
INVARIANTS
  TypeOK
  OneExchange
  FetchListsMatch
  
PROPERTIES
  SynchronizedHasAll
SYMMETRY PeersAlike
