SPECIFICATION Spec
CONSTANTS
  p = p
  q = q
  Conns <- Peers
  Blocks <- TreeBlocks
  Genesis = "g"
  ChainOf <- TreeChainOf
  CumDifficulty <- TreeWork
  Batch = 2
  IdsCount = 10
  None = None
  PeerTips = {"a2", "a3"}
  Mined = {}
  Unasked = {"new_block"}
  MaxLink = 1
  MaxCuts = 0
INVARIANTS
  RequestsNameObjects
