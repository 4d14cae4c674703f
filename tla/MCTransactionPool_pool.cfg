SPECIFICATION LiveSpec
CONSTANTS
  Txs <- TwoTxs
  Images = {"k1", "k2"}
  Inputs <- TwoInputs
  Priority <- TwoPriority
  Blocks <- TwoBlocks
  Genesis = "g"
  Parent <- TwoParent
  TxsOf <- TwoTxsOf
  Uses <- TwoUses
  LiveTime = 1
  AltLiveTime = 2
  Periods = 2
  Modulus = 16
  MaxTime = 5
  LastArrival = 2
INVARIANTS
  TypeOK
  KeyImagesIndexed
  OneNotKept
  TemplateHasNoConflict
PROPERTIES
  DeletionIsDated
  
  LeavesPool
CHECK_DEADLOCK FALSE
