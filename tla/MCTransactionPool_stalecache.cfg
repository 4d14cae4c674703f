SPECIFICATION Spec
CONSTANTS
  Txs <- SomeTxs
  Images = {"k1", "k2"}
  Inputs <- SomeInputs
  Priority <- SomePriority
  Blocks <- SomeBlocks
  Genesis = "g"
  Parent <- SomeParent
  TxsOf <- SomeTxsOf
  Uses <- SomeUses
  LiveTime = 1
  AltLiveTime = 2
  Periods = 2
  Modulus = 16
  MaxTime = 0
  LastArrival = 0
PROPERTY
  TemplateIsUnspent
CHECK_DEADLOCK FALSE
