SPECIFICATION Spec
CONSTANTS
  g = g
  o1 = o1
  o2 = o2
  f1 = f1
  Blocks <- MCBlocks
  Genesis = g
  Timestamp <- MCTimestamp
  SyncLag = 1
  BatchSize = 2
  MaxStale = 0
  MaxNow = 5
  Faults = {"popWrite"}
  Ordered = TRUE
INVARIANT AssertionsHold
