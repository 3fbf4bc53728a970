SPECIFICATION Spec
CONSTANTS
  Batches <- MCBatches
  Local <- MCLocal
  OnePeer <- MCOnePeer
  Available <- MCAvailable
  CacheMax = 3
  ReorderMax = 2
  QueueDepth = 1
  QueueBytes = 3
  PageBytes = 2
  MaxTries = 2
  MaxFaults = 1
INVARIANTS
  MemoryBounded
CHECK_DEADLOCK FALSE
