SPECIFICATION LiveSpec
CONSTANTS
  p1 = p1  p2 = p2  p3 = p3  k1 = k1  a = a  b = b
  Publishers = {p1, p2, p3}
  Flushers = {}
  Closers = {k1}
  Closing = Closing
  Class <- MCClass
  Cancellable = {p1, k1}
  MaxMessages = 2
  QueueDepth = 1
  None = None
  Failed = Failed
  Cancelled = Cancelled
  Closed = Closed
  Flushed = Flushed
INVARIANTS
  SlotLedger FlushCovers NoneStranded
PROPERTIES
  KeepsPromise AllReturn
CHECK_DEADLOCK FALSE
