SPECIFICATION LiveSpec
CONSTANTS
  b1 = b1  b2 = b2  d1 = d1  d2 = d2
  MaxRequests = 2
  MaxHandlers = 2
  Brokers = {b1, b2}
  Deliveries = {d1, d2}
  Owner <- MCOwner
  Gateways = {b1}
  Verdicts <- MCVerdicts
  ActionBytes = 3
  QueueDepth = 2
  BatchMax = 2
  MaxRepeats = 1
  None = None
INVARIANTS
  ActionLedger AckKept CompletionSpreads OnlyAcked
PROPERTIES
  GoesQuiet
CHECK_DEADLOCK FALSE
