SPECIFICATION Spec
CONSTANTS
  MaxMessages = 3
  SubWindow = 1
  ChanCap = 1
  DeferredCap = 1
  MaxAttempts = 2
INVARIANTS
  NoSilentSkip
CHECK_DEADLOCK FALSE
