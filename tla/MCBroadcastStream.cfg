SPECIFICATION LiveSpec
CONSTANTS
  MaxMessages = 3
  SubWindow = 3
  ChanCap = 3
  DeferredCap = 3
  MaxAttempts = 2
CONSTRAINT MCBound
INVARIANTS
  StreamBounded CursorCovers NoSilentSkip
PROPERTIES
  EventuallyProcessed
CHECK_DEADLOCK FALSE
