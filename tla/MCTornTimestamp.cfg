SPECIFICATION Spec
CONSTANTS
  Wrap = 7
  syncInterval = 3
  Minute = 3
  Fields = {"minute", "second"}
  Epoch = 100
  Kiss = 200
  MaxDelay = 2
  MaxResolve = 1
  MaxTime = 16
  MaxRequests = 1
  MaxKisses = 0
INVARIANTS
  TimestampWasShown
CHECK_DEADLOCK FALSE
