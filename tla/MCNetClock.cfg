SPECIFICATION FairSpec
CONSTANTS
  Wrap = 7
  syncInterval = 3
  Minute = 3
  Fields = {"second"}
  Epoch = 100
  Kiss = 200
  MaxDelay = 2
  MaxResolve = 1
  MaxTime = 17
  MaxRequests = 1
  MaxKisses = 1
INVARIANTS
  TypeOK
  ClockNeverAhead
  LagBounded
  NextSyncInReach
PROPERTIES
  SetupLeavesInTime
  SetupAdvances
  SetupEnds
CHECK_DEADLOCK FALSE
