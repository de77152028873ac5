CONSTANTS
  EnvChannels = {}
  Levels = {0, 3}
  EnvLevels = {0}
  UnreadRange = 25
  Garbage = {0}
  GarbageCritical = {0}
  NaN = NaN
  NoReading = NoReading
  Max_Time = 2
  InitRounds = 2
  ResetRounds = 3
  ConnectResetRounds = 2
  MaxTries = 2
  CalendarYear = 2019
  InitialConfigs <- Delivered
  Switch = {FALSE, TRUE}
  Commands = {"SendData", "DisplayDistance", "ClearWIFI", "ConfigInterval", "Other"}
  Faults = {"save", "load", "wifi", "post", "unacked", "queue"}
  MaxFaults = 2
  MaxCommands = 1
  DriftAwake = TRUE
SPECIFICATION Spec
INVARIANTS TypeOK ConnectedIsProvisioned ResetCountInRange DuplicatesNeedFailures PendingHasCause QueueBounded
PROPERTIES SubmissionAdvances
