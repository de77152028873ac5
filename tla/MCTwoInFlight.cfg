CONSTANTS
  EnvChannels = {}
  Levels = {0, 3}
  EnvLevels = {0}
  UnreadRange = 25
  Garbage = {0}
  GarbageCritical = {0}
  NaN = NaN
  NoReading = NoReading
  Max_Time = 2
  InitRounds = 2
  ResetRounds = 3
  ConnectResetRounds = 2
  MaxTries = 2
  CalendarYear = 2019
  InitialConfigs <- Provisioned
  Switch = {FALSE}
  Commands = {"SendData"}
  Faults = {"post"}
  MaxFaults = 1
  MaxCommands = 1
  DriftAwake = FALSE
SPECIFICATION Spec
PROPERTIES NothingLostToSleep
