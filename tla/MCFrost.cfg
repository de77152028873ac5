CONSTANTS
  EnvChannels = {"Temperature"}
  Levels = {0}
  EnvLevels <- Frost
  UnreadRange = 25
  Garbage = {0}
  GarbageCritical = {0}
  NaN = NaN
  NoReading = NoReading
  Max_Time = 2
  InitRounds = 2
  ResetRounds = 3
  ConnectResetRounds = 2
  MaxTries = 2
  CalendarYear = 2019
  InitialConfigs <- Provisioned
  Switch = {FALSE}
  Commands = {}
  Faults = {}
  MaxFaults = 0
  MaxCommands = 0
  DriftAwake = FALSE
SPECIFICATION FairSpec
PROPERTIES WakeEnds
