CONSTANTS
  EnvChannels = {}
  Levels = {0, 2, 4}
  EnvLevels = {0}
  UnreadRange = 25
  Garbage = {0, 250, NaN}
  GarbageCritical = {0, 1}
  NaN = NaN
  NoReading = NoReading
  Max_Time = 2
  InitRounds = 2
  ResetRounds = 3
  ConnectResetRounds = 2
  MaxTries = 2
  CalendarYear = 2019
  InitialConfigs <- Either
  Switch = {FALSE}
  Commands = {}
  Faults = {"post", "unacked", "hub", "ntp", "fs", "sensor", "save"}
  MaxFaults = 2
  MaxCommands = 0
  DriftAwake = FALSE
SPECIFICATION FairSpec
PROPERTIES WakeEnds HubConverges NothingLostToSleep SubmissionResets
