CONSTANTS
  EnvChannels = {"Temperature"}
  Levels = {0, 2, 4}
  EnvLevels = {0, 2, 4}
  UnreadRange = 25
  Garbage = {250, NaN}
  GarbageCritical = {0, 5}
  NaN = NaN
  NoReading = NoReading
  Max_Time = 2
  InitRounds = 2
  ResetRounds = 3
  ConnectResetRounds = 2
  MaxTries = 2
  CalendarYear = 2019
  InitialConfigs <- Provisioned
  Switch = {FALSE}
  Commands = {}
  Faults = {"post", "unacked", "hub", "ntp", "fs", "sensor", "power"}
  MaxFaults = 2
  MaxCommands = 0
  DriftAwake = FALSE
SPECIFICATION Spec
INVARIANTS HeartbeatOnTime
PROPERTIES HubInSync NoSpuriousReport WakeAdvances
