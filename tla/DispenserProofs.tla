-------------------------- MODULE DispenserProofs --------------------------
(***************************************************************************)
(* What TLAPS proves of Dispenser, for every value of its constants.       *)
(***************************************************************************)
EXTENDS Dispenser, TLAPS

-----------------------------------------------------------------------------
(* What the shared helpers leave behind.                                   *)

\* A group of variables left alone stays well typed.
LEMMA UnchangedType ==
  ASSUME TypeOK
  PROVE  /\ UNCHANGED setupVars => SetupTypeOK'
         /\ UNCHANGED switchVars => SwitchTypeOK'
         /\ UNCHANGED reportVars => ReportTypeOK'
         /\ UNCHANGED queueVars => QueueTypeOK'
         /\ UNCHANGED lastingVars => LastingTypeOK'
         /\ UNCHANGED hubVars => HubTypeOK'
         /\ UNCHANGED wake => WakeTypeOK'
<1> USE DEF TypeOK
<1>1. UNCHANGED setupVars => SetupTypeOK'
  BY DEF setupVars, SetupTypeOK
<1>2. UNCHANGED switchVars => SwitchTypeOK'
  BY DEF switchVars, SwitchTypeOK
<1>3. UNCHANGED reportVars => ReportTypeOK'
  BY DEF reportVars, ReportTypeOK
<1>4. UNCHANGED queueVars => QueueTypeOK'
  BY DEF queueVars, QueueTypeOK
<1>5. UNCHANGED lastingVars => LastingTypeOK'
  BY DEF lastingVars, LastingTypeOK
<1>6. UNCHANGED hubVars => HubTypeOK'
  BY DEF hubVars, HubTypeOK
<1>7. UNCHANGED wake => WakeTypeOK'
  BY DEF WakeTypeOK
<1>8. QED
  BY <1>1, <1>2, <1>3, <1>4, <1>5, <1>6, <1>7

\* A fault, or its absence, keeps the budgets in range.
LEMMA FaultType ==
  ASSUME TypeOK
  PROVE  /\ NoFault => faults' \in 0..MaxFaults
         /\ \A name : Fault(name) => faults' \in 0..MaxFaults
         /\ UNCHANGED faults => faults' \in 0..MaxFaults
         /\ faults' \in 0..MaxFaults /\ UNCHANGED commands => BudgetTypeOK'
BY BoundAssumption DEF Fault, NoFault, TypeOK, BudgetTypeOK

\* What RAM holds at the start of setup() is well typed.
LEMMA RestartType ==
  ASSUME NEW next, Restart(next)
  PROVE  SetupTypeOK' /\ SwitchTypeOK' /\ ReportTypeOK' /\ QueueTypeOK'
         /\ WakeTypeOK'
<1>1. /\ mounted' \in BOOLEAN /\ AP' \in BOOLEAN /\ hubConnected' \in BOOLEAN
      /\ distanceSensor' \in BOOLEAN /\ environmentSensor' \in BOOLEAN
      /\ resetDevice' \in BOOLEAN /\ messagePending' \in BOOLEAN
  BY DEF Restart
<1>2. /\ WIFIConnectionTryCnt' \in 0..MaxTries /\ Counter' \in 0..2
      /\ WIFIResetCount' \in 0..HoldLimit /\ resetCount' \in Nat
      /\ waiting' \in Seq(Reading)
  BY BoundAssumption DEF Restart, HoldLimit
<1>3. ZeroReading \in Reading
  BY DEF ZeroReading, Reading, Readings
<1>4. [value |-> ZeroReading, critical |-> 0] \in Memory
  BY DEF ZeroReading, Memory, RTCValues, Readings
<1>5. ReportTypeOK'
  BY <1>3, <1>4, BoundAssumption DEF Restart, ReportTypeOK
<1>6. DeviceConfig' \in Config
  BY DEF Restart, NoConfig, Config
<1>7. WakeTypeOK'
  BY DEF Restart, WakeTypeOK, Awake
<1>8. QED
  BY <1>1, <1>2, <1>5, <1>6, <1>7 DEF SetupTypeOK, SwitchTypeOK, QueueTypeOK

\* saveConfig() leaves a configuration in the file.
LEMMA SaveConfigType ==
  ASSUME TypeOK, NEW config \in Config, SaveConfig(config)
  PROVE  configFile' \in Config /\ faults' \in 0..MaxFaults
BY FaultType DEF SaveConfig, TypeOK, LastingTypeOK

\* One call of CheckWIFIReset() keeps its count within the hold limit.
LEMMA CheckWIFIResetType ==
  ASSUME TypeOK, NEW pressed \in Switch, CheckWIFIReset(pressed)
  PROVE  /\ messagePending' \in BOOLEAN
         /\ WakeTypeOK'
         /\ WIFIResetCount' \in 0..HoldLimit
         /\ DeviceConfig' \in Config /\ configFile' \in Config
         /\ resetDevice' \in BOOLEAN
         /\ faults' \in 0..MaxFaults
<1> DEFINE count == IF pressed THEN WIFIResetCount + 1 ELSE 0
<1>1. pressed \in BOOLEAN
  BY WorldAssumption
<1>2. /\ messagePending' = (messagePending \/ pressed)
      /\ wake' = [wake EXCEPT !.pressed = @ \/ pressed]
      /\ WIFIResetCount' = IF count > HoldLimit THEN 0 ELSE count
      /\ DeviceConfig' = [DeviceConfig EXCEPT !.ssid = @ /\ ~(count > HoldLimit)]
      /\ resetDevice' = (resetDevice \/ count > HoldLimit)
      /\ SaveConfig(DeviceConfig') \/ (UNCHANGED configFile /\ NoFault)
  BY DEF CheckWIFIReset
<1>3. WIFIResetCount' \in 0..HoldLimit
  BY <1>1, <1>2 DEF TypeOK, SwitchTypeOK, HoldLimit
<1>4. DeviceConfig' \in Config
  BY <1>2 DEF TypeOK, SwitchTypeOK, Config
<1>5. messagePending' \in BOOLEAN /\ resetDevice' \in BOOLEAN
  BY <1>1, <1>2 DEF TypeOK, QueueTypeOK, SwitchTypeOK
<1>6. WakeTypeOK'
  BY <1>1, <1>2 DEF TypeOK, WakeTypeOK
<1>7. configFile' \in Config /\ faults' \in 0..MaxFaults
  BY <1>2, <1>4, SaveConfigType, FaultType DEF TypeOK, LastingTypeOK
<1>8. QED
  BY <1>3, <1>4, <1>5, <1>6, <1>7

\* What GetDistance() stores is a reading of its channel.
LEMMA GetDistanceType ==
  ASSUME TypeOK
  PROVE  GetDistance \in Readings
<1>1. level["Distance"] \in Readings
  BY DEF TypeOK, Measurable, Channels, Readings
<1>2. QED
  BY <1>1 DEF GetDistance, Readings

\* With SetEnvironment(), all channels together are a reading.
LEMMA ReadAllType ==
  ASSUME TypeOK, NEW distance \in Readings
  PROVE  ReadAll(distance) \in Reading
<1>1. \A c \in EnvChannels : SetEnvironment[c] \in Readings
  <2> TAKE c \in EnvChannels
  <2>1. c \in Channels /\ c # "Distance"
    BY ReadingAssumption DEF Channels
  <2>2. level[c] \in Readings /\ DeviceData[c] \in Readings
    BY <2>1 DEF TypeOK, ReportTypeOK, Measurable, Reading, Readings
  <2>3. QED
    BY <2>2 DEF SetEnvironment
<1>2. \A c \in Channels : c # "Distance" => c \in EnvChannels
  BY DEF Channels
<1>3. QED
  BY <1>1, <1>2 DEF ReadAll, Reading

\* Reading again and queueing extends the list by a reading, or does not.
LEMMA ReadAndQueueType ==
  ASSUME TypeOK, ReadAndQueue
  PROVE  DeviceData' \in Reading /\ QueueTypeOK' /\ faults' \in 0..MaxFaults
<1> DEFINE distance == IF distanceSensor THEN GetDistance
                                         ELSE DeviceData["Distance"]
           reading == ReadAll(distance)
<1>1. distance \in Readings
  BY GetDistanceType DEF TypeOK, ReportTypeOK, Reading, Channels
<1>2. reading \in Reading
  BY <1>1, ReadAllType
<1>3. DeviceData' = reading /\ QueueMessage(reading)
  BY DEF ReadAndQueue
<1>4. QueueTypeOK'
  <2> HIDE DEF reading
  <2>1. CASE waiting' = Append(waiting, reading) /\ messagePending' = TRUE
    BY <1>2, <2>1 DEF TypeOK, QueueTypeOK
  <2>2. CASE UNCHANGED queueVars
    BY <2>2, UnchangedType
  <2>3. QED
    BY <1>3, <2>1, <2>2 DEF QueueMessage
<1>5. faults' \in 0..MaxFaults
  BY <1>3, FaultType DEF QueueMessage
<1>6. QED
  BY <1>2, <1>3, <1>4, <1>5

\* Sanitising keeps memory well typed.
LEMMA SanitiseType ==
  ASSUME NEW memory \in Memory
  PROVE  SanitiseAll(memory) \in Memory
<1>1. \A v \in RTCValues : Sanitise(v) \in RTCValues
  BY DEF Sanitise, RTCValues, Readings
<1>2. QED
  BY <1>1 DEF SanitiseAll, Memory

\* Delivery tells the hub a reading; a sleep lets a little more time pass.
LEMMA HubType ==
  ASSUME TypeOK
  PROVE  /\ waiting # <<>> /\ HubReceives => HubTypeOK'
         /\ OneSleepMore /\ UNCHANGED hubView => HubTypeOK'
         /\ TimePasses => elapsed' \in 0..InitRounds
<1>1. ASSUME waiting # <<>>, HubReceives
      PROVE  HubTypeOK'
  <2>1. Head(waiting) \in Reading
    BY <1>1 DEF TypeOK, QueueTypeOK
  <2>2. QED
    BY <1>1, <2>1, BoundAssumption DEF HubReceives, HubTypeOK, MaxQuiet
<1>2. OneSleepMore /\ UNCHANGED hubView => HubTypeOK'
  BY BoundAssumption DEF OneSleepMore, TypeOK, HubTypeOK, MaxQuiet
<1>3. TimePasses => elapsed' \in 0..InitRounds
  BY BoundAssumption DEF TimePasses, TypeOK, ReportTypeOK
<1>4. QED
  BY <1>1, <1>2, <1>3

-----------------------------------------------------------------------------
(* Type correctness.                                                       *)

\* Power-up leaves a well-typed device.
LEMMA InitType == Init => TypeOK
<1> SUFFICES ASSUME Init PROVE TypeOK
  OBVIOUS
<1>1. SetupTypeOK
  <2>1. /\ mounted \in BOOLEAN /\ AP \in BOOLEAN /\ hubConnected \in BOOLEAN
        /\ distanceSensor \in BOOLEAN /\ environmentSensor \in BOOLEAN
    BY DEF Init
  <2>2. WIFIConnectionTryCnt \in 0..MaxTries /\ Counter \in 0..2
    BY BoundAssumption DEF Init
  <2>3. QED
    BY <2>1, <2>2 DEF SetupTypeOK
<1>2. SwitchTypeOK
  <2>1. WIFIResetCount \in 0..HoldLimit /\ resetCount \in Nat
    BY DEF Init, HoldLimit
  <2>2. resetDevice \in BOOLEAN /\ DeviceConfig \in Config
    BY DEF Init, NoConfig, Config
  <2>3. QED
    BY <2>1, <2>2 DEF SwitchTypeOK
<1>3. ReportTypeOK
  <2>1. ZeroReading \in Reading
    BY DEF ZeroReading, Reading, Readings
  <2>2. [value |-> ZeroReading, critical |-> 0] \in Memory
    BY DEF ZeroReading, Memory, RTCValues, Readings
  <2>3. QED
    BY <2>1, <2>2, BoundAssumption DEF Init, ReportTypeOK
<1>4. QueueTypeOK
  <2>1. waiting \in Seq(Reading)
    BY DEF Init
  <2>2. messagePending \in BOOLEAN
    BY DEF Init
  <2>3. QED
    BY <2>1, <2>2 DEF QueueTypeOK
<1>5. LastingTypeOK
  BY ReadingAssumption, WorldAssumption
  DEF Init, LastingTypeOK, PowerUpMemory, Memory, RTCValues
<1>6. HubTypeOK /\ WakeTypeOK /\ BudgetTypeOK
  BY BoundAssumption
  DEF Init, HubTypeOK, WakeTypeOK, BudgetTypeOK, MaxQuiet, Awake
<1>7. pc \in Stages /\ level \in Measurable
  BY DEF Init, Stages, SetupStages
<1>8. QED
  BY <1>1, <1>2, <1>3, <1>4, <1>5, <1>6, <1>7 DEF TypeOK

\* The new baseline is a reading with a count of 0.
LEMMA BaselineType ==
  ASSUME TypeOK, TakeBaseline
  PROVE  /\ rtcData' \in Memory
         /\ Critical_Flag' \in {0, 1} /\ Run_Flag' \in {0, 1}
BY DEF TakeBaseline, TypeOK, ReportTypeOK, Reading, Memory, RTCValues

\* What every command has in common.
LEMMA ReceiveType ==
  ASSUME TypeOK, NEW name, Receive(name)
  PROVE  /\ pc' \in Stages /\ level' \in Measurable
         /\ SetupTypeOK' /\ HubTypeOK' /\ WakeTypeOK'
         /\ UNCHANGED <<WIFIResetCount, resetCount, rtcData, Critical_Flag,
                        Run_Flag, rtcMem>>
         /\ elapsed' \in 0..InitRounds
         /\ commands' \in 0..MaxCommands
<1>1. commands' \in 0..MaxCommands
  BY BoundAssumption DEF Receive, TypeOK, BudgetTypeOK
<1>2. QED
  BY <1>1, UnchangedType, HubType
  DEF Receive, TypeOK, Stages, LoopStages

\* A submission stores a configuration.
LEMMA SubmitType ==
  ASSUME TypeOK, NEW config \in Config, Submit(config)
  PROVE  TypeOK'
<1>1. configFile' \in Config /\ faults' \in 0..MaxFaults
  BY SaveConfigType DEF Submit
<1>2. SwitchTypeOK'
  BY DEF Submit, TypeOK, SwitchTypeOK
<1>3. QED
  BY <1>1, <1>2, UnchangedType, FaultType
  DEF Submit, TypeOK, LastingTypeOK, Stages, LoopStages

LEMMA SetupStepType == TypeOK /\ SetupStep => TypeOK'
<1> SUFFICES ASSUME TypeOK, SetupStep PROVE TypeOK'
  OBVIOUS
<1>1. CASE MountAndLoadConfig
  <2>1. SetupTypeOK'
    BY <1>1 DEF MountAndLoadConfig, TypeOK, SetupTypeOK
  <2>2. SwitchTypeOK'
    BY <1>1 DEF MountAndLoadConfig, TypeOK, SwitchTypeOK, LastingTypeOK
  <2>3. pc' \in Stages /\ faults' \in 0..MaxFaults
    BY <1>1, FaultType
    DEF MountAndLoadConfig, Stages, SetupStages, LoopStages
  <2>4. QED
    BY <1>1, <2>1, <2>2, <2>3, UnchangedType, FaultType
    DEF MountAndLoadConfig, TypeOK
<1>2. CASE HoldSwitch
  BY <1>2, UnchangedType, FaultType, CheckWIFIResetType
  DEF HoldSwitch, TypeOK, Stages, SetupStages, LoopStages,
      SwitchTypeOK, QueueTypeOK, LastingTypeOK
<1>3. CASE ChooseMode
  BY <1>3, UnchangedType, FaultType
  DEF ChooseMode, TypeOK, Stages, SetupStages, LoopStages,
      SetupTypeOK
<1>4. CASE InitSensors
  BY <1>4, UnchangedType, FaultType
  DEF InitSensors, TypeOK, Stages, SetupStages, LoopStages,
      SetupTypeOK
<1>5. CASE AlreadyConnected
  BY <1>5, UnchangedType, FaultType
  DEF AlreadyConnected, TypeOK, Stages, SetupStages, LoopStages
<1>6. CASE BeginJoin
  BY <1>6, UnchangedType, FaultType
  DEF BeginJoin, TypeOK, Stages, SetupStages, LoopStages
<1>7. CASE AwaitJoin
  <2>1. PICK pressed \in Switch :
          \/ /\ Restart("boot")
             /\ \/ SaveConfig([DeviceConfig EXCEPT !.ssid = FALSE])
                \/ UNCHANGED configFile /\ NoFault
          \/ /\ CheckWIFIReset(pressed)
             /\ resetCount' \in {resetCount, resetCount + 1}
             /\ WIFIConnectionTryCnt' = WIFIConnectionTryCnt + 1
             /\ WIFIConnectionTryCnt + 1 <= MaxTries
             /\ UNCHANGED <<pc, mounted, AP, hubConnected, distanceSensor,
                            environmentSensor, Counter, reportVars, waiting>>
    BY <1>7, BoundAssumption DEF AwaitJoin, TypeOK, SetupTypeOK
  <2>2. UNCHANGED <<rtcMem, level, hubVars, commands>>
    BY <1>7 DEF AwaitJoin
  <2>3. CASE Restart("boot")
             /\ \/ SaveConfig([DeviceConfig EXCEPT !.ssid = FALSE])
                \/ UNCHANGED configFile /\ NoFault
    <3>1. [DeviceConfig EXCEPT !.ssid = FALSE] \in Config
      BY DEF TypeOK, SwitchTypeOK, Config
    <3>2. configFile' \in Config /\ faults' \in 0..MaxFaults
      BY <2>3, <3>1, SaveConfigType, FaultType DEF TypeOK, LastingTypeOK
    <3>3. pc' \in Stages
      BY <2>3 DEF Restart, Stages, SetupStages
    <3>4. QED
      BY <2>2, <2>3, <3>2, <3>3, RestartType, UnchangedType, FaultType
      DEF TypeOK, LastingTypeOK
  <2>4. CASE /\ CheckWIFIReset(pressed)
             /\ resetCount' \in {resetCount, resetCount + 1}
             /\ WIFIConnectionTryCnt' = WIFIConnectionTryCnt + 1
             /\ WIFIConnectionTryCnt + 1 <= MaxTries
             /\ UNCHANGED <<pc, mounted, AP, hubConnected, distanceSensor,
                            environmentSensor, Counter, reportVars, waiting>>
    <3>1. SetupTypeOK'
      BY <2>4, BoundAssumption DEF TypeOK, SetupTypeOK
    <3>2. SwitchTypeOK'
      BY <2>4, CheckWIFIResetType DEF TypeOK, SwitchTypeOK
    <3>3. QED
      BY <2>2, <2>4, <3>1, <3>2, CheckWIFIResetType, UnchangedType, FaultType
      DEF TypeOK, QueueTypeOK, LastingTypeOK
  <2>5. QED
    BY <2>1, <2>3, <2>4
<1>8. CASE Joined
  BY <1>8, UnchangedType, FaultType
  DEF Joined, TypeOK, Stages, SetupStages, LoopStages
<1>9. CASE LeaveConnect
  BY <1>9, UnchangedType, FaultType
  DEF LeaveConnect, TypeOK, Stages, SetupStages, LoopStages
<1>10. CASE InitTime
  BY <1>10, UnchangedType, FaultType
  DEF InitTime, TypeOK, Stages, SetupStages, LoopStages
<1>11. CASE FirstSync
  BY <1>11, UnchangedType, FaultType
  DEF FirstSync, TypeOK, Stages, SetupStages, LoopStages,
      Sync
<1>12. CASE RetrySync
  <2>1. faults' \in 0..MaxFaults
    BY <1>12, FaultType DEF RetrySync, Sync
  <2>2. UNCHANGED <<lastingVars, level, hubView, commands>>
    BY <1>12 DEF RetrySync
  <2>3. CASE Restart("asleep") /\ OneSleepMore
    BY <2>1, <2>2, <2>3, RestartType, HubType, UnchangedType, FaultType
    DEF Restart, TypeOK, Stages
  <2>4. CASE /\ Counter + 1 < 3
             /\ Counter' = Counter + 1
             /\ pc' \in {"hub", "ntp"}
             /\ UNCHANGED <<mounted, AP, hubConnected, distanceSensor,
                            environmentSensor, WIFIConnectionTryCnt,
                            switchVars, reportVars, queueVars, wake, quiet>>
    <3>1. SetupTypeOK'
      BY <2>4 DEF TypeOK, SetupTypeOK
    <3>2. HubTypeOK'
      BY <2>2, <2>4 DEF TypeOK, HubTypeOK
    <3>3. QED
      BY <2>1, <2>2, <2>4, <3>1, <3>2, UnchangedType, FaultType
      DEF TypeOK, Stages, SetupStages
  <2>5. QED
    BY <1>12, <2>3, <2>4 DEF RetrySync, TypeOK, SetupTypeOK
<1>13. CASE InitIOTHub
  BY <1>13, UnchangedType, FaultType
  DEF InitIOTHub, TypeOK, Stages, SetupStages, LoopStages,
      SetupTypeOK, ReportTypeOK
<1>14. QED
  BY <1>1, <1>2, <1>3, <1>4, <1>5, <1>6, <1>7, <1>8, <1>9, <1>10, <1>11,
     <1>12, <1>13
  DEF SetupStep

LEMMA LoopStepType == TypeOK /\ LoopStep => TypeOK'
<1> SUFFICES ASSUME TypeOK, LoopStep PROVE TypeOK'
  OBVIOUS
<1>1. CASE ReadAndCompare
  <2>1. SanitiseAll(rtcMem) \in Memory
    BY SanitiseType DEF TypeOK, LastingTypeOK
  <2>2. ReadAll(GetDistance) \in Reading
    BY GetDistanceType, ReadAllType
  <2>3. rtcData' \in Memory
    BY <1>1, <2>1 DEF ReadAndCompare, TypeOK, ReportTypeOK, LastingTypeOK
  <2>4. DeviceData' \in Reading
    BY <1>1, <2>2 DEF ReadAndCompare, TypeOK, ReportTypeOK
  <2>5. pc' \in Stages
    BY <1>1 DEF ReadAndCompare, Stages, LoopStages
  <2>6. QED
    BY <1>1, <2>3, <2>4, <2>5, UnchangedType, FaultType
    DEF ReadAndCompare, TypeOK, ReportTypeOK
<1>2. CASE EnterBlock
  BY <1>2, UnchangedType, FaultType, CheckWIFIResetType
  DEF EnterBlock, TypeOK, Stages, SetupStages, LoopStages,
      SwitchTypeOK, QueueTypeOK, LastingTypeOK, ReportTypeOK
<1>3. CASE CountReset
  <2>1. CASE Restart("boot")
    BY <1>3, <2>1, RestartType, UnchangedType, FaultType
    DEF CountReset, Restart, TypeOK, Stages, SetupStages
  <2>2. CASE /\ resetCount' \in {resetCount, resetCount + 1}
             /\ pc' = "serve"
             /\ UNCHANGED <<setupVars, WIFIResetCount, resetDevice,
                            DeviceConfig, reportVars, queueVars, wake>>
    <3>1. SwitchTypeOK'
      BY <2>2 DEF TypeOK, SwitchTypeOK
    <3>2. QED
      BY <1>3, <2>2, <3>1, UnchangedType, FaultType
      DEF CountReset, TypeOK, Stages, LoopStages
  <2>3. QED
    BY <1>3, <2>1, <2>2 DEF CountReset
<1>4. CASE ServePage
  BY <1>4, UnchangedType, FaultType
  DEF ServePage, TypeOK, Stages, SetupStages, LoopStages
<1>5. CASE handleSubmit
  <2>1. PICK filled \in BOOLEAN : Submit([DeviceConfig EXCEPT !.ssid = filled])
    BY <1>5 DEF handleSubmit
  <2>2. [DeviceConfig EXCEPT !.ssid = filled] \in Config
    BY DEF TypeOK, SwitchTypeOK, Config
  <2>3. QED
    BY <2>1, <2>2, SubmitType
<1>6. CASE handleSetupSubmit
  <2>1. PICK filled \in BOOLEAN : Submit([DeviceConfig EXCEPT !.cs = filled])
    BY <1>6 DEF handleSetupSubmit
  <2>2. [DeviceConfig EXCEPT !.cs = filled] \in Config
    BY DEF TypeOK, SwitchTypeOK, Config
  <2>3. QED
    BY <2>1, <2>2, SubmitType
<1>7. CASE ServeOffline
  BY <1>7, UnchangedType, FaultType
  DEF ServeOffline, TypeOK, Stages, SetupStages, LoopStages,
      ReportTypeOK
<1>8. CASE RefuseReport
  <2>1. TakeBaseline /\ UNCHANGED <<DeviceData, elapsed>>
    BY <1>8 DEF RefuseReport
  <2>2. ReportTypeOK'
    BY <2>1, BaselineType DEF TypeOK, ReportTypeOK
  <2>3. QED
    BY <1>8, <2>2, UnchangedType, FaultType
    DEF RefuseReport, TypeOK, Stages, LoopStages
<1>9. CASE SendReport
  <2>1. TakeBaseline /\ ReadAndQueue
    BY <1>9 DEF SendReport
  <2>2. ReportTypeOK'
    BY <1>9, <2>1, BaselineType, ReadAndQueueType, BoundAssumption
    DEF SendReport, ReportTypeOK
  <2>3. WakeTypeOK'
    BY <1>9 DEF SendReport, TypeOK, WakeTypeOK
  <2>4. QED
    BY <1>9, <2>1, <2>2, <2>3, ReadAndQueueType, UnchangedType, FaultType
    DEF SendReport, TypeOK, Stages, LoopStages
<1>10. CASE AwaitReport
  BY <1>10, UnchangedType, FaultType
  DEF AwaitReport, TypeOK, Stages, SetupStages, LoopStages
<1>11. CASE PostAccepted
  <2>1. HubTypeOK'
    BY <1>11, HubType DEF PostAccepted
  <2>2. Tail(waiting) \in Seq(Reading)
    BY <1>11 DEF PostAccepted, TypeOK, QueueTypeOK
  <2>3. QueueTypeOK'
    BY <1>11, <2>2 DEF PostAccepted, TypeOK, QueueTypeOK
  <2>4. QED
    BY <1>11, <2>1, <2>3, UnchangedType, FaultType
    DEF PostAccepted, TypeOK, Stages, LoopStages
<1>12. CASE PostFailed
  BY <1>12, UnchangedType, FaultType, HubType
  DEF PostFailed, TypeOK, Stages, SetupStages, LoopStages,
      WakeTypeOK
<1>13. CASE NothingToPost
  BY <1>13, UnchangedType, FaultType
  DEF NothingToPost, TypeOK, Stages, SetupStages, LoopStages
<1>14. CASE HoldInCallback
  BY <1>14, UnchangedType, FaultType, CheckWIFIResetType
  DEF HoldInCallback, TypeOK, Stages, SetupStages, LoopStages,
      SwitchTypeOK, QueueTypeOK, LastingTypeOK
<1>15. CASE OnMessageSentCallback
  BY <1>15, UnchangedType, FaultType
  DEF OnMessageSentCallback, TypeOK, Stages, SetupStages, LoopStages,
      QueueTypeOK
<1>16. CASE PollEmpty
  BY <1>16, UnchangedType, FaultType, HubType
  DEF PollEmpty, TypeOK, Stages, SetupStages, LoopStages,
      ReportTypeOK
<1>17. CASE ReceiveSendData
  <2>1. Receive("SendData")
    BY <1>17 DEF ReceiveSendData
  <2>2. QED
    BY <1>17, <2>1, ReceiveType, ReadAndQueueType
    DEF ReceiveSendData, TypeOK, SwitchTypeOK, ReportTypeOK, LastingTypeOK, BudgetTypeOK
<1>18. CASE ReceiveDisplayDistance
  <2>1. Receive("DisplayDistance")
    BY <1>18 DEF ReceiveDisplayDistance
  <2>2. DeviceData' \in Reading
    BY <1>18, GetDistanceType
    DEF ReceiveDisplayDistance, TypeOK, ReportTypeOK, Reading
  <2>3. QED
    BY <1>18, <2>1, <2>2, ReceiveType, FaultType, UnchangedType
    DEF ReceiveDisplayDistance, TypeOK, SwitchTypeOK, ReportTypeOK, LastingTypeOK, BudgetTypeOK
<1>19. CASE ReceiveClearWIFI
  <2>1. Receive("ClearWIFI")
    BY <1>19 DEF ReceiveClearWIFI
  <2>2. DeviceConfig' \in Config /\ SaveConfig(DeviceConfig')
    BY <1>19 DEF ReceiveClearWIFI, TypeOK, SwitchTypeOK, Config
  <2>3. configFile' \in Config /\ faults' \in 0..MaxFaults
    BY <2>2, SaveConfigType
  <2>4. QED
    BY <1>19, <2>1, <2>2, <2>3, ReceiveType, UnchangedType
    DEF ReceiveClearWIFI, TypeOK, SwitchTypeOK, ReportTypeOK, LastingTypeOK, BudgetTypeOK
<1>20. CASE ReceiveConfigInterval
  <2>1. Receive("ConfigInterval")
    BY <1>20 DEF ReceiveConfigInterval
  <2>2. configFile' \in Config /\ faults' \in 0..MaxFaults
    BY <1>20, SaveConfigType DEF ReceiveConfigInterval, TypeOK, SwitchTypeOK
  <2>3. QED
    BY <1>20, <2>1, <2>2, ReceiveType, UnchangedType
    DEF ReceiveConfigInterval, TypeOK, SwitchTypeOK, ReportTypeOK, LastingTypeOK, BudgetTypeOK
<1>21. CASE ReceiveOther
  <2>1. Receive("Other")
    BY <1>21 DEF ReceiveOther
  <2>2. QED
    BY <1>21, <2>1, ReceiveType, FaultType, UnchangedType
    DEF ReceiveOther, TypeOK, SwitchTypeOK, ReportTypeOK, LastingTypeOK, BudgetTypeOK
<1>22. CASE StayAwake
  BY <1>22, UnchangedType, FaultType
  DEF StayAwake, TypeOK, Stages, SetupStages, LoopStages
<1>23. CASE Sleep
  <2>1. rtcMem' \in Memory
    BY <1>23 DEF Sleep, TypeOK, ReportTypeOK, Memory
  <2>2. HubTypeOK'
    BY <1>23, HubType DEF Sleep
  <2>3. QED
    BY <1>23, <2>1, <2>2, RestartType, FaultType
    DEF Sleep, Restart, TypeOK, LastingTypeOK, Stages
<1>24. QED
  BY <1>1, <1>2, <1>3, <1>4, <1>5, <1>6, <1>7, <1>8, <1>9, <1>10, <1>11,
     <1>12, <1>13, <1>14, <1>15, <1>16, <1>17, <1>18, <1>19, <1>20, <1>21,
     <1>22, <1>23
  DEF LoopStep

\* Every step of the device and of the world keeps the types.
LEMMA NextType == TypeOK /\ [Next]_vars => TypeOK'
<1> SUFFICES ASSUME TypeOK, [Next]_vars PROVE TypeOK'
  OBVIOUS
<1>1. CASE Wake
  BY <1>1, UnchangedType, FaultType
  DEF Wake, TypeOK, Stages, SetupStages
<1>2. CASE Drift
  BY <1>2, UnchangedType, FaultType DEF Drift, TypeOK
<1>3. CASE PowerLoss
  <2>1. LastingTypeOK'
    BY <1>3, ReadingAssumption
    DEF PowerLoss, TypeOK, LastingTypeOK, PowerUpMemory, Memory, RTCValues
  <2>2. HubTypeOK'
    BY <1>3, BoundAssumption DEF PowerLoss, HubTypeOK, MaxQuiet
  <2>3. QED
    BY <1>3, <2>1, <2>2, RestartType, FaultType
    DEF PowerLoss, Restart, TypeOK, Stages, SetupStages
<1>4. CASE UNCHANGED vars
  BY <1>4, UnchangedType, FaultType DEF vars, TypeOK
<1>5. QED
  BY <1>1, <1>2, <1>3, <1>4, SetupStepType, LoopStepType
  DEF Next, DeviceStep

\* Every variable keeps its type, in every instance.
THEOREM TypeCorrect == Spec => []TypeOK
<1>1. Init => TypeOK
  BY InitType
<1>2. TypeOK /\ [Next]_vars => TypeOK'
  BY NextType
<1>3. QED
  BY <1>1, <1>2, PTL DEF Spec
=============================================================================
