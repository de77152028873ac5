---------------------------- MODULE SetupProofs ----------------------------
(***************************************************************************)
(* The safety of provisioning and of the two counts to a reset, for every  *)
(* value of the constants.  Six places clear the network's name and two    *)
(* compare resetCount with ==; what makes both sound is which of them can  *)
(* run at which stage of setup() and loop().  And the way of an access     *)
(* point to the reset that a submission asks for.                          *)
(***************************************************************************)
EXTENDS DispenserProofs

\* A wake that has taken the station's branch of lines 105-112.
Station ==
  \/ pc = "switch2" /\ ~AP
  \/ pc \in {"connect", "joining", "switch3", "clock", "sync", "ntp", "hub"}
  \/ hubConnected

\* It has a connection string, and a network unless it is to be reset.
StationIsConfigured ==
  Station => ~AP /\ DeviceConfig.cs /\ (DeviceConfig.ssid \/ resetDevice)

\* No hub client outlives its RAM, and none exists before setup()'s choice.
NoHubBeforeChoice == pc \in {"asleep", "boot", "switch1"} => ~hubConnected

\* connect() starts counting from 0, since loop() alone counted before.
CountStartsAtZero ==
  pc \in {"asleep", "boot", "switch1", "switch2", "connect"} => resetCount = 0

SetupInv == /\ StationIsConfigured /\ NoHubBeforeChoice
            /\ CountStartsAtZero /\ ResetCountInRange

-----------------------------------------------------------------------------
(* Steps by what they touch.                                               *)

\* Going on within a stage, or to a stage of loop(), with the same state.
LEMMA SetupUntouched ==
  ASSUME TypeOK, SetupInv,
         UNCHANGED <<AP, hubConnected, resetDevice, resetCount, DeviceConfig>>,
         UNCHANGED pc \/ pc' \in LoopStages
  PROVE  SetupInv'
<1>1. StationIsConfigured'
  BY DEF SetupInv, StationIsConfigured, Station, LoopStages
<1>2. NoHubBeforeChoice' /\ CountStartsAtZero'
  BY DEF SetupInv, NoHubBeforeChoice, CountStartsAtZero, LoopStages
<1>3. ResetCountInRange'
  BY DEF SetupInv, ResetCountInRange, LoopStages
<1>4. QED
  BY <1>1, <1>2, <1>3 DEF SetupInv

\* The network's name goes only together with a raised resetDevice.
LEMMA CheckKeepsReset ==
  ASSUME TypeOK, NEW pressed \in Switch, CheckWIFIReset(pressed)
  PROVE  /\ DeviceConfig'.cs = DeviceConfig.cs
         /\ DeviceConfig.ssid \/ resetDevice
              => DeviceConfig'.ssid \/ resetDevice'
<1>1. DeviceConfig \in [cs: BOOLEAN, ssid: BOOLEAN] /\ resetDevice \in BOOLEAN
  BY DEF TypeOK, SwitchTypeOK, Config
<1>2. PICK clear \in BOOLEAN :
        /\ DeviceConfig' = [DeviceConfig EXCEPT !.ssid = @ /\ ~clear]
        /\ resetDevice' = (resetDevice \/ clear)
  BY DEF CheckWIFIReset
<1>3. DeviceConfig'.cs = DeviceConfig.cs
      /\ DeviceConfig'.ssid = (DeviceConfig.ssid /\ ~clear)
  BY <1>1, <1>2
<1>4. QED
  BY <1>1, <1>2, <1>3, Zenon

\* A look at the switch, wherever the device is.
LEMMA SetupAfterCheck ==
  ASSUME TypeOK, SetupInv, NEW pressed \in Switch, CheckWIFIReset(pressed),
         UNCHANGED <<AP, hubConnected, resetCount>>,
         UNCHANGED pc \/ pc' \in LoopStages
  PROVE  SetupInv'
<1>1. StationIsConfigured'
  BY CheckKeepsReset DEF SetupInv, StationIsConfigured, Station, LoopStages
<1>2. NoHubBeforeChoice' /\ CountStartsAtZero'
  BY DEF SetupInv, NoHubBeforeChoice, CountStartsAtZero, LoopStages
<1>3. ResetCountInRange'
  BY DEF SetupInv, ResetCountInRange, LoopStages
<1>4. QED
  BY <1>1, <1>2, <1>3 DEF SetupInv

\* Lost RAM is fresh RAM.
LEMMA SetupAfterRestart ==
  ASSUME NEW next \in {"boot", "asleep"}, Restart(next)
  PROVE  SetupInv'
BY BoundAssumption
DEF Restart, SetupInv, StationIsConfigured, Station, NoHubBeforeChoice,
  CountStartsAtZero, ResetCountInRange

\* A submission changes the configuration of an access point only.
LEMMA SetupAfterSubmit ==
  ASSUME TypeOK, SetupInv, NEW config, Submit(config)
  PROVE  SetupInv'
<1>1. /\ AP /\ pc = "serve" /\ pc' = "decide"
      /\ UNCHANGED <<AP, hubConnected, resetCount>>
  BY DEF Submit, setupVars
<1>2. ~Station'
  BY <1>1 DEF SetupInv, StationIsConfigured, Station
<1>3. QED
  BY <1>1, <1>2
  DEF SetupInv, StationIsConfigured, NoHubBeforeChoice, CountStartsAtZero,
    ResetCountInRange

\* A station in setup() moves on to its next stage as it is.
LEMMA StationMovesOn ==
  ASSUME TypeOK, SetupInv,
         UNCHANGED <<AP, hubConnected, resetDevice, resetCount, DeviceConfig>>,
         pc \in {"connect", "joining", "switch3", "clock", "sync", "ntp"},
         pc' \in {"joining", "switch3", "clock", "sync", "ntp", "hub"},
         pc' = "joining" => pc = "connect"
  PROVE  SetupInv'
<1>1. StationIsConfigured'
  BY DEF SetupInv, StationIsConfigured, Station
<1>2. NoHubBeforeChoice' /\ CountStartsAtZero'
  BY DEF SetupInv, NoHubBeforeChoice, CountStartsAtZero
<1>3. ResetCountInRange'
  BY BoundAssumption DEF SetupInv, ResetCountInRange, CountStartsAtZero
<1>4. QED
  BY <1>1, <1>2, <1>3 DEF SetupInv

-----------------------------------------------------------------------------
(* The invariant, action by action.                                        *)

\* setup() establishes what loop() relies on.
LEMMA SetupStepKeeps == TypeOK /\ SetupInv /\ SetupStep => SetupInv'
<1> SUFFICES ASSUME TypeOK, SetupInv, SetupStep PROVE SetupInv'
  OBVIOUS
<1>1. CASE MountAndLoadConfig
  BY <1>1
  DEF MountAndLoadConfig, setupVars, SetupInv, StationIsConfigured, Station,
    NoHubBeforeChoice, CountStartsAtZero, ResetCountInRange
<1>2. CASE HoldSwitch
  BY <1>2, SetupAfterCheck DEF HoldSwitch, setupVars
<1>3. CASE ChooseMode
  <2>1. /\ AP' = (~DeviceConfig.cs \/ ~DeviceConfig.ssid) /\ pc' = "switch2"
        /\ pc = "switch1"
        /\ UNCHANGED <<hubConnected, resetCount, DeviceConfig>>
        /\ hubConnected = FALSE /\ resetCount = 0
    BY <1>3
    DEF ChooseMode, switchVars, SetupInv, NoHubBeforeChoice, CountStartsAtZero,
      TypeOK, SetupTypeOK
  <2>2. StationIsConfigured'
    BY <2>1 DEF StationIsConfigured, Station
  <2>3. NoHubBeforeChoice' /\ CountStartsAtZero' /\ ResetCountInRange'
    BY <2>1, BoundAssumption
    DEF NoHubBeforeChoice, CountStartsAtZero, ResetCountInRange
  <2>4. QED
    BY <2>2, <2>3 DEF SetupInv
<1>4. CASE InitSensors
  BY <1>4
  DEF InitSensors, switchVars, SetupInv, StationIsConfigured, Station,
    NoHubBeforeChoice, CountStartsAtZero, ResetCountInRange
<1>5. CASE AlreadyConnected
  BY <1>5, StationMovesOn DEF AlreadyConnected, setupVars, switchVars
<1>6. CASE BeginJoin
  BY <1>6, StationMovesOn DEF BeginJoin, setupVars, switchVars
<1>7. CASE AwaitJoin
  <2>1. PICK pressed \in Switch :
          LET held == pressed /\ WIFIResetCount = HoldLimit
              due == (resetDevice \/ held) /\ resetCount + 1 = ConnectResetRounds
              out == WIFIConnectionTryCnt + 1 > MaxTries
          IN IF due \/ out
             THEN Restart("boot")
             ELSE /\ CheckWIFIReset(pressed)
                  /\ resetCount' = IF resetDevice \/ held THEN resetCount + 1
                                                          ELSE resetCount
                  /\ UNCHANGED <<pc, AP, hubConnected>>
    BY <1>7 DEF AwaitJoin
  <2> DEFINE held == pressed /\ WIFIResetCount = HoldLimit
             due == (resetDevice \/ held) /\ resetCount + 1 = ConnectResetRounds
             out == WIFIConnectionTryCnt + 1 > MaxTries
  <2>2. CASE due \/ out
    BY <2>1, <2>2, SetupAfterRestart
  <2>3. CASE ~(due \/ out)
    <3>1. /\ CheckWIFIReset(pressed)
          /\ resetCount' = IF resetDevice \/ held THEN resetCount + 1
                                                  ELSE resetCount
          /\ UNCHANGED <<pc, AP, hubConnected>> /\ pc = "joining"
      BY <1>7, <2>1, <2>3 DEF AwaitJoin
    <3>2. StationIsConfigured'
      BY <3>1, CheckKeepsReset DEF SetupInv, StationIsConfigured, Station
    <3>3. NoHubBeforeChoice' /\ CountStartsAtZero'
      BY <3>1 DEF NoHubBeforeChoice, CountStartsAtZero
    <3>4. resetCount' < ConnectResetRounds
      BY <2>3, <3>1, BoundAssumption
      DEF SetupInv, ResetCountInRange, TypeOK, SwitchTypeOK
    <3>5. ResetCountInRange'
      BY <3>1, <3>4, BoundAssumption
      DEF ResetCountInRange, TypeOK, SwitchTypeOK
    <3>6. QED
      BY <3>2, <3>3, <3>5 DEF SetupInv
  <2>4. QED
    BY <2>2, <2>3
<1>8. CASE Joined
  BY <1>8, StationMovesOn DEF Joined, setupVars, switchVars
<1>9. CASE LeaveConnect
  BY <1>9, StationMovesOn DEF LeaveConnect, setupVars, switchVars
<1>10. CASE InitTime
  BY <1>10, StationMovesOn DEF InitTime, setupVars, switchVars
<1>11. CASE FirstSync
  <2>1. /\ pc = "sync" /\ pc' \in {"hub", "ntp"}
        /\ UNCHANGED <<setupVars, switchVars>>
    BY <1>11 DEF FirstSync
  <2>2. QED
    BY <2>1, StationMovesOn DEF setupVars, switchVars
<1>12. CASE RetrySync
  <2>1. \/ Restart("asleep")
        \/ /\ pc = "ntp" /\ pc' \in {"hub", "ntp"}
           /\ UNCHANGED <<AP, hubConnected, switchVars>>
    BY <1>12 DEF RetrySync
  <2>2. QED
    BY <2>1, StationMovesOn, SetupAfterRestart DEF switchVars
<1>13. CASE InitIOTHub
  BY <1>13
  DEF InitIOTHub, switchVars, SetupInv, StationIsConfigured, Station,
    NoHubBeforeChoice, CountStartsAtZero, ResetCountInRange
<1>14. QED
  BY <1>1, <1>2, <1>3, <1>4, <1>5, <1>6, <1>7, <1>8, <1>9, <1>10, <1>11, <1>12,
     <1>13
  DEF SetupStep

\* loop() clears the network only where it also asks for the reset.
LEMMA LoopStepKeeps == TypeOK /\ SetupInv /\ LoopStep => SetupInv'
<1> SUFFICES ASSUME TypeOK, SetupInv, LoopStep PROVE SetupInv'
  OBVIOUS
<1>1. CASE ReadAndCompare
  BY <1>1, SetupUntouched DEF ReadAndCompare, setupVars, switchVars, LoopStages
<1>2. CASE EnterBlock
  BY <1>2, SetupAfterCheck DEF EnterBlock, setupVars, LoopStages
<1>3. CASE CountReset
  <2>1. CASE resetDevice /\ resetCount + 1 = ResetRounds
    BY <1>3, <2>1, SetupAfterRestart DEF CountReset
  <2>2. CASE ~(resetDevice /\ resetCount + 1 = ResetRounds)
    <3>1. /\ resetCount' = IF resetDevice THEN resetCount + 1 ELSE resetCount
          /\ pc' = "serve"
          /\ UNCHANGED <<AP, hubConnected, resetDevice, DeviceConfig>>
      BY <1>3, <2>2 DEF CountReset, setupVars
    <3>2. StationIsConfigured'
      BY <3>1 DEF SetupInv, StationIsConfigured, Station
    <3>3. NoHubBeforeChoice' /\ CountStartsAtZero'
      BY <3>1 DEF NoHubBeforeChoice, CountStartsAtZero
    <3>4. ResetCountInRange'
      BY <2>2, <3>1, BoundAssumption
      DEF SetupInv, ResetCountInRange, TypeOK, SwitchTypeOK
    <3>5. QED
      BY <3>2, <3>3, <3>4 DEF SetupInv
  <2>3. QED
    BY <2>1, <2>2
<1>4. CASE ServePage
  BY <1>4, SetupUntouched DEF ServePage, setupVars, switchVars, LoopStages
<1>5. CASE handleSubmit
  <2>1. PICK config : Submit(config)
    BY <1>5 DEF handleSubmit
  <2>2. QED
    BY <2>1, SetupAfterSubmit
<1>6. CASE handleSetupSubmit
  <2>1. PICK config : Submit(config)
    BY <1>6 DEF handleSetupSubmit
  <2>2. QED
    BY <2>1, SetupAfterSubmit
<1>7. CASE ServeOffline
  BY <1>7, SetupUntouched DEF ServeOffline, setupVars, switchVars, LoopStages
<1>8. CASE RefuseReport
  BY <1>8, SetupUntouched
  DEF RefuseReport, setupVars, switchVars, LoopStages
<1>9. CASE SendReport
  BY <1>9, SetupUntouched
  DEF SendReport, setupVars, switchVars, LoopStages
<1>10. CASE AwaitReport
  BY <1>10, SetupUntouched DEF AwaitReport, setupVars, switchVars, LoopStages
<1>11. CASE PostAccepted
  BY <1>11, SetupUntouched DEF PostAccepted, setupVars, switchVars, LoopStages
<1>12. CASE PostFailed
  BY <1>12, SetupUntouched DEF PostFailed, setupVars, switchVars, LoopStages
<1>13. CASE NothingToPost
  BY <1>13, SetupUntouched DEF NothingToPost, setupVars, switchVars, LoopStages
<1>14. CASE HoldInCallback
  BY <1>14, SetupAfterCheck DEF HoldInCallback, setupVars, LoopStages
<1>15. CASE OnMessageSentCallback
  BY <1>15, SetupUntouched
  DEF OnMessageSentCallback, setupVars, switchVars, LoopStages
<1>16. CASE PollEmpty
  BY <1>16, SetupUntouched DEF PollEmpty, setupVars, switchVars, LoopStages
<1>17. CASE ReceiveSendData
  BY <1>17, SetupUntouched DEF ReceiveSendData, Receive, setupVars, LoopStages
<1>18. CASE ReceiveDisplayDistance
  BY <1>18, SetupUntouched
  DEF ReceiveDisplayDistance, Receive, setupVars, LoopStages
<1>19. CASE ReceiveClearWIFI
  <2>1. /\ pc = "poll" /\ pc' = "decide"
        /\ UNCHANGED <<AP, hubConnected, resetCount>>
        /\ DeviceConfig' = [DeviceConfig EXCEPT !.ssid = FALSE]
        /\ resetDevice' = TRUE
    BY <1>19 DEF ReceiveClearWIFI, Receive, setupVars
  <2>2. DeviceConfig'.cs = DeviceConfig.cs
    BY <2>1 DEF TypeOK, SwitchTypeOK, Config
  <2>3. StationIsConfigured'
    BY <2>1, <2>2 DEF SetupInv, StationIsConfigured, Station
  <2>4. NoHubBeforeChoice' /\ CountStartsAtZero' /\ ResetCountInRange'
    BY <2>1
    DEF SetupInv, NoHubBeforeChoice, CountStartsAtZero, ResetCountInRange
  <2>5. QED
    BY <2>3, <2>4 DEF SetupInv
<1>20. CASE ReceiveConfigInterval
  BY <1>20, SetupUntouched
  DEF ReceiveConfigInterval, Receive, setupVars, LoopStages
<1>21. CASE ReceiveOther
  BY <1>21, SetupUntouched DEF ReceiveOther, Receive, setupVars, LoopStages
<1>22. CASE StayAwake
  BY <1>22, SetupUntouched DEF StayAwake, setupVars, switchVars, LoopStages
<1>23. CASE Sleep
  BY <1>23, SetupAfterRestart DEF Sleep
<1>24. QED
  BY <1>1, <1>2, <1>3, <1>4, <1>5, <1>6, <1>7, <1>8, <1>9, <1>10, <1>11,
     <1>12, <1>13, <1>14, <1>15, <1>16, <1>17, <1>18, <1>19, <1>20, <1>21,
     <1>22, <1>23
  DEF LoopStep

\* SetupInv is inductive, given the types.
LEMMA NextKeeps == TypeOK /\ SetupInv /\ [Next]_vars => SetupInv'
<1> SUFFICES ASSUME TypeOK, SetupInv, [Next]_vars PROVE SetupInv'
  OBVIOUS
<1>1. CASE Wake
  BY <1>1
  DEF Wake, setupVars, switchVars, SetupInv, StationIsConfigured, Station,
    NoHubBeforeChoice, CountStartsAtZero, ResetCountInRange
<1>2. CASE Drift
  BY <1>2, SetupUntouched DEF Drift, setupVars, switchVars
<1>3. CASE PowerLoss
  BY <1>3, SetupAfterRestart DEF PowerLoss
<1>4. CASE UNCHANGED vars
  BY <1>4, SetupUntouched DEF vars, setupVars, switchVars
<1>5. QED
  BY <1>1, <1>2, <1>3, <1>4, SetupStepKeeps, LoopStepKeeps DEF Next, DeviceStep

\* The invariant holds in every instance.
LEMMA SetupCorrect == Spec => []SetupInv
<1>1. Init => SetupInv
  BY BoundAssumption
  DEF Init, SetupInv, StationIsConfigured, Station, NoHubBeforeChoice,
    CountStartsAtZero, ResetCountInRange
<1>2. TypeOK /\ SetupInv /\ [Next]_vars => SetupInv'
  BY NextKeeps
<1>3. QED
  BY <1>1, <1>2, TypeCorrect, PTL DEF Spec

-----------------------------------------------------------------------------
(* The theorems.                                                           *)

\* A connected hub client has a connection string stored, and a network
\* unless the device is on its way to a reset.
THEOREM ConnectedStaysProvisioned == Spec => []ConnectedIsProvisioned
<1>1. SetupInv => ConnectedIsProvisioned
  BY DEF SetupInv, StationIsConfigured, Station, ConnectedIsProvisioned
<1>2. QED
  BY <1>1, SetupCorrect, PTL

\* Neither comparison of resetCount with == is ever stepped over.
THEOREM ResetCountStaysInRange == Spec => []ResetCountInRange
<1>1. SetupInv => ResetCountInRange
  BY DEF SetupInv
<1>2. QED
  BY <1>1, SetupCorrect, PTL

-----------------------------------------------------------------------------
(* The way of an access point to its reset.                                *)

\* AP is set by setup()'s choice and lost with RAM; what needs a hub or a
\* network is the station's.
AccessPointStages ==
  AP => pc \in {"switch2", "loop", "block", "reset", "serve", "decide"}

\* The steps in which an access point takes part.
AccessPointStep ==
  \/ HoldSwitch \/ InitSensors
  \/ ReadAndCompare \/ EnterBlock \/ CountReset
  \/ ServePage \/ handleSubmit \/ handleSetupSubmit \/ StayAwake
  \/ Drift \/ PowerLoss

LEMMA AccessPointSteps ==
  ASSUME AccessPointStages, AP, Next
  PROVE  AccessPointStep
<1>1. pc \in {"switch2", "loop", "block", "reset", "serve", "decide"}
  BY DEF AccessPointStages
<1>2. ASSUME SetupStep PROVE HoldSwitch \/ InitSensors
  BY <1>1, <1>2
  DEF SetupStep, MountAndLoadConfig, ChooseMode, AlreadyConnected, BeginJoin,
    AwaitJoin, Joined, LeaveConnect, InitTime, FirstSync, RetrySync, InitIOTHub
<1>3. ~(ServeOffline \/ RefuseReport \/ SendReport \/ AwaitReport)
  BY DEF ServeOffline, RefuseReport, SendReport, SendDue, AwaitReport
<1>4. ~(PostAccepted \/ PostFailed \/ NothingToPost)
  BY <1>1 DEF PostAccepted, PostFailed, NothingToPost
<1>5. ~(HoldInCallback \/ OnMessageSentCallback \/ PollEmpty)
  BY <1>1 DEF HoldInCallback, OnMessageSentCallback, PollEmpty
<1>6. ~(\/ ReceiveSendData \/ ReceiveDisplayDistance \/ ReceiveClearWIFI
        \/ ReceiveConfigInterval \/ ReceiveOther)
  BY <1>1
  DEF ReceiveSendData, ReceiveDisplayDistance, ReceiveClearWIFI,
    ReceiveConfigInterval, ReceiveOther, Receive
<1>7. ~Sleep /\ ~Wake
  BY <1>1 DEF Sleep, MaySleep, Wake
<1> QED
  BY <1>2, <1>3, <1>4, <1>5, <1>6, <1>7
  DEF Next, DeviceStep, LoopStep, AccessPointStep

\* Nothing but setup()'s choice makes an access point.
LEMMA OnlyChoiceMakesAccessPoint ==
  ASSUME TypeOK, ~AP, Next, AP'
  PROVE  pc' = "switch2"
<1>1. ASSUME NEW next, Restart(next) PROVE FALSE
  BY <1>1 DEF Restart
<1>2. CASE SetupStep
  <2>1. ASSUME AwaitJoin \/ RetrySync PROVE FALSE
    BY <1>1, <2>1 DEF AwaitJoin, RetrySync, setupVars
  <2> QED
    BY <1>2, <2>1
    DEF SetupStep, MountAndLoadConfig, HoldSwitch, ChooseMode, InitSensors,
      AlreadyConnected, BeginJoin, Joined, LeaveConnect, InitTime, FirstSync,
      InitIOTHub, setupVars
<1>3. CASE LoopStep
  <2>1. ASSUME CountReset \/ Sleep PROVE FALSE
    BY <1>1, <2>1 DEF CountReset, Sleep, setupVars
  <2>2. ASSUME handleSubmit \/ handleSetupSubmit PROVE FALSE
    BY <2>2 DEF handleSubmit, handleSetupSubmit, Submit
  <2> QED
    BY <1>3, <2>1, <2>2
    DEF LoopStep, ReadAndCompare, EnterBlock, ServePage, ServeOffline,
      RefuseReport, SendReport, AwaitReport, PostAccepted, PostFailed,
      NothingToPost, HoldInCallback, OnMessageSentCallback, PollEmpty,
      ReceiveSendData, ReceiveDisplayDistance, ReceiveClearWIFI,
      ReceiveConfigInterval, ReceiveOther, Receive, StayAwake, setupVars
<1>4. CASE Wake \/ Drift \/ PowerLoss
  BY <1>1, <1>4 DEF Wake, Drift, PowerLoss, setupVars
<1> QED
  BY <1>2, <1>3, <1>4 DEF Next, DeviceStep

\* Where an access point's step leads.
LEMMA AccessPointMoves ==
  ASSUME AccessPointStages, AP, Next, AP'
  PROVE  \/ pc' = pc
         \/ pc' \in {"loop", "block", "reset", "serve", "decide"}
<1>1. ASSUME NEW next, Restart(next) PROVE FALSE
  BY <1>1 DEF Restart
<1>2. ASSUME handleSubmit \/ handleSetupSubmit PROVE pc' = "decide"
  BY <1>2 DEF handleSubmit, handleSetupSubmit, Submit
<1>3. ASSUME CountReset PROVE pc' = "serve"
  BY <1>1, <1>3 DEF CountReset
<1> QED
  BY <1>1, <1>2, <1>3, AccessPointSteps
  DEF AccessPointStep, HoldSwitch, InitSensors, ReadAndCompare, EnterBlock,
    ServePage, StayAwake, Drift, PowerLoss

LEMMA AccessPointCorrect == Spec => []AccessPointStages
<1>1. Init => AccessPointStages
  BY DEF Init, AccessPointStages
<1>2. TypeOK /\ AccessPointStages /\ [Next]_vars => AccessPointStages'
  <2> SUFFICES ASSUME TypeOK, AccessPointStages, [Next]_vars, AP'
               PROVE  pc' \in {"switch2", "loop", "block", "reset", "serve",
                               "decide"}
    BY DEF AccessPointStages
  <2>1. CASE UNCHANGED vars
    BY <2>1 DEF AccessPointStages, vars, setupVars
  <2>2. CASE Next /\ AP
    BY <2>2, AccessPointMoves DEF AccessPointStages
  <2>3. CASE Next /\ ~AP
    BY <2>3, OnlyChoiceMakesAccessPoint
  <2> QED
    BY <2>1, <2>2, <2>3
<1> QED
  BY <1>1, <1>2, TypeCorrect, PTL DEF Spec

\* What is left, stage by stage.
LeftByStage ==
  /\ pc = "reset"  => StagesToReset = 5 * (ResetRounds - resetCount)
  /\ pc = "block"  => StagesToReset = 5 * (ResetRounds - resetCount) + 1
  /\ pc = "loop"   => StagesToReset = 5 * (ResetRounds - resetCount) + 2
  /\ pc = "decide" => StagesToReset = 5 * (ResetRounds - resetCount) + 3
  /\ pc = "serve"  => StagesToReset = 5 * (ResetRounds - resetCount) + 4
  /\ pc = "switch2" => StagesToReset = 5 * (ResetRounds - resetCount) + 5
  /\ resetCount \in Nat /\ resetCount < ResetRounds
LEMMA StagesLeft == TypeOK /\ ResetCountInRange => LeftByStage
<1> SUFFICES ASSUME TypeOK, ResetCountInRange PROVE LeftByStage
  OBVIOUS
<1>1. resetCount \in Nat /\ resetCount < ResetRounds
  BY DEF ResetCountInRange, TypeOK, SwitchTypeOK
<1>2. /\ pc = "reset"  => StagesOfRound = 0
      /\ pc = "block"  => StagesOfRound = 1
      /\ pc = "loop"   => StagesOfRound = 2
  BY DEF StagesOfRound
<1>3. /\ pc = "decide" => StagesOfRound = 3
      /\ pc = "serve"  => StagesOfRound = 4
      /\ pc = "switch2" => StagesOfRound = 5
  BY DEF StagesOfRound
<1> QED
  BY <1>1, <1>2, <1>3, BoundAssumption DEF LeftByStage, StagesToReset

\* To the next stage, with the count unchanged.
OneStageOn ==
  /\ resetCount' = resetCount
  /\ \/ pc = "switch2" /\ pc' = "loop"
     \/ pc = "loop" /\ pc' = "block"
     \/ pc = "block" /\ pc' = "reset"
     \/ pc = "serve" /\ pc' = "decide"
     \/ pc = "decide" /\ pc' = "loop"
LEMMA OneStageNearer ==
  ASSUME LeftByStage, LeftByStage', OneStageOn
  PROVE  StagesToReset' \in 0..(StagesToReset - 1)
BY BoundAssumption DEF LeftByStage, OneStageOn

\* One step of an access point that is to be reset.
LEMMA AccessPointAdvances ==
  ASSUME AccessPointStages, TypeOK, TypeOK', LeftByStage, LeftByStage',
         AP, resetDevice, Next
  PROVE  \/ pc' = "boot"
         \/ /\ AP' /\ resetDevice'
            /\ \/ StagesToReset' \in 0..(StagesToReset - 1)
               \/ pc' = pc /\ StagesToReset' = StagesToReset
<1> DEFINE Nearer == AP' /\ resetDevice'
                     /\ StagesToReset' \in 0..(StagesToReset - 1)
<1>1. ASSUME NEW pressed \in Switch, CheckWIFIReset(pressed) PROVE resetDevice'
  BY <1>1 DEF CheckWIFIReset
<1>2. CASE HoldSwitch \/ Drift
  <2>1. UNCHANGED <<pc, AP, resetCount>> /\ resetDevice'
    BY <1>1, <1>2 DEF HoldSwitch, Drift, setupVars, switchVars
  <2> QED
    BY <2>1 DEF StagesToReset, StagesOfRound
<1>3. CASE InitSensors \/ ReadAndCompare \/ ServePage \/ StayAwake
  <2>1. UNCHANGED <<AP, resetDevice, resetCount>>
    BY <1>3
    DEF InitSensors, ReadAndCompare, ServePage, StayAwake, setupVars, switchVars
  <2>2. ASSUME InitSensors PROVE pc = "switch2" /\ pc' = "loop"
    BY <2>2 DEF InitSensors
  <2>3. ASSUME ReadAndCompare PROVE pc = "loop" /\ pc' = "block"
    <3>1. \A memory, reading : BlockDue(memory, reading)
      BY DEF BlockDue
    <3> QED
      BY <2>3, <3>1 DEF ReadAndCompare
  <2>4. OneStageOn
    BY <1>3, <2>1, <2>2, <2>3 DEF ServePage, StayAwake, OneStageOn
  <2> QED
    BY <2>1, <2>4, OneStageNearer
<1>4. CASE EnterBlock
  <2>1. OneStageOn /\ AP' /\ resetDevice'
    BY <1>1, <1>4 DEF EnterBlock, setupVars, OneStageOn
  <2> QED
    BY <2>1, OneStageNearer
<1>5. CASE handleSubmit \/ handleSetupSubmit
  <2>1. PICK config : Submit(config)
    BY <1>5 DEF handleSubmit, handleSetupSubmit
  <2>2. OneStageOn /\ AP' /\ resetDevice'
    BY <2>1 DEF Submit, setupVars, OneStageOn
  <2> QED
    BY <2>2, OneStageNearer
<1>6. CASE CountReset
  <2>1. CASE resetCount + 1 = ResetRounds
    BY <1>6, <2>1 DEF CountReset, Restart
  <2>2. CASE resetCount + 1 # ResetRounds
    <3>1. /\ pc = "reset" /\ pc' = "serve" /\ UNCHANGED <<AP, resetDevice>>
          /\ resetCount' = resetCount + 1
      BY <1>6, <2>2 DEF CountReset, setupVars
    <3> QED
      BY <3>1, BoundAssumption DEF LeftByStage
  <2> QED
    BY <2>1, <2>2
<1>7. CASE PowerLoss
  BY <1>7 DEF PowerLoss, Restart
<1> QED
  BY <1>2, <1>3, <1>4, <1>5, <1>6, <1>7, AccessPointSteps DEF AccessPointStep

\* For any number of rounds to the reset, and whatever is requested, pressed,
\* saved or lost in between: an access point that is to be reset comes nearer
\* to its reset at every stage, and the way to it is bounded.
THEOREM SubmissionAlwaysAdvances == Spec => SubmissionAdvances
<1>1. TypeOK /\ ResetCountInRange => LeftByStage
  BY StagesLeft
<1>2. AccessPointStages /\ TypeOK /\ TypeOK' /\ LeftByStage /\ LeftByStage'
        /\ [Next]_vars
      => [AP /\ resetDevice
            => \/ pc' = "boot"
               \/ /\ AP' /\ resetDevice'
                  /\ \/ StagesToReset' \in 0..(StagesToReset - 1)
                     \/ pc' = pc /\ StagesToReset' = StagesToReset]_vars
  BY AccessPointAdvances
<1> QED
  BY <1>1, <1>2, TypeCorrect, ResetCountStaysInRange, AccessPointCorrect, PTL
  DEF Spec, SubmissionAdvances
=============================================================================
