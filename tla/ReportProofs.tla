---------------------------- MODULE ReportProofs ----------------------------
(***************************************************************************)
(* What the device reports, for every value of the constants: never later  *)
(* than the heartbeat, never less than the hub needs to know, and nothing  *)
(* the hub knows already; and how long a wake can last that reports it.    *)
(***************************************************************************)
EXTENDS DispenserProofs

-----------------------------------------------------------------------------
(* The heartbeat.  It needs a world in which no report is refused for the   *)
(* sake of a reset, and a clock whose year setup() accepts.                 *)

HeartbeatWorld ==
  /\ "queue" \notin Faults /\ "ClearWIFI" \notin Commands
  /\ TRUE \notin Switch
  /\ GarbageCritical \subseteq Nat
  /\ YearAccepted

NoRefusal ==
  (pc \in LoopStages => ~AP) => WIFIResetCount = 0 /\ ~resetDevice

\* The sleeps RTC memory has counted, up to those that matter.
Kept == IF rtcMem.critical < Max_Time THEN rtcMem.critical ELSE Max_Time

\* The count in RTC memory lags behind by one and by the wakes that failed;
\* a wake that is failing has a fault in hand.
Counted == /\ rtcMem.critical \in Nat /\ rtcData.critical \in Nat
           /\ quiet <= Kept + 1 + faults
Offline == pc \in LoopStages /\ ~AP /\ ~hubConnected
FaultInHand ==
  /\ pc = "ntp" \/ Offline => quiet <= Kept + faults
  /\ Offline => pc \notin {"event", "sent", "poll"}
  /\ Offline /\ pc # "loop" => rtcData.critical = rtcMem.critical

\* A connected device sleeps with the count it woke with, or having told the hub.
Online == pc \in LoopStages /\ ~AP /\ hubConnected
ToldOrCounting ==
  /\ pc \notin LoopStages => Critical_Flag = 1
  /\ pc \in {"reset", "serve"} => Run_Flag = 1
  /\ Online /\ quiet # 0 =>
       /\ Critical_Flag = 1 \/ (waiting # <<>> /\ messagePending)
       /\ pc # "sent"
       /\ pc \in {"event", "poll"} /\ Run_Flag = 0 =>
            messagePending /\ waiting # <<>>
       /\ pc = "decide" /\ Run_Flag = 0 /\ ~messagePending =>
            rtcData.critical = rtcMem.critical /\ rtcMem.critical < Max_Time

HeartInv == NoRefusal /\ Counted /\ FaultInHand /\ ToldOrCounting
-----------------------------------------------------------------------------
(* The heartbeat, action by action.                                        *)

\* The numbers the argument counts with.
LEMMA HeartTypes ==
  ASSUME TypeOK, HeartInv
  PROVE  /\ faults \in Nat /\ quiet \in Nat /\ Max_Time \in Nat \ {0}
         /\ rtcMem.critical \in Nat /\ rtcData.critical \in Nat
         /\ Kept \in Nat /\ Kept <= Max_Time
         /\ Critical_Flag \in {0, 1} /\ Run_Flag \in {0, 1}
<1>1. /\ faults \in Nat /\ quiet \in Nat /\ Max_Time \in Nat \ {0}
      /\ Critical_Flag \in {0, 1} /\ Run_Flag \in {0, 1}
  BY BoundAssumption
  DEF TypeOK, BudgetTypeOK, HubTypeOK, ReportTypeOK, MaxQuiet
<1>2. rtcMem.critical \in Nat /\ rtcData.critical \in Nat
  BY DEF HeartInv, Counted
<1>3. QED
  BY <1>1, <1>2 DEF Kept

\* Where the switch is never pressed, CheckWIFIReset() finds it released.
LEMMA SwitchReleased ==
  ASSUME TRUE \notin Switch, TypeOK, NEW pressed \in Switch,
         CheckWIFIReset(pressed)
  PROVE  /\ UNCHANGED <<messagePending, resetDevice, DeviceConfig, configFile,
                       faults>>
         /\ WIFIResetCount' = 0
         /\ wake'.sends = wake.sends
<1>1. pressed = FALSE
  BY WorldAssumption
<1>2. /\ messagePending \in BOOLEAN /\ resetDevice \in BOOLEAN
      /\ DeviceConfig \in Config
      /\ wake \in [sends: Nat, failures: Nat, pressed: BOOLEAN]
  BY DEF TypeOK, QueueTypeOK, SwitchTypeOK, WakeTypeOK
<1>3. ~(0 > HoldLimit)
  BY DEF HoldLimit
<1>4. [DeviceConfig EXCEPT !.ssid = @ /\ TRUE] = DeviceConfig
  BY <1>2 DEF Config
<1>5. QED
  BY <1>1, <1>2, <1>3, <1>4 DEF CheckWIFIReset, NoFault

\* A fault adds one to the count of faults, and nothing else does.
LEMMA FaultCounts ==
  ASSUME TypeOK
  PROVE  /\ \A name : Fault(name) => faults' = faults + 1
         /\ NoFault => faults' = faults
         /\ \A config : SaveConfig(config) => faults' \in {faults, faults + 1}
         /\ \A reading : QueueMessage(reading) => faults' \in {faults, faults + 1}
BY DEF Fault, NoFault, SaveConfig, QueueMessage

\* Losing RAM outside loop(), with a count and a quiet that still fit.
LEMMA HeartRestarted ==
  ASSUME NEW next, Restart(next), next \notin LoopStages, next # "ntp",
         rtcMem'.critical \in Nat, quiet' <= Kept' + 1 + faults'
  PROVE  HeartInv'
<1>1. /\ WIFIResetCount' = 0 /\ resetDevice' = FALSE /\ Critical_Flag' = 1
      /\ pc' = next /\ rtcData'.critical = 0
  BY DEF Restart
<1>2. NoRefusal'
  BY <1>1 DEF NoRefusal
<1>3. Counted'
  BY <1>1 DEF Counted
<1>4. ~Offline' /\ ~Online' /\ pc' # "ntp" /\ pc' \notin {"reset", "serve"}
  BY <1>1 DEF Offline, Online, LoopStages
<1>5. FaultInHand' /\ ToldOrCounting'
  BY <1>1, <1>4 DEF FaultInHand, ToldOrCounting
<1>6. QED
  BY <1>2, <1>3, <1>5 DEF HeartInv

\* A step of setup() on its way to the hub.
LEMMA HeartOnTheWay ==
  ASSUME TypeOK, HeartInv, pc \notin LoopStages, pc' \notin LoopStages,
         UNCHANGED <<WIFIResetCount, resetDevice, rtcMem, rtcData,
                     Critical_Flag, quiet>>,
         \/ faults' = faults /\ (pc' = "ntp" => pc = "ntp")
         \/ faults' = faults + 1
  PROVE  HeartInv'
<1>1. Kept' = Kept
  BY DEF Kept
<1>2. NoRefusal'
  BY DEF HeartInv, NoRefusal
<1>3. Counted'
  BY <1>1, HeartTypes DEF HeartInv, Counted
<1>4. ~Offline' /\ ~Online' /\ pc' \notin {"reset", "serve"}
  BY DEF Offline, Online, LoopStages
<1>5. pc' = "ntp" => quiet' <= Kept' + faults'
  BY <1>1, HeartTypes DEF HeartInv, Counted, FaultInHand
<1>6. FaultInHand' /\ ToldOrCounting'
  BY <1>4, <1>5 DEF FaultInHand, ToldOrCounting, HeartInv
<1>7. QED
  BY <1>2, <1>3, <1>6 DEF HeartInv

\* setup() enters loop(): as an access point, with a hub, or with a fault.
LEMMA HeartLoopEntered ==
  ASSUME TypeOK, HeartInv, pc \notin LoopStages, pc' = "loop",
         UNCHANGED <<WIFIResetCount, resetDevice, rtcMem, rtcData,
                     Critical_Flag, quiet>>,
         faults' \in {faults, faults + 1},
         AP' \/ hubConnected' \/ faults' = faults + 1
  PROVE  HeartInv'
<1>1. Kept' = Kept
  BY DEF Kept
<1>2. NoRefusal'
  BY DEF HeartInv, NoRefusal
<1>3. Counted'
  BY <1>1, HeartTypes DEF HeartInv, Counted
<1>4. Offline' => quiet' <= Kept' + faults'
  BY <1>1, HeartTypes DEF HeartInv, Counted, Offline
<1>5. FaultInHand'
  BY <1>4 DEF FaultInHand, Offline
<1>6. ToldOrCounting'
  BY DEF HeartInv, ToldOrCounting, LoopStages
<1>7. QED
  BY <1>2, <1>3, <1>5, <1>6 DEF HeartInv

LEMMA SetupStepHeart ==
  ASSUME HeartbeatWorld, TypeOK, HeartInv, SetupStep
  PROVE  HeartInv'
<1> USE DEF LoopStages
<1>1. CASE MountAndLoadConfig
  <2>1. /\ pc = "boot"
        /\ \/ pc' = "switch1" /\ faults' \in {faults, faults + 1}
           \/ pc' = "loop" /\ faults' = faults + 1
    BY <1>1, FaultCounts DEF MountAndLoadConfig
  <2>2. UNCHANGED <<WIFIResetCount, resetDevice, rtcMem, rtcData,
                    Critical_Flag, quiet>>
    BY <1>1 DEF MountAndLoadConfig, reportVars, lastingVars, hubVars
  <2>3. QED
    BY <2>1, <2>2, HeartOnTheWay, HeartLoopEntered
<1>2. CASE HoldSwitch
  BY <1>2 DEF HoldSwitch, HeartbeatWorld
<1>3. CASE ChooseMode
  BY <1>3, HeartOnTheWay
  DEF ChooseMode, switchVars, reportVars, lastingVars, hubVars
<1>4. CASE InitSensors
  <2>1. /\ pc = "switch2" /\ faults' \in {faults, faults + 1} /\ AP' = AP
        /\ pc' = IF AP THEN "loop" ELSE "connect"
    BY <1>4, FaultCounts DEF InitSensors
  <2>2. UNCHANGED <<WIFIResetCount, resetDevice, rtcMem, rtcData,
                    Critical_Flag, quiet>>
    BY <1>4 DEF InitSensors, switchVars, reportVars, lastingVars, hubVars
  <2>3. CASE AP
    BY <2>1, <2>2, <2>3, HeartLoopEntered
  <2>4. CASE ~AP
    BY <2>1, <2>2, <2>4, HeartOnTheWay
  <2>5. QED
    BY <2>3, <2>4
<1>5. CASE AlreadyConnected \/ BeginJoin
  BY <1>5, HeartOnTheWay
  DEF AlreadyConnected, BeginJoin, switchVars, reportVars, lastingVars, hubVars
<1>6. CASE AwaitJoin
  <2>1. PICK pressed \in Switch :
          \/ Restart("boot") /\ faults' \in {faults, faults + 1}
          \/ CheckWIFIReset(pressed) /\ UNCHANGED <<pc, reportVars>>
    BY <1>6, FaultCounts DEF AwaitJoin
  <2>2. pc = "joining" /\ UNCHANGED <<rtcMem, quiet>>
    BY <1>6 DEF AwaitJoin, hubVars
  <2>3. CASE Restart("boot") /\ faults' \in {faults, faults + 1}
    <3>1. rtcMem'.critical \in Nat /\ Kept' = Kept
      BY <2>2, HeartTypes DEF Kept
    <3>2. quiet' <= Kept' + 1 + faults'
      BY <2>2, <2>3, <3>1, HeartTypes DEF HeartInv, Counted
    <3>3. QED
      BY <2>3, <3>1, <3>2, HeartRestarted
  <2>4. CASE CheckWIFIReset(pressed) /\ UNCHANGED <<pc, reportVars>>
    <3>1. WIFIResetCount' = 0 /\ UNCHANGED <<resetDevice, faults>>
      BY <2>4, SwitchReleased DEF HeartbeatWorld
    <3>2. WIFIResetCount = 0
      BY <2>2 DEF HeartInv, NoRefusal
    <3>3. QED
      BY <2>2, <2>4, <3>1, <3>2, HeartOnTheWay DEF reportVars
  <2>5. QED
    BY <2>1, <2>3, <2>4
<1>7. CASE Joined \/ LeaveConnect \/ InitTime
  BY <1>7, HeartOnTheWay
  DEF Joined, LeaveConnect, InitTime, switchVars, reportVars, lastingVars,
      hubVars
<1>8. CASE FirstSync
  <2>1. /\ pc = "sync"
        /\ UNCHANGED <<WIFIResetCount, resetDevice, rtcMem, rtcData,
                       Critical_Flag, quiet>>
    BY <1>8 DEF FirstSync, switchVars, reportVars, lastingVars, hubVars
  <2>2. PICK accepted \in BOOLEAN :
          Sync(accepted) /\ pc' = IF accepted THEN "hub" ELSE "ntp"
    BY <1>8 DEF FirstSync
  <2>3. CASE accepted = YearAccepted /\ NoFault
    <3>1. accepted
      BY <2>3, Zenon DEF HeartbeatWorld
    <3>2. pc' = "hub" /\ faults' = faults
      BY <2>2, <2>3, <3>1 DEF NoFault
    <3>3. QED
      BY <2>1, <3>2, HeartOnTheWay
  <2>4. CASE accepted = FALSE /\ Fault("ntp")
    <3>1. pc' = "ntp" /\ faults' = faults + 1
      BY <2>2, <2>4 DEF Fault
    <3>2. QED
      BY <2>1, <3>1, HeartOnTheWay
  <2>5. QED
    BY <2>2, <2>3, <2>4 DEF Sync
<1>9. CASE RetrySync
  <2>1. pc = "ntp" /\ faults' \in {faults, faults + 1} /\ UNCHANGED rtcMem
    BY <1>9, FaultCounts DEF RetrySync, Sync, lastingVars
  <2>2. quiet <= Kept + faults
    BY <2>1 DEF HeartInv, FaultInHand
  <2>3. CASE Restart("asleep") /\ OneSleepMore
    <3>1. rtcMem'.critical \in Nat /\ Kept' = Kept
      BY <2>1, HeartTypes DEF Kept
    <3>2. quiet' <= Kept' + 1 + faults'
      BY <2>1, <2>2, <2>3, <3>1, HeartTypes DEF OneSleepMore
    <3>3. QED
      BY <2>3, <3>1, <3>2, HeartRestarted
  <2>4. CASE /\ pc' \in {"hub", "ntp"}
             /\ UNCHANGED <<switchVars, reportVars, quiet>>
    BY <2>1, <2>4, HeartOnTheWay DEF switchVars, reportVars
  <2>5. QED
    BY <1>9, <2>3, <2>4 DEF RetrySync
<1>10. CASE InitIOTHub
  <2>1. /\ pc = "hub" /\ pc' = "loop" /\ faults' \in {faults, faults + 1}
        /\ hubConnected' \/ faults' = faults + 1
    BY <1>10, FaultCounts DEF InitIOTHub
  <2>2. UNCHANGED <<WIFIResetCount, resetDevice, rtcMem, rtcData,
                    Critical_Flag, quiet>>
    BY <1>10 DEF InitIOTHub, switchVars, lastingVars, hubVars
  <2>3. QED
    BY <2>1, <2>2, HeartLoopEntered
<1>11. QED
  BY <1>1, <1>2, <1>3, <1>4, <1>5, <1>6, <1>7, <1>8, <1>9, <1>10
  DEF SetupStep

-----------------------------------------------------------------------------
(* The heartbeat in loop().                                                *)

\* What most steps of loop() leave alone.
Steady == /\ UNCHANGED <<AP, hubConnected, rtcMem>>
          /\ pc \in LoopStages /\ pc' \in LoopStages

\* Between two stages of loop() the count of sleeps stands still: quiet only
\* falls, and faults only grow.
LEMMA HeartSteady ==
  ASSUME TypeOK, HeartInv, Steady,
         quiet' = quiet \/ quiet' = 0, faults' \in {faults, faults + 1},
         rtcData'.critical \in Nat,
         ~AP => UNCHANGED <<resetDevice>> /\ WIFIResetCount' = 0
  PROVE  /\ NoRefusal' /\ Counted'
         /\ Offline' => Offline /\ quiet' <= Kept' + faults'
         /\ Online' = Online
<1>1. Kept' = Kept
  BY DEF Steady, Kept
<1>2. Counted'
  BY <1>1, HeartTypes DEF HeartInv, Counted, Steady
<1>3. NoRefusal'
  BY DEF HeartInv, NoRefusal, Steady
<1>4. Offline' => Offline
  BY DEF Offline, Steady
<1>5. Online' = Online
  BY DEF Online, Steady
<1>6. Offline => quiet <= Kept + faults
  BY DEF HeartInv, FaultInHand
<1>7. Offline' => quiet' <= Kept' + faults'
  BY <1>1, <1>4, <1>6, HeartTypes
<1>8. QED
  BY <1>2, <1>3, <1>4, <1>5, <1>7

\* An access point only has its counts to keep.
LEMMA HeartAccessPoint ==
  ASSUME TypeOK, HeartInv, Steady, AP, UNCHANGED <<quiet, Run_Flag>>,
         faults' \in {faults, faults + 1},
         rtcData'.critical \in Nat, pc' \notin {"reset", "serve"}
  PROVE  HeartInv'
<1>1. /\ NoRefusal' /\ Counted'
  BY HeartSteady
<1>2. ~Offline' /\ ~Online' /\ pc' # "ntp"
  BY DEF Steady, Offline, Online, LoopStages
<1>3. FaultInHand' /\ ToldOrCounting'
  BY <1>2 DEF FaultInHand, ToldOrCounting, Steady
<1>4. QED
  BY <1>1, <1>3 DEF HeartInv

\* A round of loop() up to the queue.
LEMMA HeartBeforeQueue ==
  ASSUME HeartbeatWorld, TypeOK, HeartInv,
         \/ ReadAndCompare \/ EnterBlock \/ CountReset
         \/ ServePage \/ handleSubmit \/ handleSetupSubmit
         \/ ServeOffline \/ RefuseReport \/ SendReport \/ AwaitReport
  PROVE  HeartInv'
<1> USE DEF LoopStages
<1>1. CASE ReadAndCompare
  <2>1. /\ pc = "loop" /\ pc' \in {"block", "decide"}
        /\ UNCHANGED <<AP, hubConnected, rtcMem, quiet, faults, resetDevice,
                       WIFIResetCount, Critical_Flag, Run_Flag, waiting,
                       messagePending>>
    BY <1>1 DEF ReadAndCompare, setupVars, lastingVars, hubVars, switchVars,
                queueVars
  <2>2. rtcMem \in Memory
    BY DEF TypeOK, LastingTypeOK
  <2>3. SanitiseAll(rtcMem).critical = rtcMem.critical
    BY <2>2 DEF SanitiseAll, Memory
  <2>4. rtcData'.critical = IF AP THEN rtcData.critical ELSE rtcMem.critical
    BY <1>1, <2>3 DEF ReadAndCompare
  <2>5. ~AP /\ pc' = "decide" => ~(rtcData'.critical >= Max_Time)
    BY <1>1 DEF ReadAndCompare, BlockDue
  <2>6. rtcData'.critical \in Nat
    BY <2>4, HeartTypes
  <2>7. ~AP => WIFIResetCount' = 0
    BY <2>1 DEF HeartInv, NoRefusal
  <2>8. /\ NoRefusal' /\ Counted' /\ Online' = Online
        /\ Offline' => quiet' <= Kept' + faults'
    BY <2>1, <2>6, <2>7, HeartSteady DEF Steady
  <2>9. FaultInHand'
    BY <2>1, <2>4, <2>8 DEF FaultInHand, Offline
  <2>10. ToldOrCounting'
    <3>1. Online' /\ quiet' # 0 =>
            Critical_Flag = 1 \/ (waiting # <<>> /\ messagePending)
      BY <2>1, <2>8 DEF HeartInv, ToldOrCounting
    <3>2. Online' /\ pc' = "decide" =>
            rtcData'.critical = rtcMem'.critical /\ rtcMem'.critical < Max_Time
      BY <2>1, <2>4, <2>5, HeartTypes DEF Online
    <3>3. QED
      BY <2>1, <3>1, <3>2 DEF ToldOrCounting
  <2>11. QED
    BY <2>8, <2>9, <2>10 DEF HeartInv
<1>2. CASE EnterBlock
  <2>1. /\ pc = "block" /\ pc' = "reset" /\ Run_Flag' = 1
        /\ UNCHANGED <<AP, hubConnected, rtcMem, quiet, rtcData, Critical_Flag,
                       waiting>>
    BY <1>2 DEF EnterBlock, setupVars, hubVars
  <2>2. /\ UNCHANGED <<faults, resetDevice, messagePending>>
        /\ WIFIResetCount' = 0
    BY <1>2, SwitchReleased DEF HeartbeatWorld, EnterBlock
  <2>3. /\ NoRefusal' /\ Counted' /\ Online' = Online
        /\ Offline' => Offline /\ quiet' <= Kept' + faults'
    BY <2>1, <2>2, HeartSteady, HeartTypes DEF Steady
  <2>4. FaultInHand'
    BY <2>1, <2>3 DEF FaultInHand, HeartInv
  <2>5. ToldOrCounting'
    BY <2>1, <2>2, <2>3 DEF ToldOrCounting, HeartInv
  <2>6. QED
    BY <2>3, <2>4, <2>5 DEF HeartInv
<1>3. CASE CountReset
  <2>1. pc = "reset" /\ UNCHANGED <<rtcMem, quiet, faults>>
    BY <1>3 DEF CountReset, lastingVars, hubVars
  <2>2. CASE Restart("boot")
    <3>1. rtcMem'.critical \in Nat /\ Kept' = Kept
      BY <2>1, HeartTypes DEF Kept
    <3>2. quiet' <= Kept' + 1 + faults'
      BY <2>1, <3>1, HeartTypes DEF HeartInv, Counted
    <3>3. QED
      BY <2>2, <3>1, <3>2, HeartRestarted
  <2>3. CASE /\ pc' = "serve"
             /\ UNCHANGED <<setupVars, WIFIResetCount, resetDevice, reportVars,
                            queueVars>>
    <3>1. UNCHANGED <<AP, hubConnected, rtcData, Critical_Flag, Run_Flag,
                      waiting, messagePending>>
      BY <2>3 DEF setupVars, reportVars, queueVars
    <3>2. ~AP => WIFIResetCount' = 0
      BY <2>1, <2>3 DEF HeartInv, NoRefusal
    <3>3. /\ NoRefusal' /\ Counted' /\ Online' = Online
          /\ Offline' => Offline /\ quiet' <= Kept' + faults'
      BY <2>1, <2>3, <3>1, <3>2, HeartSteady, HeartTypes DEF Steady
    <3>4. FaultInHand'
      BY <2>1, <2>3, <3>1, <3>3 DEF FaultInHand, HeartInv
    <3>5. ToldOrCounting'
      BY <2>1, <2>3, <3>1, <3>3 DEF ToldOrCounting, HeartInv
    <3>6. QED
      BY <3>3, <3>4, <3>5 DEF HeartInv
  <2>4. QED
    BY <1>3, <2>2, <2>3 DEF CountReset
<1>4. CASE ServePage \/ handleSubmit \/ handleSetupSubmit
  <2>1. /\ pc = "serve" /\ pc' = "decide" /\ AP
        /\ UNCHANGED <<AP, hubConnected, rtcMem, rtcData, quiet, Run_Flag>>
    BY <1>4 DEF ServePage, handleSubmit, handleSetupSubmit, Submit, setupVars,
                lastingVars, reportVars, hubVars
  <2>2. faults' \in {faults, faults + 1}
    BY <1>4, FaultCounts
    DEF ServePage, handleSubmit, handleSetupSubmit, Submit
  <2>3. QED
    BY <2>1, <2>2, HeartAccessPoint, HeartTypes DEF Steady
<1>5. CASE ServeOffline
  <2>1. /\ pc = "serve" /\ pc' = "decide" /\ ~AP /\ ~hubConnected
        /\ UNCHANGED <<AP, hubConnected, rtcMem, quiet, faults, rtcData,
                       resetDevice, WIFIResetCount>>
    BY <1>5 DEF ServeOffline, setupVars, switchVars, lastingVars, hubVars
  <2>2. WIFIResetCount' = 0
    BY <2>1 DEF HeartInv, NoRefusal
  <2>3. /\ NoRefusal' /\ Counted'
        /\ Offline' => Offline /\ quiet' <= Kept' + faults'
    BY <2>1, <2>2, HeartSteady, HeartTypes DEF Steady
  <2>4. FaultInHand'
    BY <2>1, <2>3 DEF FaultInHand, HeartInv
  <2>5. ToldOrCounting'
    BY <2>1 DEF ToldOrCounting, Online
  <2>6. QED
    BY <2>3, <2>4, <2>5 DEF HeartInv
<1>6. CASE RefuseReport
  BY <1>6 DEF RefuseReport, SendDue, HeartInv, NoRefusal, TypeOK, SwitchTypeOK
<1>7. CASE SendReport
  <2>1. /\ pc = "serve" /\ pc' = "event" /\ ~AP /\ hubConnected
        /\ UNCHANGED <<AP, hubConnected, rtcMem, quiet, resetDevice,
                       WIFIResetCount>>
        /\ rtcData'.critical = 0
    BY <1>7 DEF SendReport, SendDue, TakeBaseline, setupVars, switchVars,
                lastingVars, hubVars
  <2>2. PICK reading : QueueMessage(reading)
    BY <1>7 DEF SendReport, ReadAndQueue
  <2>3. waiting' = Append(waiting, reading) /\ messagePending'
    BY <2>2 DEF QueueMessage, Fault, HeartbeatWorld
  <2>4. waiting \in Seq(Reading)
    BY DEF TypeOK, QueueTypeOK
  <2>5. waiting' # <<>>
    BY <2>3, <2>4
  <2>6. faults' \in {faults, faults + 1}
    BY <2>2, FaultCounts
  <2>7. WIFIResetCount' = 0
    BY <2>1 DEF HeartInv, NoRefusal
  <2>8. NoRefusal' /\ Counted'
    BY <2>1, <2>6, <2>7, HeartSteady DEF Steady
  <2>9. FaultInHand'
    BY <2>1 DEF FaultInHand, Offline
  <2>10. ToldOrCounting'
    BY <2>1, <2>3, <2>5 DEF ToldOrCounting
  <2>11. QED
    BY <2>8, <2>9, <2>10 DEF HeartInv
<1>8. CASE AwaitReport
  <2>1. /\ pc = "serve" /\ pc' = "event" /\ ~AP /\ hubConnected
        /\ UNCHANGED <<AP, hubConnected, rtcMem, quiet, faults, rtcData,
                       resetDevice, WIFIResetCount, Critical_Flag, Run_Flag,
                       waiting, messagePending>>
    BY <1>8 DEF AwaitReport, setupVars, switchVars, reportVars, queueVars,
                lastingVars, hubVars
  <2>2. WIFIResetCount' = 0
    BY <2>1 DEF HeartInv, NoRefusal
  <2>3. NoRefusal' /\ Counted' /\ Online' = Online
    BY <2>1, <2>2, HeartSteady, HeartTypes DEF Steady
  <2>4. FaultInHand'
    BY <2>1 DEF FaultInHand, Offline
  <2>5. Run_Flag' = 1
    BY <2>1 DEF HeartInv, ToldOrCounting
  <2>6. ToldOrCounting'
    BY <2>1, <2>3, <2>5 DEF ToldOrCounting, HeartInv
  <2>7. QED
    BY <2>3, <2>4, <2>6 DEF HeartInv
<1>9. QED
  BY <1>1, <1>2, <1>3, <1>4, <1>5, <1>6, <1>7, <1>8

\* A step from the queue on: the hub is told, or what was pending stays so.
LEMMA HeartQueued ==
  ASSUME TypeOK, HeartInv, Steady, pc \in {"event", "sent", "poll"},
         pc' \in {"sent", "poll", "decide"},
         UNCHANGED <<rtcData, Critical_Flag, Run_Flag, WIFIResetCount,
                     resetDevice>>,
         faults' \in {faults, faults + 1},
         \/ quiet' = 0
         \/ /\ quiet' = quiet
            /\ pc # "sent" \/ ~Online
            /\ pc' # "sent"
            /\ messagePending => messagePending'
            /\ waiting # <<>> => waiting' # <<>>
  PROVE  HeartInv'
<1>1. ~Offline /\ ~Offline'
  BY DEF HeartInv, FaultInHand, Offline, Steady
<1>2. ~AP => WIFIResetCount' = 0
  BY DEF HeartInv, NoRefusal, Steady
<1>3. NoRefusal' /\ Counted' /\ Online' = Online
  BY <1>2, HeartSteady, HeartTypes
<1>4. FaultInHand'
  BY <1>1 DEF FaultInHand
<1>5. ToldOrCounting'
  <2>1. pc' \in LoopStages /\ pc' \notin {"reset", "serve", "event"}
    BY DEF Steady
  <2>2. CASE quiet' = 0
    BY <2>1, <2>2 DEF ToldOrCounting
  <2>3. CASE /\ quiet' = quiet
             /\ pc # "sent" \/ ~Online
             /\ pc' # "sent"
             /\ messagePending => messagePending'
             /\ waiting # <<>> => waiting' # <<>>
    BY <1>3, <2>1, <2>3 DEF ToldOrCounting, HeartInv
  <2>4. QED
    BY <2>2, <2>3
<1>6. QED
  BY <1>3, <1>4, <1>5 DEF HeartInv

\* A command other than ClearWIFI, whatever it reads, saves or queues.
LEMMA ReceiveHeart ==
  ASSUME TypeOK, HeartInv, NEW name, Receive(name), UNCHANGED resetDevice,
         \/ UNCHANGED queueVars /\ NoFault
         \/ UNCHANGED queueVars /\ SaveConfig(DeviceConfig)
         \/ \E reading : QueueMessage(reading)
  PROVE  HeartInv'
<1>1. /\ pc = "poll" /\ pc' = "decide"
      /\ UNCHANGED <<AP, hubConnected, rtcMem, rtcData, Critical_Flag, Run_Flag,
                     WIFIResetCount, quiet>>
  BY DEF Receive, setupVars, hubVars
<1>2. faults' \in {faults, faults + 1}
  BY FaultCounts
<1>3. waiting \in Seq(Reading)
  BY DEF TypeOK, QueueTypeOK
<1>4. /\ messagePending => messagePending'
      /\ waiting # <<>> => waiting' # <<>>
  <2>1. CASE UNCHANGED queueVars
    BY <2>1 DEF queueVars
  <2>2. ASSUME NEW reading, waiting' = Append(waiting, reading)
        PROVE  waiting' # <<>>
    BY <1>3, <2>2
  <2>3. QED
    BY <2>1, <2>2 DEF QueueMessage
<1>5. QED
  BY <1>1, <1>2, <1>4, HeartQueued DEF Steady, LoopStages

LEMMA HeartFromQueue ==
  ASSUME HeartbeatWorld, TypeOK, HeartInv,
         \/ PostAccepted \/ PostFailed \/ NothingToPost
         \/ HoldInCallback \/ OnMessageSentCallback
         \/ PollEmpty \/ ReceiveSendData \/ ReceiveDisplayDistance
         \/ ReceiveClearWIFI \/ ReceiveConfigInterval \/ ReceiveOther
  PROVE  HeartInv'
<1> USE DEF LoopStages
<1>1. CASE PostAccepted
  <2>1. /\ pc = "event" /\ pc' = "sent" /\ quiet' = 0
        /\ UNCHANGED <<AP, hubConnected, rtcMem, faults, rtcData, Critical_Flag,
                       Run_Flag, WIFIResetCount, resetDevice>>
    BY <1>1 DEF PostAccepted, HubReceives, setupVars, switchVars, reportVars,
                lastingVars
  <2>2. QED
    BY <2>1, HeartQueued DEF Steady
<1>2. CASE PostFailed
  <2>1. /\ pc = "event" /\ pc' = "poll" /\ quiet' \in {quiet, 0}
        /\ UNCHANGED <<AP, hubConnected, rtcMem, rtcData, Critical_Flag,
                       Run_Flag, WIFIResetCount, resetDevice, waiting,
                       messagePending>>
        /\ faults' = faults + 1
    BY <1>2 DEF PostFailed, Fault, HubReceives, setupVars, switchVars,
                reportVars, lastingVars, queueVars, hubVars
  <2>2. QED
    BY <2>1, HeartQueued DEF Steady
<1>3. CASE NothingToPost
  <2>1. /\ pc = "event" /\ pc' = "poll"
        /\ UNCHANGED <<AP, hubConnected, rtcMem, rtcData, Critical_Flag,
                       Run_Flag, WIFIResetCount, resetDevice, waiting,
                       messagePending, quiet, faults>>
    BY <1>3 DEF NothingToPost, setupVars, switchVars, reportVars, lastingVars,
                queueVars, hubVars
  <2>2. QED
    BY <2>1, HeartQueued DEF Steady
<1>4. CASE HoldInCallback
  BY <1>4 DEF HoldInCallback, HeartbeatWorld
<1>5. CASE OnMessageSentCallback
  <2>1. /\ pc = "sent" /\ pc' = "poll"
        /\ UNCHANGED <<AP, hubConnected, rtcMem, rtcData, Critical_Flag,
                       Run_Flag, WIFIResetCount, resetDevice, waiting,
                       quiet, faults>>
    BY <1>5 DEF OnMessageSentCallback, setupVars, switchVars, reportVars,
                lastingVars, hubVars
  <2>2. CASE quiet = 0
    BY <2>1, <2>2, HeartQueued DEF Steady
  <2>3. CASE quiet # 0
    <3>1. ~Online /\ ~Offline
      BY <2>1, <2>3 DEF HeartInv, ToldOrCounting, FaultInHand
    <3>2. AP
      BY <2>1, <3>1 DEF Online, Offline, TypeOK, SetupTypeOK
    <3>3. QED
      BY <2>1, <3>2, HeartAccessPoint, HeartTypes DEF Steady
  <2>4. QED
    BY <2>2, <2>3
<1>6. CASE PollEmpty
  <2>1. /\ pc = "poll" /\ pc' = "decide"
        /\ UNCHANGED <<AP, hubConnected, rtcMem, rtcData, Critical_Flag,
                       Run_Flag, WIFIResetCount, resetDevice, waiting,
                       messagePending, quiet, faults>>
    BY <1>6 DEF PollEmpty, setupVars, switchVars, lastingVars, queueVars,
                hubVars
  <2>2. QED
    BY <2>1, HeartQueued DEF Steady
<1>7. CASE ReceiveSendData
  BY <1>7, ReceiveHeart DEF ReceiveSendData, ReadAndQueue
<1>8. CASE ReceiveDisplayDistance \/ ReceiveOther
  BY <1>8, ReceiveHeart DEF ReceiveDisplayDistance, ReceiveOther
<1>9. CASE ReceiveClearWIFI
  BY <1>9 DEF ReceiveClearWIFI, Receive, HeartbeatWorld
<1>10. CASE ReceiveConfigInterval
  BY <1>10, ReceiveHeart DEF ReceiveConfigInterval
<1>11. QED
  BY <1>1, <1>2, <1>3, <1>4, <1>5, <1>6, <1>7, <1>8, <1>9, <1>10

LEMMA StayAwakeHeart ==
  ASSUME TypeOK, HeartInv, StayAwake
  PROVE  HeartInv'
<1>1. /\ pc = "decide" /\ pc' = "loop"
      /\ UNCHANGED <<AP, hubConnected, rtcMem, rtcData, Critical_Flag,
                     Run_Flag, WIFIResetCount, resetDevice, waiting,
                     messagePending, quiet, faults>>
  BY DEF StayAwake, setupVars, switchVars, reportVars, lastingVars, queueVars,
         hubVars
<1>2. Steady /\ (~AP => WIFIResetCount' = 0)
  BY <1>1 DEF HeartInv, NoRefusal, Steady, LoopStages
<1>3. /\ NoRefusal' /\ Counted' /\ Online' = Online
      /\ Offline' => quiet' <= Kept' + faults'
  BY <1>1, <1>2, HeartSteady, HeartTypes
<1>4. FaultInHand'
  BY <1>1, <1>3 DEF FaultInHand
<1>5. ToldOrCounting'
  BY <1>1, <1>3 DEF ToldOrCounting, HeartInv, LoopStages
<1>6. QED
  BY <1>3, <1>4, <1>5 DEF HeartInv

\* Each sleep is counted, is paid for with a fault, or follows a report.
LEMMA SleepHeart ==
  ASSUME TypeOK, HeartInv, Sleep
  PROVE  HeartInv'
<1>1. /\ pc = "decide" /\ ~AP /\ Run_Flag = 0 /\ ~messagePending
      /\ Restart("asleep") /\ faults' = faults
      /\ quiet' \in {quiet, quiet + 1}
  BY DEF Sleep, MaySleep, OneSleepMore
<1>2. rtcMem'.critical = rtcData.critical + Critical_Flag
  BY DEF Sleep, TypeOK, ReportTypeOK, Memory
<1>3. rtcMem'.critical \in Nat
  BY <1>2, HeartTypes
<1>4. quiet' <= Kept' + 1 + faults'
  <2>1. Kept' \in Nat
    BY <1>3, BoundAssumption DEF Kept
  <2>2. CASE hubConnected /\ quiet = 0
    BY <1>1, <2>1, <2>2, HeartTypes
  <2>3. CASE hubConnected /\ quiet # 0
    <3>1. /\ Critical_Flag = 1
          /\ rtcData.critical = rtcMem.critical /\ rtcMem.critical < Max_Time
      BY <1>1, <2>3 DEF HeartInv, ToldOrCounting, Online, LoopStages
    <3>2. Kept' = Kept + 1
      BY <1>2, <3>1, HeartTypes DEF Kept
    <3>3. QED
      BY <1>1, <3>2, HeartTypes DEF HeartInv, Counted
  <2>4. CASE ~hubConnected
    <3>1. quiet <= Kept + faults /\ rtcData.critical = rtcMem.critical
      BY <1>1, <2>4 DEF HeartInv, FaultInHand, Offline, LoopStages
    <3>2. Kept <= Kept'
      BY <1>2, <3>1, HeartTypes DEF Kept
    <3>3. QED
      BY <1>1, <2>1, <3>1, <3>2, HeartTypes
  <2>5. QED
    BY <2>2, <2>3, <2>4
<1>5. QED
  BY <1>1, <1>3, <1>4, HeartRestarted DEF LoopStages

LEMMA NextHeart ==
  ASSUME HeartbeatWorld, TypeOK, HeartInv, [Next]_vars
  PROVE  HeartInv'
<1>1. CASE LoopStep
  BY <1>1, HeartBeforeQueue, HeartFromQueue, StayAwakeHeart, SleepHeart
  DEF LoopStep
<1>2. CASE Wake
  BY <1>2, HeartOnTheWay
  DEF Wake, switchVars, reportVars, lastingVars, hubVars, LoopStages
<1>3. CASE Drift \/ UNCHANGED vars
  <2>1. UNCHANGED <<pc, AP, hubConnected, rtcMem, rtcData, Critical_Flag,
                    Run_Flag, WIFIResetCount, resetDevice, waiting,
                    messagePending, quiet, faults>>
    BY <1>3 DEF Drift, vars, setupVars, switchVars, reportVars, lastingVars,
                queueVars, hubVars
  <2>2. Kept' = Kept /\ Offline' = Offline /\ Online' = Online
    BY <2>1 DEF Kept, Offline, Online
  <2>3. NoRefusal' /\ Counted'
    BY <2>1, <2>2 DEF HeartInv, NoRefusal, Counted
  <2>4. FaultInHand'
    BY <2>1, <2>2 DEF HeartInv, FaultInHand
  <2>5. ToldOrCounting'
    BY <2>1, <2>2 DEF HeartInv, ToldOrCounting
  <2>6. QED
    BY <2>3, <2>4, <2>5 DEF HeartInv
<1>4. CASE PowerLoss
  <2>1. Restart("boot") /\ rtcMem'.critical \in Nat
    BY <1>4 DEF PowerLoss, PowerUpMemory, HeartbeatWorld
  <2>2. quiet' = 0 /\ faults' \in Nat
    BY <1>4, HeartTypes DEF PowerLoss, Fault
  <2>3. quiet' <= Kept' + 1 + faults'
    <3>1. Kept' \in Nat
      BY <2>1, BoundAssumption DEF Kept
    <3>2. \A m, n \in Nat : 0 <= m + 1 + n
      OBVIOUS
    <3>3. QED
      BY <2>2, <3>1, <3>2
  <2>4. "boot" \notin LoopStages
    BY DEF LoopStages
  <2>5. QED
    BY <2>1, <2>3, <2>4, HeartRestarted
<1>5. QED
  BY <1>1, <1>2, <1>3, <1>4, SetupStepHeart DEF Next, DeviceStep

\* Power-up: nothing was heard, and nothing has been slept through.
LEMMA InitHeart ==
  ASSUME HeartbeatWorld, Init
  PROVE  HeartInv
<1>1. /\ WIFIResetCount = 0 /\ ~resetDevice /\ Critical_Flag = 1
      /\ pc = "boot" /\ rtcData.critical = 0 /\ quiet = 0 /\ faults = 0
  BY DEF Init
<1>2. rtcMem.critical \in Nat
  BY DEF Init, PowerUpMemory, HeartbeatWorld
<1>3. Kept \in Nat
  BY <1>2, BoundAssumption DEF Kept
<1>4. NoRefusal /\ Counted
  BY <1>1, <1>2, <1>3 DEF NoRefusal, Counted
<1>5. FaultInHand /\ ToldOrCounting
  BY <1>1 DEF FaultInHand, ToldOrCounting, Offline, Online, LoopStages
<1>6. QED
  BY <1>4, <1>5 DEF HeartInv

\* Where no report is refused for the sake of a reset, the hub hears from the
\* device within the heartbeat interval, one sleep more for each fault.
THEOREM HeartbeatIsKept ==
  ASSUME HeartbeatWorld
  PROVE  Spec => []HeartbeatOnTime
<1>1. Init => HeartInv
  BY InitHeart
<1>2. TypeOK /\ HeartInv => HeartbeatOnTime
  BY HeartTypes DEF HeartInv, Counted, HeartbeatOnTime
<1>3. TypeOK /\ HeartInv /\ [Next]_vars => HeartInv'
  BY NextHeart
<1>4. QED
  BY <1>1, <1>2, <1>3, TypeCorrect, PTL DEF Spec

-----------------------------------------------------------------------------
(* What the hub knows.  It needs a world in which a wake measures the same   *)
(* twice, within the range that lines 211-217 leave alone, and in which      *)
(* nothing is refused: no press, no ClearWIFI, no full client.               *)

SyncWorld ==
  /\ Readings \subseteq 0..200 /\ ~DriftAwake
  /\ "queue" \notin Faults /\ "ClearWIFI" \notin Commands
  /\ TRUE \notin Switch

\* What the sensors that started in this wake answer throughout it.
Now == [c \in Channels |->
          IF c = "Distance" THEN GetDistance
          ELSE IF environmentSensor THEN level[c] ELSE 0]

\* RTC memory holds what the hub heard last, and a count it has slept through.
InStep == HubInformed =>
            /\ hubView = rtcMem.value
            /\ rtcMem.critical < quiet \/ Max_Time < quiet
Reloaded == rtcData \in {rtcMem, SanitiseAll(rtcMem)}
Rebased == /\ rtcData.value = DeviceData /\ rtcData.critical = 0
           /\ Critical_Flag = 0
Due == rtcData.critical >= Max_Time \/ Differs(rtcData.value, DeviceData)

StationStages == {"connect", "joining", "switch3", "clock", "sync", "ntp", "hub"}

\* Whatever has no hub leaves RTC memory as it was; nothing is measured, and
\* nothing pends, before loop().
BeforeHub ==
  /\ ~hubConnected => InStep /\ waiting = <<>> /\ ~messagePending
  /\ hubConnected => pc \in LoopStages /\ ~AP
  /\ pc \in StationStages => ~AP
  /\ pc \notin LoopStages => DeviceData = ZeroReading /\ Run_Flag = 0
  /\ ~hubConnected /\ ~AP /\ pc \in LoopStages \ {"loop"} => Reloaded
  /\ ~hubConnected => pc \notin {"event", "sent", "poll"}

\* Whatever a connected wake has measured or queued is what it measures now.
Measured ==
  /\ ~environmentSensor => \A c \in EnvChannels : DeviceData[c] = 0
  /\ pc # "loop" \/ Run_Flag = 1 \/ messagePending => DeviceData = Now
  /\ \A i \in DOMAIN waiting : waiting[i] = Now

\* A wake that has sent nothing has told the hub nothing.
UnsentWake == "SendData" \notin Commands /\ wake.sends = 0
Untold ==
  /\ UnsentWake => InStep /\ waiting = <<>> /\ pc # "sent"
  /\ pc = "loop" /\ Run_Flag = 0 /\ ~messagePending => InStep

\* From the block to the sleep: Run_Flag comes down only with a new baseline,
\* and messagePending only when the hub has received that reading.
Reported ==
  /\ pc \in {"block", "reset", "serve"} => Reloaded /\ Due
  /\ pc \in {"reset", "serve"} => Run_Flag = 1
  /\ pc = "event" /\ Run_Flag = 0 => messagePending
  /\ pc \in {"event", "sent", "poll"} /\ Run_Flag = 0 => Rebased
  /\ pc = "sent" => hubView = Now
  /\ pc = "poll" /\ Run_Flag = 0 /\ ~messagePending => hubView = Now
  /\ pc = "decide" /\ Run_Flag = 0 /\ ~messagePending =>
       \/ hubView = Now /\ Rebased
       \/ InStep /\ Reloaded /\ ~Differs(rtcData.value, DeviceData)

SyncInv == /\ BeforeHub /\ NoRefusal
           /\ hubConnected => Measured /\ Untold /\ Reported

-----------------------------------------------------------------------------
(* Readings and memory.                                                    *)

LEMMA SyncTypes ==
  ASSUME TypeOK
  PROVE  /\ DeviceData \in Reading /\ rtcMem \in Memory /\ rtcData \in Memory
         /\ hubView \in Reading \cup {NoReading} /\ NoReading \notin Reading
         /\ quiet \in 0..MaxQuiet /\ MaxQuiet \in Nat /\ Max_Time + 2 <= MaxQuiet
         /\ Max_Time \in Nat \ {0}
         /\ Critical_Flag \in {0, 1} /\ Run_Flag \in {0, 1}
         /\ messagePending \in BOOLEAN /\ waiting \in Seq(Reading)
         /\ environmentSensor \in BOOLEAN /\ hubConnected \in BOOLEAN
         /\ AP \in BOOLEAN
BY BoundAssumption, ReadingAssumption
DEF TypeOK, SetupTypeOK, ReportTypeOK, QueueTypeOK, LastingTypeOK, HubTypeOK,
    MaxQuiet, Reading

\* What the sensors answer is a reading.
LEMMA NowIsReading ==
  ASSUME TypeOK
  PROVE  Now \in Reading
<1>1. GetDistance \in Readings
  BY GetDistanceType
<1>2. \A c \in Channels : level[c] \in Readings
  BY DEF TypeOK, Measurable, Readings
<1>3. 0 \in Readings
  BY DEF Readings
<1>4. QED
  BY <1>1, <1>2, <1>3 DEF Now, Reading

\* The first reading of a wake is what its sensors answer.
LEMMA FirstReading ==
  ASSUME TypeOK, ~environmentSensor => \A c \in EnvChannels : DeviceData[c] = 0
  PROVE  ReadAll(GetDistance) = Now
<1>1. \A c \in Channels : c # "Distance" => c \in EnvChannels
  BY DEF Channels
<1>2. QED
  BY <1>1 DEF ReadAll, SetEnvironment, Now

\* So is every later one.
LEMMA LaterReadings ==
  ASSUME TypeOK, DeviceData = Now
  PROVE  /\ ReadAll(IF distanceSensor THEN GetDistance
                                      ELSE DeviceData["Distance"]) = Now
         /\ [DeviceData EXCEPT !["Distance"] = GetDistance] = Now
         /\ ~environmentSensor => \A c \in EnvChannels : DeviceData[c] = 0
<1>1. \A c \in Channels : c # "Distance" => c \in EnvChannels
  BY DEF Channels
<1>2. "Distance" \in Channels /\ EnvChannels \subseteq Channels
      /\ "Distance" \notin EnvChannels
  BY ReadingAssumption DEF Channels
<1>3. DeviceData["Distance"] = GetDistance
  BY <1>2 DEF Now
<1>4. ~environmentSensor => \A c \in EnvChannels : DeviceData[c] = 0
  BY <1>2 DEF Now
<1>5. ReadAll(GetDistance) = Now
  BY <1>4, FirstReading
<1>6. [DeviceData EXCEPT !["Distance"] = GetDistance] = Now
  BY <1>2 DEF Now
<1>7. QED
  BY <1>3, <1>4, <1>5, <1>6

\* No reading is apart from itself.
LEMMA SameReading ==
  ASSUME NEW reading \in Reading
  PROVE  ~Differs(reading, reading)
<1>1. Readings \subseteq Int
  BY ReadingAssumption DEF Readings
<1>2. \A x \in Int : ~(Abs(x - x) > Threshold)
  BY DEF Abs, Threshold
<1>3. \A c \in Channels : reading[c] \in Int
  BY <1>1 DEF Reading
<1>4. QED
  BY <1>2, <1>3 DEF Differs, Apart

\* The range check leaves readings of that world alone, and every count.
LEMMA SanitiseKeeps ==
  ASSUME SyncWorld, TypeOK, Reloaded
  PROVE  /\ rtcData.critical = rtcMem.critical
         /\ rtcMem.value \in Reading => rtcData.value = rtcMem.value
<1>1. rtcMem \in Memory
  BY SyncTypes
<1>2. SanitiseAll(rtcMem).critical = rtcMem.critical
  BY <1>1 DEF SanitiseAll, Memory
<1>3. ASSUME rtcMem.value \in Reading
      PROVE  SanitiseAll(rtcMem).value = rtcMem.value
  <2>1. \A c \in Channels : Sanitise(rtcMem.value[c]) = rtcMem.value[c]
    <3> TAKE c \in Channels
    <3>1. rtcMem.value[c] \in 0..200
      BY <1>3 DEF SyncWorld, Reading
    <3>2. QED
      BY <3>1 DEF Sanitise
  <2>2. SanitiseAll(rtcMem).value = [c \in Channels |-> Sanitise(rtcMem.value[c])]
    BY <1>1 DEF SanitiseAll, Memory
  <2>3. QED
    BY <1>3, <2>1, <2>2 DEF Reading
<1>4. QED
  BY <1>2, <1>3 DEF Reloaded

\* A hub that is in step knows what the wake compares its reading with.
LEMMA InStepReloaded ==
  ASSUME SyncWorld, TypeOK, InStep, Reloaded, HubInformed
  PROVE  /\ hubView \in Reading
         /\ rtcData.value = hubView /\ rtcData.critical = rtcMem.critical
         /\ rtcMem.critical < quiet \/ Max_Time < quiet
<1>1. hubView \in Reading
  BY SyncTypes DEF HubInformed
<1>2. QED
  BY <1>1, SanitiseKeeps DEF InStep

-----------------------------------------------------------------------------
(* Frames.                                                                 *)

LEMMA InStepKept ==
  ASSUME InStep, UNCHANGED <<rtcMem, hubVars>>
  PROVE  InStep'
BY DEF InStep, HubInformed, hubVars

LEMMA NowKept ==
  ASSUME UNCHANGED <<distanceSensor, environmentSensor, level>>
  PROVE  Now' = Now
BY DEF Now, GetDistance

\* RAM is lost, and the hub is in step with what is left.
LEMMA SyncRestarted ==
  ASSUME NEW next \in {"boot", "asleep"}, Restart(next), InStep'
  PROVE  SyncInv'
<1>1. /\ pc' = next /\ ~hubConnected' /\ waiting' = <<>> /\ ~messagePending'
      /\ DeviceData' = ZeroReading /\ Run_Flag' = 0
      /\ WIFIResetCount' = 0 /\ ~resetDevice'
  BY DEF Restart
<1>2. pc' \notin LoopStages /\ pc' \notin StationStages
  BY <1>1 DEF LoopStages, StationStages
<1>3. ZeroReading' = ZeroReading
  BY DEF ZeroReading
<1>4. BeforeHub'
  BY <1>1, <1>2, <1>3 DEF BeforeHub, LoopStages
<1>5. NoRefusal'
  BY <1>1 DEF NoRefusal
<1>6. QED
  BY <1>1, <1>4, <1>5 DEF SyncInv

\* A step of setup(), up to and into the first round of loop().
LEMMA SyncOnTheWay ==
  ASSUME TypeOK, SyncInv, pc \notin LoopStages,
         pc' \notin LoopStages \/ pc' = "loop",
         ~hubConnected' \/ (pc' = "loop" /\ ~AP'),
         pc' \in StationStages => ~AP',
         UNCHANGED <<rtcMem, hubVars, queueVars, DeviceData, Run_Flag,
                     WIFIResetCount, resetDevice>>
  PROVE  SyncInv'
<1>1. /\ ~hubConnected /\ InStep /\ waiting = <<>> /\ ~messagePending
      /\ DeviceData = ZeroReading /\ Run_Flag = 0
  BY DEF SyncInv, BeforeHub
<1>2. WIFIResetCount = 0 /\ ~resetDevice
  BY DEF SyncInv, NoRefusal
<1>3. /\ InStep' /\ waiting' = <<>> /\ ~messagePending'
      /\ DeviceData' = ZeroReading /\ Run_Flag' = 0
      /\ WIFIResetCount' = 0 /\ ~resetDevice'
  BY <1>1, <1>2, InStepKept DEF queueVars
<1>4. ZeroReading' = ZeroReading
  BY DEF ZeroReading
<1>5. BeforeHub'
  BY <1>3, <1>4 DEF BeforeHub, LoopStages
<1>6. NoRefusal'
  BY <1>3 DEF NoRefusal
<1>7. ASSUME hubConnected'
      PROVE  Measured' /\ Untold' /\ Reported'
  <2>1. pc' = "loop"
    BY <1>7
  <2>2. \A c \in EnvChannels : DeviceData'[c] = 0
    BY <1>3 DEF ZeroReading, Channels
  <2>3. Measured'
    BY <1>3, <2>1, <2>2 DEF Measured
  <2>4. Untold'
    BY <1>3, <2>1 DEF Untold
  <2>5. Reported'
    BY <2>1 DEF Reported
  <2>6. QED
    BY <2>3, <2>4, <2>5
<1>8. QED
  BY <1>5, <1>6, <1>7 DEF SyncInv

\* A step of loop() without a hub.
LEMMA SyncWithoutHub ==
  ASSUME TypeOK, SyncInv, ~hubConnected, pc \in LoopStages,
         pc' \in LoopStages \ {"event", "sent", "poll"},
         UNCHANGED <<AP, hubConnected, rtcMem, hubVars, queueVars>>,
         ~AP => WIFIResetCount' = 0 /\ ~resetDevice',
         ~AP /\ pc' # "loop" => Reloaded'
  PROVE  SyncInv'
<1>1. InStep' /\ waiting' = <<>> /\ ~messagePending'
  BY InStepKept DEF SyncInv, BeforeHub, queueVars
<1>2. pc' \notin StationStages
  BY DEF LoopStages, StationStages
<1>3. BeforeHub'
  BY <1>1, <1>2 DEF BeforeHub
<1>4. NoRefusal'
  BY DEF NoRefusal
<1>5. QED
  BY <1>3, <1>4 DEF SyncInv

\* A step of loop() with a hub.
LEMMA SyncWithHub ==
  ASSUME TypeOK, SyncInv, hubConnected, pc' \in LoopStages,
         UNCHANGED <<AP, hubConnected>>,
         WIFIResetCount' = 0, ~resetDevice',
         Measured', Untold', Reported'
  PROVE  SyncInv'
<1>1. ~AP'
  BY DEF SyncInv, BeforeHub
<1>2. pc' \notin StationStages
  BY DEF LoopStages, StationStages
<1>3. BeforeHub'
  BY <1>1, <1>2 DEF BeforeHub
<1>4. NoRefusal'
  BY DEF NoRefusal
<1>5. QED
  BY <1>3, <1>4 DEF SyncInv

\* A connected device has refused nothing and measured what it would now.
LEMMA ConnectedSync ==
  ASSUME TypeOK, SyncInv, hubConnected
  PROVE  /\ pc \in LoopStages /\ ~AP
         /\ WIFIResetCount = 0 /\ ~resetDevice
         /\ Measured /\ Untold /\ Reported
BY DEF SyncInv, BeforeHub, NoRefusal

-----------------------------------------------------------------------------
(* setup().                                                                *)

LEMMA SetupStepSync ==
  ASSUME SyncWorld, TypeOK, SyncInv, SetupStep
  PROVE  SyncInv'
<1> USE DEF LoopStages, StationStages
<1>0. pc \notin LoopStages => ~hubConnected
  BY DEF SyncInv, BeforeHub
<1>1. CASE MountAndLoadConfig
  BY <1>1, <1>0, SyncOnTheWay DEF MountAndLoadConfig, reportVars, lastingVars
<1>2. CASE HoldSwitch
  BY <1>2 DEF HoldSwitch, SyncWorld
<1>3. CASE ChooseMode
  BY <1>3, <1>0, SyncOnTheWay DEF ChooseMode, switchVars, reportVars, lastingVars
<1>4. CASE InitSensors
  BY <1>4, <1>0, SyncOnTheWay DEF InitSensors, switchVars, reportVars, lastingVars
<1>5. CASE AlreadyConnected \/ BeginJoin \/ Joined \/ LeaveConnect \/ InitTime
  <2>1. /\ pc \in StationStages /\ pc' \in StationStages
        /\ UNCHANGED <<setupVars, switchVars, reportVars, queueVars,
                       lastingVars, hubVars>>
    BY <1>5 DEF AlreadyConnected, BeginJoin, Joined, LeaveConnect, InitTime
  <2>2. ~AP'
    BY <2>1 DEF SyncInv, BeforeHub, setupVars
  <2>3. QED
    BY <2>1, <2>2, <1>0, SyncOnTheWay
    DEF setupVars, switchVars, reportVars, lastingVars
<1>6. CASE AwaitJoin
  <2>1. PICK pressed \in Switch :
          \/ Restart("boot")
          \/ CheckWIFIReset(pressed)
             /\ UNCHANGED <<pc, AP, hubConnected, reportVars, waiting>>
    BY <1>6 DEF AwaitJoin
  <2>2. pc = "joining" /\ UNCHANGED <<rtcMem, hubVars>>
    BY <1>6 DEF AwaitJoin
  <2>3. CASE Restart("boot")
    <3>1. InStep'
      BY <1>0, <2>2, InStepKept DEF SyncInv, BeforeHub
    <3>2. QED
      BY <2>3, <3>1, SyncRestarted
  <2>4. CASE CheckWIFIReset(pressed)
             /\ UNCHANGED <<pc, AP, hubConnected, reportVars, waiting>>
    <3>1. UNCHANGED <<messagePending, resetDevice>> /\ WIFIResetCount' = 0
      BY <2>4, SwitchReleased DEF SyncWorld
    <3>2. WIFIResetCount = 0 /\ ~AP
      BY <2>2 DEF SyncInv, NoRefusal, BeforeHub
    <3>3. QED
      BY <1>0, <2>2, <2>4, <3>1, <3>2, SyncOnTheWay DEF reportVars, queueVars
  <2>5. QED
    BY <2>1, <2>3, <2>4
<1>7. CASE FirstSync
  <2>1. /\ pc = "sync" /\ pc' \in {"hub", "ntp"}
        /\ UNCHANGED <<setupVars, switchVars, reportVars, queueVars,
                       lastingVars, hubVars>>
    BY <1>7 DEF FirstSync
  <2>2. ~AP'
    BY <2>1 DEF SyncInv, BeforeHub, setupVars
  <2>3. QED
    BY <2>1, <2>2, <1>0, SyncOnTheWay
    DEF setupVars, switchVars, reportVars, lastingVars
<1>8. CASE RetrySync
  <2>1. /\ pc = "ntp" /\ UNCHANGED <<lastingVars, hubView>>
        /\ \/ Restart("asleep") /\ OneSleepMore
           \/ /\ pc' \in {"hub", "ntp"}
              /\ UNCHANGED <<AP, hubConnected, switchVars, reportVars,
                             queueVars, quiet>>
    BY <1>8 DEF RetrySync
  <2>2. CASE Restart("asleep") /\ OneSleepMore
    <3>1. InStep /\ quiet \in 0..MaxQuiet /\ MaxQuiet \in Nat
          /\ Max_Time + 2 <= MaxQuiet /\ Max_Time \in Nat \ {0}
      BY <1>0, <2>1, SyncTypes DEF SyncInv, BeforeHub
    <3>2. quiet' \in Nat /\ (quiet' = quiet + 1 \/ (quiet' = quiet /\ Max_Time < quiet))
      BY <2>2, <3>1 DEF OneSleepMore
    <3>3. rtcMem' = rtcMem /\ rtcMem.critical \in Int
      BY <2>1, SyncTypes DEF lastingVars, Memory
    <3>4. InStep'
      BY <2>1, <3>1, <3>2, <3>3 DEF InStep, HubInformed
    <3>5. QED
      BY <2>2, <3>4, SyncRestarted
  <2>3. CASE /\ pc' \in {"hub", "ntp"}
             /\ UNCHANGED <<AP, hubConnected, switchVars, reportVars,
                            queueVars, quiet>>
    <3>1. ~AP'
      BY <2>1, <2>3 DEF SyncInv, BeforeHub
    <3>2. QED
      BY <1>0, <2>1, <2>3, <3>1, SyncOnTheWay
      DEF switchVars, reportVars, lastingVars, hubVars
  <2>4. QED
    BY <2>1, <2>2, <2>3
<1>9. CASE InitIOTHub
  <2>1. /\ pc = "hub" /\ pc' = "loop" /\ UNCHANGED AP
        /\ UNCHANGED <<rtcMem, hubVars, queueVars, DeviceData, Run_Flag,
                       WIFIResetCount, resetDevice>>
    BY <1>9 DEF InitIOTHub, switchVars, lastingVars
  <2>2. ~AP'
    BY <2>1 DEF SyncInv, BeforeHub
  <2>3. QED
    BY <2>1, <2>2, SyncOnTheWay
<1>10. QED
  BY <1>1, <1>2, <1>3, <1>4, <1>5, <1>6, <1>7, <1>8, <1>9 DEF SetupStep

-----------------------------------------------------------------------------
(* loop(), up to the queue.                                                *)

\* A step of a connected device after its reading.
LEMMA SyncOnward ==
  ASSUME TypeOK, SyncInv, hubConnected, pc # "loop", pc' \in LoopStages,
         UNCHANGED <<setupVars, level, rtcMem>>,
         WIFIResetCount' = 0, ~resetDevice', DeviceData' = Now,
         \A i \in DOMAIN waiting' : waiting'[i] = Now,
         UnsentWake' => /\ UnsentWake /\ UNCHANGED hubVars
                        /\ waiting' = <<>> /\ pc' # "sent",
         pc' = "loop" => Run_Flag' = 1 \/ messagePending',
         Reported'
  PROVE  SyncInv'
<1>1. UNCHANGED <<AP, hubConnected, distanceSensor, environmentSensor>>
  BY DEF setupVars
<1>2. Now' = Now
  BY <1>1, NowKept
<1>3. \A c \in EnvChannels : ~environmentSensor => Now[c] = 0
  BY ReadingAssumption DEF Now, Channels
<1>4. Measured'
  BY <1>1, <1>2, <1>3 DEF Measured
<1>5. Run_Flag' = 1 => Run_Flag' # 0
  OBVIOUS
<1>6. Untold'
  <2>1. UnsentWake' => InStep'
    BY ConnectedSync, InStepKept DEF Untold
  <2>2. QED
    BY <1>5, <2>1 DEF Untold
<1>7. QED
  BY <1>1, <1>4, <1>6, SyncWithHub

\* What a connected device past its reading has to go on with.
LEMMA SyncFacts ==
  ASSUME TypeOK, SyncInv, hubConnected, pc # "loop"
  PROVE  /\ pc \in LoopStages /\ ~AP /\ WIFIResetCount = 0 /\ ~resetDevice
         /\ DeviceData = Now /\ \A i \in DOMAIN waiting : waiting[i] = Now
         /\ UnsentWake => waiting = <<>> /\ pc # "sent"
         /\ Reported
BY ConnectedSync DEF Measured, Untold

LEMMA ReadAndCompareSync ==
  ASSUME SyncWorld, TypeOK, SyncInv, ReadAndCompare
  PROVE  SyncInv'
<1> DEFINE idle    == ~AP /\ Run_Flag = 0 /\ ~messagePending
           stored  == IF AP THEN rtcData
                      ELSE IF idle THEN SanitiseAll(rtcMem) ELSE rtcMem
           reading == IF idle THEN ReadAll(GetDistance) ELSE DeviceData
<1>1. /\ pc = "loop" /\ rtcData' = stored /\ DeviceData' = reading
      /\ pc' = IF BlockDue(stored, reading) THEN "block" ELSE "decide"
      /\ UNCHANGED <<AP, hubConnected, distanceSensor, environmentSensor>>
      /\ UNCHANGED <<WIFIResetCount, resetDevice, Critical_Flag, Run_Flag,
                     waiting, messagePending, rtcMem, hubVars, wake, level>>
  BY DEF ReadAndCompare, setupVars, switchVars, queueVars, lastingVars
<1>2. pc \in LoopStages /\ pc' \in {"block", "decide"}
  BY <1>1 DEF LoopStages
<1>3. ~AP => Reloaded'
  <2>1. SanitiseAll(rtcMem)' = SanitiseAll(rtcMem)
    BY <1>1 DEF SanitiseAll
  <2>2. QED
    BY <1>1, <2>1 DEF Reloaded
<1>4. CASE ~hubConnected
  <2>1. ~AP => WIFIResetCount' = 0 /\ ~resetDevice'
    BY <1>1, <1>2 DEF SyncInv, NoRefusal
  <2>2. QED
    BY <1>1, <1>2, <1>3, <1>4, <2>1, SyncWithoutHub DEF queueVars, LoopStages
<1>5. CASE hubConnected
  <2>1. /\ ~AP /\ WIFIResetCount = 0 /\ ~resetDevice
        /\ Measured /\ Untold /\ Reported
    BY <1>5, ConnectedSync
  <2>2. reading = Now
    <3>1. CASE idle
      BY <2>1, <3>1, FirstReading DEF Measured
    <3>2. CASE ~idle
      BY <2>1, <3>2, SyncTypes DEF Measured
    <3>3. QED
      BY <3>1, <3>2
  <2>3. DeviceData' = Now /\ Now' = Now
    BY <1>1, <2>2, NowKept
  <2>4. \A c \in EnvChannels : ~environmentSensor => Now[c] = 0
    BY ReadingAssumption DEF Now, Channels
  <2>5. Measured'
    BY <1>1, <2>1, <2>3, <2>4 DEF Measured
  <2>6. InStep => InStep'
    BY <1>1, InStepKept
  <2>7. Untold'
    BY <1>1, <1>2, <2>1, <2>6 DEF Untold, UnsentWake
  <2>8. pc' = "block" => Due'
    BY <1>1, <2>1 DEF BlockDue, Due
  <2>9. pc' = "decide" => ~Differs(rtcData.value, DeviceData)'
    BY <1>1, <2>1 DEF BlockDue
  <2>10. pc' = "decide" /\ Run_Flag' = 0 /\ ~messagePending' => InStep'
    BY <1>1, <2>1, <2>6 DEF Untold
  <2>11. Reported'
    BY <1>2, <1>3, <2>1, <2>8, <2>9, <2>10 DEF Reported
  <2>12. QED
    BY <1>1, <1>2, <1>5, <2>1, <2>5, <2>7, <2>11, SyncWithHub DEF LoopStages
<1>6. QED
  BY <1>4, <1>5, SyncTypes

LEMMA EnterBlockSync ==
  ASSUME SyncWorld, TypeOK, SyncInv, EnterBlock
  PROVE  SyncInv'
<1>1. PICK pressed \in Switch : CheckWIFIReset(pressed)
  BY DEF EnterBlock
<1>2. /\ UNCHANGED <<messagePending, resetDevice>> /\ WIFIResetCount' = 0
      /\ wake'.sends = wake.sends
  BY <1>1, SwitchReleased DEF SyncWorld
<1>3. /\ pc = "block" /\ pc' = "reset" /\ Run_Flag' = 1
      /\ UNCHANGED <<setupVars, DeviceData, rtcData, waiting, rtcMem, level,
                     hubVars>>
  BY DEF EnterBlock
<1>4. UNCHANGED <<AP, hubConnected>> /\ pc \in LoopStages /\ pc' \in LoopStages
  BY <1>3 DEF setupVars, LoopStages
<1>5. Reloaded' = Reloaded /\ Due' = Due
  BY <1>3 DEF Reloaded, SanitiseAll, Due, Differs
<1>6. CASE ~hubConnected
  <2>1. ~AP => ~resetDevice /\ Reloaded
    BY <1>3, <1>4, <1>6 DEF SyncInv, NoRefusal, BeforeHub
  <2>2. QED
    BY <1>2, <1>3, <1>4, <1>5, <1>6, <2>1, SyncWithoutHub DEF queueVars
<1>7. CASE hubConnected
  <2>1. Reported'
    BY <1>3, <1>5, <1>7, SyncFacts DEF Reported
  <2>2. QED
    BY <1>2, <1>3, <1>4, <1>7, <2>1, SyncFacts, SyncOnward DEF UnsentWake
<1>8. QED
  BY <1>6, <1>7, SyncTypes

LEMMA CountResetSync ==
  ASSUME SyncWorld, TypeOK, SyncInv, CountReset
  PROVE  SyncInv'
<1>1. pc = "reset" /\ UNCHANGED <<rtcMem, hubVars, level>>
  BY DEF CountReset, lastingVars
<1>2. CASE Restart("boot") /\ resetDevice
  <2>1. ~hubConnected
    BY <1>2, ConnectedSync
  <2>2. InStep'
    BY <1>1, <2>1, InStepKept DEF SyncInv, BeforeHub
  <2>3. QED
    BY <1>2, <2>2, SyncRestarted
<1>3. CASE /\ pc' = "serve"
           /\ UNCHANGED <<setupVars, WIFIResetCount, resetDevice, reportVars,
                          queueVars, wake>>
  <2>1. UNCHANGED <<AP, hubConnected>> /\ pc \in LoopStages /\ pc' \in LoopStages
    BY <1>1, <1>3 DEF setupVars, LoopStages
  <2>2. UNCHANGED <<DeviceData, rtcData, Run_Flag, waiting, messagePending>>
    BY <1>3 DEF reportVars, queueVars
  <2>3. Reloaded' = Reloaded /\ Due' = Due
    BY <1>1, <2>2 DEF Reloaded, SanitiseAll, Due, Differs
  <2>4. CASE ~hubConnected
    <3>1. ~AP => WIFIResetCount = 0 /\ ~resetDevice /\ Reloaded
      BY <1>1, <2>1, <2>4 DEF SyncInv, NoRefusal, BeforeHub
    <3>2. QED
      BY <1>1, <1>3, <2>1, <2>3, <2>4, <3>1, SyncWithoutHub
  <2>5. CASE hubConnected
    <3>1. Reported'
      BY <1>1, <1>3, <2>2, <2>3, <2>5, SyncFacts DEF Reported
    <3>2. QED
      BY <1>1, <1>3, <2>1, <2>2, <2>5, <3>1, SyncFacts, SyncOnward DEF UnsentWake
  <2>6. QED
    BY <2>4, <2>5, SyncTypes
<1>4. QED
  BY <1>2, <1>3 DEF CountReset

LEMMA ServeSync ==
  ASSUME TypeOK, SyncInv,
         ServePage \/ handleSubmit \/ handleSetupSubmit \/ ServeOffline
  PROVE  SyncInv'
<1>1. /\ pc = "serve" /\ pc' = "decide" /\ (AP \/ ~hubConnected)
      /\ UNCHANGED <<setupVars, DeviceData, rtcData, queueVars, rtcMem, hubVars>>
      /\ ~AP => UNCHANGED <<WIFIResetCount, resetDevice>>
  BY DEF ServePage, handleSubmit, handleSetupSubmit, Submit, ServeOffline,
         reportVars, lastingVars, switchVars
<1>2. /\ ~hubConnected /\ UNCHANGED <<AP, hubConnected>>
      /\ pc \in LoopStages /\ pc' \in LoopStages \ {"event", "sent", "poll"}
  BY <1>1, ConnectedSync DEF setupVars, LoopStages
<1>3. ~AP => WIFIResetCount = 0 /\ ~resetDevice /\ Reloaded
  BY <1>1, <1>2 DEF SyncInv, NoRefusal, BeforeHub
<1>4. Reloaded' = Reloaded
  BY <1>1 DEF Reloaded, SanitiseAll
<1>5. QED
  BY <1>1, <1>2, <1>3, <1>4, SyncWithoutHub

\* Reading again finds the same, and what is queued is that.
LEMMA QueueSync ==
  ASSUME SyncWorld, TypeOK, DeviceData = Now, ReadAndQueue,
         \A i \in DOMAIN waiting : waiting[i] = Now
  PROVE  /\ DeviceData' = Now /\ messagePending' = TRUE
         /\ \A i \in DOMAIN waiting' : waiting'[i] = Now
<1>1. DeviceData' = Now /\ QueueMessage(Now)
  BY LaterReadings DEF ReadAndQueue
<1>2. waiting' = Append(waiting, Now) /\ messagePending' = TRUE
  BY <1>1 DEF QueueMessage, Fault, SyncWorld
<1>3. waiting \in Seq(Reading) /\ Now \in Reading
  BY SyncTypes, NowIsReading
<1>4. \A i \in DOMAIN waiting' : waiting'[i] = Now
  BY <1>2, <1>3
<1>5. QED
  BY <1>1, <1>2, <1>4

LEMMA SendReportSync ==
  ASSUME SyncWorld, TypeOK, SyncInv, SendReport
  PROVE  SyncInv'
<1>1. /\ pc = "serve" /\ pc' = "event" /\ hubConnected
      /\ UNCHANGED <<setupVars, WIFIResetCount, resetDevice, rtcMem, level>>
      /\ ReadAndQueue
  BY DEF SendReport, SendDue, switchVars, lastingVars
<1>2. /\ Run_Flag' = 0 /\ Critical_Flag' = 0
      /\ rtcData' = [value |-> DeviceData, critical |-> 0]
  BY DEF SendReport, TakeBaseline
<1>3. /\ DeviceData' = Now /\ DeviceData = Now /\ messagePending' = TRUE
      /\ \A i \in DOMAIN waiting' : waiting'[i] = Now
      /\ WIFIResetCount = 0 /\ ~resetDevice
  BY <1>1, SyncFacts, QueueSync
<1>4. ~UnsentWake'
  <2>1. wake \in [sends: Nat, failures: Nat, pressed: BOOLEAN]
    BY DEF TypeOK, WakeTypeOK
  <2>2. wake'.sends = wake.sends + 1
    BY <2>1 DEF SendReport
  <2>3. QED
    BY <2>1, <2>2 DEF UnsentWake
<1>5. Reported'
  BY <1>1, <1>2, <1>3 DEF Reported, Rebased
<1>6. QED
  BY <1>1, <1>3, <1>4, <1>5, SyncOnward DEF LoopStages

LEMMA AwaitReportSync ==
  ASSUME TypeOK, SyncInv, AwaitReport
  PROVE  SyncInv'
<1>1. /\ pc = "serve" /\ pc' = "event" /\ hubConnected
      /\ UNCHANGED <<setupVars, WIFIResetCount, resetDevice, DeviceData, Run_Flag,
                     waiting, rtcMem, level, hubVars, wake>>
  BY DEF AwaitReport, switchVars, reportVars, queueVars, lastingVars
<1>2. Run_Flag' = 1
  BY <1>1, SyncFacts DEF Reported
<1>3. Reported'
  BY <1>1, <1>2 DEF Reported
<1>4. QED
  BY <1>1, <1>3, SyncFacts, SyncOnward DEF LoopStages, UnsentWake

-----------------------------------------------------------------------------
(* loop(), from the queue to the sleep.                                    *)

LEMMA PostSync ==
  ASSUME TypeOK, SyncInv, PostAccepted \/ PostFailed \/ NothingToPost
  PROVE  SyncInv'
<1>1. /\ pc = "event"
      /\ UNCHANGED <<setupVars, WIFIResetCount, resetDevice, DeviceData, rtcData,
                     Critical_Flag, Run_Flag, messagePending, rtcMem, level>>
      /\ \/ /\ pc' = "sent" /\ waiting # <<>> /\ waiting' = Tail(waiting)
            /\ hubView' = Head(waiting) /\ wake' = wake
         \/ /\ pc' = "poll" /\ waiting # <<>> /\ waiting' = waiting
         \/ /\ pc' = "poll" /\ waiting' = waiting /\ UNCHANGED <<hubVars, wake>>
  BY DEF PostAccepted, PostFailed, NothingToPost, HubReceives, switchVars,
         reportVars, queueVars, lastingVars
<1>2. wake'.sends = wake.sends
  <2>1. CASE PostFailed
    BY <2>1 DEF PostFailed, TypeOK, WakeTypeOK
  <2>2. CASE PostAccepted \/ NothingToPost
    BY <2>2 DEF PostAccepted, NothingToPost
  <2>3. QED
    BY <2>1, <2>2
<1>3. hubConnected
  BY <1>1 DEF SyncInv, BeforeHub
<1>4. /\ DeviceData = Now /\ WIFIResetCount = 0 /\ ~resetDevice
      /\ \A i \in DOMAIN waiting : waiting[i] = Now
      /\ UnsentWake => waiting = <<>>
      /\ Run_Flag = 0 => messagePending /\ Rebased
  BY <1>1, <1>3, SyncFacts DEF Reported
<1>5. waiting \in Seq(Reading)
  BY SyncTypes
<1>6. \A i \in DOMAIN waiting' : waiting'[i] = Now
  <2>1. CASE waiting # <<>> /\ waiting' = Tail(waiting)
    BY <1>4, <1>5, <2>1
  <2>2. CASE waiting' = waiting
    BY <1>4, <2>2
  <2>3. QED
    BY <1>1, <2>1, <2>2
<1>7. waiting # <<>> => Head(waiting) = Now
  BY <1>4, <1>5
<1>8. Now' = Now /\ Rebased' = Rebased
  BY <1>1, NowKept DEF setupVars, Rebased
<1>9. Reported'
  BY <1>1, <1>4, <1>7, <1>8 DEF Reported
<1>10. UnsentWake' => /\ UnsentWake /\ UNCHANGED hubVars
                      /\ waiting' = <<>> /\ pc' # "sent"
  BY <1>1, <1>2, <1>4 DEF UnsentWake
<1>11. pc' \in LoopStages /\ pc' # "loop"
  BY <1>1 DEF LoopStages
<1>12. QED
  BY <1>1, <1>3, <1>4, <1>6, <1>9, <1>10, <1>11, SyncOnward

LEMMA OnMessageSentSync ==
  ASSUME TypeOK, SyncInv, OnMessageSentCallback
  PROVE  SyncInv'
<1>1. /\ pc = "sent" /\ pc' = "poll"
      /\ UNCHANGED <<setupVars, WIFIResetCount, resetDevice, DeviceData, rtcData,
                     Critical_Flag, Run_Flag, waiting, rtcMem, level, hubVars,
                     wake>>
  BY DEF OnMessageSentCallback, switchVars, reportVars, lastingVars
<1>2. hubConnected
  BY <1>1 DEF SyncInv, BeforeHub
<1>3. /\ hubView = Now /\ (Run_Flag = 0 => Rebased)
      /\ DeviceData = Now /\ WIFIResetCount = 0 /\ ~resetDevice
      /\ \A i \in DOMAIN waiting : waiting[i] = Now
      /\ ~UnsentWake
  BY <1>1, <1>2, SyncFacts DEF Reported
<1>4. Now' = Now /\ Rebased' = Rebased /\ hubView' = hubView
  BY <1>1, NowKept DEF setupVars, Rebased, hubVars
<1>5. Reported'
  BY <1>1, <1>3, <1>4 DEF Reported
<1>6. QED
  BY <1>1, <1>2, <1>3, <1>5, SyncOnward DEF LoopStages, UnsentWake

\* However the poll ends, with a command or without.
LEMMA PollSync ==
  ASSUME TypeOK, SyncInv, pc = "poll", pc' = "decide",
         UNCHANGED <<setupVars, WIFIResetCount, resetDevice, rtcData,
                     Critical_Flag, Run_Flag, rtcMem, level, hubVars, wake>>,
         DeviceData' = Now,
         \/ UNCHANGED queueVars
         \/ /\ messagePending' = TRUE /\ "SendData" \in Commands
            /\ \A i \in DOMAIN waiting' : waiting'[i] = Now
  PROVE  SyncInv'
<1>1. hubConnected
  BY DEF SyncInv, BeforeHub
<1>2. /\ DeviceData = Now /\ WIFIResetCount = 0 /\ ~resetDevice
      /\ \A i \in DOMAIN waiting : waiting[i] = Now
      /\ UnsentWake => waiting = <<>>
      /\ Run_Flag = 0 => Rebased
      /\ Run_Flag = 0 /\ ~messagePending => hubView = Now
  BY <1>1, SyncFacts DEF Reported
<1>3. Now' = Now /\ Rebased' = Rebased /\ hubView' = hubView
  BY <1>2, NowKept DEF setupVars, Rebased, hubVars
<1>4. Reported'
  BY <1>2, <1>3 DEF Reported, queueVars
<1>5. \A i \in DOMAIN waiting' : waiting'[i] = Now
  BY <1>2 DEF queueVars
<1>6. QED
  BY <1>1, <1>2, <1>4, <1>5, SyncOnward DEF LoopStages, UnsentWake, queueVars

LEMMA PollStepSync ==
  ASSUME SyncWorld, TypeOK, SyncInv,
         \/ PollEmpty \/ ReceiveSendData \/ ReceiveDisplayDistance
         \/ ReceiveClearWIFI \/ ReceiveConfigInterval \/ ReceiveOther
  PROVE  SyncInv'
<1>1. /\ pc = "poll" /\ pc' = "decide"
      /\ UNCHANGED <<setupVars, WIFIResetCount, rtcData, Critical_Flag, Run_Flag,
                     rtcMem, level, hubVars, wake>>
  BY DEF PollEmpty, ReceiveSendData, ReceiveDisplayDistance, ReceiveClearWIFI,
         ReceiveConfigInterval, ReceiveOther, Receive, switchVars, lastingVars
<1>2. /\ DeviceData = Now /\ \A i \in DOMAIN waiting : waiting[i] = Now
  <2>1. hubConnected
    BY <1>1 DEF SyncInv, BeforeHub
  <2>2. QED
    BY <1>1, <2>1, SyncFacts
<1>3. CASE PollEmpty
  BY <1>1, <1>2, <1>3, PollSync DEF PollEmpty, switchVars
<1>4. CASE ReceiveSendData
  <2>1. "SendData" \in Commands /\ ReadAndQueue /\ UNCHANGED resetDevice
    BY <1>4 DEF ReceiveSendData, Receive
  <2>2. QED
    BY <1>1, <1>2, <2>1, QueueSync, PollSync
<1>5. CASE ReceiveDisplayDistance
  <2>1. DeviceData' = Now
    BY <1>2, <1>5, LaterReadings DEF ReceiveDisplayDistance
  <2>2. QED
    BY <1>1, <1>5, <2>1, PollSync DEF ReceiveDisplayDistance
<1>6. CASE ReceiveClearWIFI
  BY <1>6 DEF ReceiveClearWIFI, Receive, SyncWorld
<1>7. CASE ReceiveConfigInterval \/ ReceiveOther
  BY <1>1, <1>2, <1>7, PollSync DEF ReceiveConfigInterval, ReceiveOther
<1>8. QED
  BY <1>3, <1>4, <1>5, <1>6, <1>7

LEMMA StayAwakeSync ==
  ASSUME TypeOK, SyncInv, StayAwake
  PROVE  SyncInv'
<1>1. /\ pc = "decide" /\ pc' = "loop" /\ (AP \/ Run_Flag # 0 \/ messagePending)
      /\ UNCHANGED <<setupVars, WIFIResetCount, resetDevice, DeviceData,
                     Run_Flag, queueVars, waiting, messagePending, rtcMem, level,
                     hubVars, wake>>
  BY DEF StayAwake, MaySleep, switchVars, reportVars, queueVars, lastingVars
<1>2. UNCHANGED <<AP, hubConnected>> /\ pc \in LoopStages /\ pc' \in LoopStages
  BY <1>1 DEF setupVars, LoopStages
<1>3. CASE ~hubConnected
  BY <1>1, <1>2, <1>3, SyncWithoutHub DEF SyncInv, NoRefusal
<1>4. CASE hubConnected
  <2>1. ~AP /\ Run_Flag \in {0, 1}
    BY <1>4, ConnectedSync, SyncTypes
  <2>2. Reported'
    BY <1>1 DEF Reported
  <2>3. QED
    BY <1>1, <1>2, <1>4, <2>1, <2>2, SyncFacts, SyncOnward DEF UnsentWake
<1>5. QED
  BY <1>3, <1>4, SyncTypes

\* A sleep stores what the hub has heard, and counts from there.
LEMMA SleepSync ==
  ASSUME SyncWorld, TypeOK, SyncInv, Sleep
  PROVE  SyncInv'
<1>1. /\ pc = "decide" /\ ~AP /\ Run_Flag = 0 /\ ~messagePending
      /\ Restart("asleep") /\ OneSleepMore /\ hubView' = hubView
  BY DEF Sleep, MaySleep
<1>2. rtcData \in Memory /\ rtcMem \in Memory /\ Critical_Flag \in {0, 1}
  BY SyncTypes
<1>3. /\ rtcMem'.value = rtcData.value
      /\ rtcMem'.critical = rtcData.critical + Critical_Flag
  BY <1>2 DEF Sleep, Memory
<1>4. rtcData.critical \in Int /\ rtcMem.critical \in Int
  BY <1>2 DEF Memory
<1>5. /\ quiet \in 0..MaxQuiet /\ MaxQuiet \in Nat /\ Max_Time + 2 <= MaxQuiet
      /\ Max_Time \in Nat \ {0}
  BY SyncTypes
<1>6. /\ quiet' \in Nat \ {0}
      /\ quiet' = quiet + 1 \/ (quiet' = quiet /\ Max_Time < quiet)
  BY <1>1, <1>5 DEF OneSleepMore
<1>7. CASE InStep /\ Reloaded
  <2>1. ASSUME HubInformed'
        PROVE  hubView' = rtcMem'.value
               /\ (rtcMem'.critical < quiet' \/ Max_Time < quiet')
    <3>1. HubInformed
      BY <1>1, <2>1 DEF HubInformed
    <3>2. /\ rtcData.value = hubView /\ rtcData.critical = rtcMem.critical
          /\ rtcMem.critical < quiet \/ Max_Time < quiet
      BY <1>7, <3>1, InStepReloaded
    <3>3. QED
      BY <1>1, <1>2, <1>3, <1>4, <1>5, <1>6, <3>2
  <2>2. InStep'
    BY <2>1 DEF InStep
  <2>3. QED
    BY <1>1, <2>2, SyncRestarted
<1>8. CASE hubConnected /\ hubView = Now /\ Rebased
  <2>1. DeviceData = Now
    BY <1>1, <1>8, SyncFacts
  <2>2. /\ hubView' = rtcMem'.value /\ rtcMem'.critical < quiet'
    BY <1>1, <1>3, <1>6, <1>8, <2>1 DEF Rebased
  <2>3. InStep'
    BY <2>2 DEF InStep
  <2>4. QED
    BY <1>1, <2>3, SyncRestarted
<1>9. QED
  <2>1. CASE ~hubConnected
    <3>1. InStep /\ Reloaded
      BY <1>1, <2>1 DEF SyncInv, BeforeHub, LoopStages
    <3>2. QED
      BY <1>7, <3>1
  <2>2. CASE hubConnected
    <3>1. (hubView = Now /\ Rebased) \/ (InStep /\ Reloaded)
      BY <1>1, <2>2, SyncFacts DEF Reported
    <3>2. QED
      BY <1>7, <1>8, <2>2, <3>1
  <2>3. QED
    BY <2>1, <2>2, SyncTypes

LEMMA LoopStepSync ==
  ASSUME SyncWorld, TypeOK, SyncInv, LoopStep
  PROVE  SyncInv'
<1>1. CASE RefuseReport
  BY <1>1, ConnectedSync, BoundAssumption
  DEF RefuseReport, SendDue, TypeOK, SwitchTypeOK
<1>2. CASE HoldInCallback
  BY <1>2 DEF HoldInCallback, SyncWorld
<1>3. QED
  BY <1>1, <1>2, ReadAndCompareSync, EnterBlockSync, CountResetSync, ServeSync,
     SendReportSync, AwaitReportSync, PostSync, OnMessageSentSync, PollStepSync,
     StayAwakeSync, SleepSync
  DEF LoopStep

-----------------------------------------------------------------------------
(* The device in its world.                                                *)

LEMMA NextSync ==
  ASSUME SyncWorld, TypeOK, SyncInv, [Next]_vars
  PROVE  SyncInv'
<1>1. CASE SetupStep
  BY <1>1, SetupStepSync
<1>2. CASE LoopStep
  BY <1>2, LoopStepSync
<1>3. CASE Wake \/ Drift
  <2>1. /\ pc = "asleep" /\ pc' \in {"asleep", "boot"}
        /\ UNCHANGED <<setupVars, switchVars, reportVars, queueVars,
                       lastingVars, hubVars>>
    BY <1>3 DEF Wake, Drift, SyncWorld
  <2>2. pc \notin LoopStages /\ pc' \notin LoopStages /\ pc' \notin StationStages
    BY <2>1 DEF LoopStages, StationStages
  <2>3. ~hubConnected
    BY <2>2 DEF SyncInv, BeforeHub
  <2>4. QED
    BY <2>1, <2>2, <2>3, SyncOnTheWay
    DEF setupVars, switchVars, reportVars, lastingVars
<1>4. CASE PowerLoss
  <2>1. Restart("boot") /\ hubView' = NoReading
    BY <1>4 DEF PowerLoss
  <2>2. InStep'
    BY <2>1 DEF InStep, HubInformed
  <2>3. QED
    BY <2>1, <2>2, SyncRestarted
<1>5. CASE UNCHANGED vars
  <2>1. UNCHANGED <<pc, AP, hubConnected, environmentSensor, distanceSensor,
                    WIFIResetCount, resetDevice, DeviceData, rtcData,
                    Critical_Flag, Run_Flag, waiting, messagePending, rtcMem,
                    level, hubVars, wake>>
    BY <1>5 DEF vars, setupVars, switchVars, reportVars, queueVars, lastingVars
  <2>2. /\ Now' = Now /\ InStep' = InStep /\ Reloaded' = Reloaded
        /\ Due' = Due /\ Rebased' = Rebased /\ ZeroReading' = ZeroReading
        /\ hubView' = hubView
    BY <2>1 DEF Now, GetDistance, InStep, HubInformed, Reloaded, SanitiseAll,
                Due, Differs, Rebased, ZeroReading, hubVars
  <2>3. BeforeHub' = BeforeHub /\ NoRefusal' = NoRefusal
    BY <2>1, <2>2 DEF BeforeHub, NoRefusal
  <2>4. Measured' = Measured /\ Untold' = Untold
    BY <2>1, <2>2 DEF Measured, Untold, UnsentWake
  <2>5. Reported' = Reported
    BY <2>1, <2>2 DEF Reported, Differs
  <2>6. QED
    BY <2>1, <2>3, <2>4, <2>5 DEF SyncInv
<1>6. QED
  BY <1>1, <1>2, <1>3, <1>4, <1>5 DEF Next, DeviceStep

LEMMA InitSync ==
  ASSUME Init
  PROVE  SyncInv
<1>1. /\ pc = "boot" /\ ~hubConnected /\ waiting = <<>> /\ ~messagePending
      /\ DeviceData = ZeroReading /\ Run_Flag = 0
      /\ WIFIResetCount = 0 /\ ~resetDevice /\ hubView = NoReading
  BY DEF Init
<1>2. BeforeHub
  BY <1>1 DEF BeforeHub, InStep, HubInformed, StationStages, LoopStages
<1>3. QED
  BY <1>1, <1>2 DEF SyncInv, NoRefusal

LEMMA SyncCorrect ==
  ASSUME SyncWorld
  PROVE  Spec => []SyncInv
<1>1. Init => SyncInv
  BY InitSync
<1>2. TypeOK /\ SyncInv /\ [Next]_vars => SyncInv'
  BY NextSync
<1>3. QED
  BY <1>1, <1>2, TypeCorrect, PTL DEF Spec

\* Only Sleep puts a device that has decided to sleep.
LEMMA SleepIsDecided ==
  ASSUME FallsAsleep, [Next]_vars
  PROVE  Run_Flag = 0 /\ ~messagePending
BY DEF FallsAsleep, Next, DeviceStep, vars, Wake, Drift, PowerLoss, Restart,
  SetupStep, MountAndLoadConfig, HoldSwitch, ChooseMode, InitSensors,
  AlreadyConnected, BeginJoin, AwaitJoin, Joined, LeaveConnect, InitTime,
  FirstSync, RetrySync, InitIOTHub, LoopStep, ReadAndCompare, EnterBlock,
  CountReset, ServePage, handleSubmit, handleSetupSubmit, Submit,
  ServeOffline, RefuseReport, SendReport, SendDue, AwaitReport,
  PostAccepted, PostFailed, NothingToPost, HoldInCallback,
  OnMessageSentCallback, PollEmpty, ReceiveSendData,
  ReceiveDisplayDistance, ReceiveClearWIFI, ReceiveConfigInterval,
  ReceiveOther, Receive, StayAwake, Sleep, MaySleep

\* In that world no connected device falls asleep with the hub's picture of it
\* out of date, whatever was retried, delivered late or lost with the power.
THEOREM HubStaysInSync ==
  ASSUME SyncWorld
  PROVE  Spec => HubInSync
<1>1. ASSUME TypeOK, SyncInv, [Next]_vars, FallsAsleep, hubConnected, HubInformed
      PROVE  ~Differs(hubView, DeviceData)
  <2>1. pc = "decide" /\ Run_Flag = 0 /\ ~messagePending
    BY <1>1, SleepIsDecided DEF FallsAsleep
  <2>2. DeviceData = Now /\ Reported
    BY <1>1, <2>1, SyncFacts
  <2>3. CASE hubView = Now
    BY <1>1, <2>2, <2>3, NowIsReading, SameReading
  <2>4. CASE InStep /\ Reloaded /\ ~Differs(rtcData.value, DeviceData)
    BY <1>1, <2>4, InStepReloaded
  <2>5. QED
    BY <2>1, <2>2, <2>3, <2>4 DEF Reported
<1>2. TypeOK /\ SyncInv /\ [Next]_vars
        => [FallsAsleep /\ hubConnected /\ HubInformed
              => ~Differs(hubView, DeviceData)]_vars
  BY <1>1
<1>3. QED
  BY <1>2, SyncCorrect, TypeCorrect, PTL DEF Spec, HubInSync

\* Nor does the first report of a wake lack a reason, unless a command asked.
THEOREM ReportsHaveReasons ==
  ASSUME SyncWorld, "SendData" \notin Commands
  PROVE  Spec => NoSpuriousReport
<1>1. ASSUME TypeOK, SyncInv, SendReport, wake.sends = 0, HubInformed
      PROVE  Differs(hubView, DeviceData) \/ quiet > Max_Time
  <2>1. pc = "serve" /\ hubConnected
    BY <1>1 DEF SendReport, SendDue
  <2>2. InStep /\ Reloaded /\ Due
    BY <1>1, <2>1, ConnectedSync DEF Untold, UnsentWake, Reported
  <2>3. /\ rtcData.value = hubView /\ rtcData.critical = rtcMem.critical
        /\ rtcMem.critical < quiet \/ Max_Time < quiet
    BY <1>1, <2>2, InStepReloaded
  <2>4. rtcMem.critical \in Int /\ quiet \in Int /\ Max_Time \in Int
    BY <1>1, SyncTypes DEF Memory
  <2>5. CASE Differs(rtcData.value, DeviceData)
    BY <2>3, <2>5
  <2>6. CASE rtcData.critical >= Max_Time
    BY <2>3, <2>4, <2>6
  <2>7. QED
    BY <2>2, <2>5, <2>6 DEF Due
<1>2. TypeOK /\ SyncInv /\ [Next]_vars
        => [SendReport /\ wake.sends = 0 /\ HubInformed
              => Differs(hubView, DeviceData) \/ quiet > Max_Time]_vars
  BY <1>1
<1>3. QED
  BY <1>2, SyncCorrect, TypeCorrect, PTL DEF Spec, NoSpuriousReport
-----------------------------------------------------------------------------
(* The length of a wake.  It needs, besides, that no reading is as near to   *)
(* the limit of lines 211-217 as a threshold: stored garbage of 201, which   *)
(* the first round of a wake takes for 0 and the later ones for itself, is   *)
(* within the threshold of a reading of 199.                                 *)

WakeWorld == SyncWorld /\ Readings \subseteq 0..198

\* The block is due by RTC memory as it is, the way the later rounds read it.
StillDue == rtcMem.critical >= Max_Time \/ Differs(rtcMem.value, DeviceData)
InBlock == {"block", "reset", "serve", "event", "sent", "poll"}

\* A device that has work left comes back to it.
WorkReached ==
  /\ hubConnected /\ (pc \in InBlock \/ Run_Flag = 1 \/ messagePending) => StillDue
  /\ ~hubConnected /\ ~AP /\ Run_Flag = 1 => pc \in {"reset", "serve"}
  /\ pc = "event" /\ Run_Flag = 1 => messagePending \/ elapsed < InitRounds
  /\ messagePending => waiting # <<>> \/ pc = "sent"

\* A value that the range check replaces is apart from whatever 0 is apart from.
LEMMA SanitisedApart ==
  ASSUME WakeWorld, NEW v \in RTCValues, NEW r \in Readings,
         Apart(Sanitise(v), r)
  PROVE  Apart(v, r)
<1>1. r \in 0..198 /\ NaN \notin Int
  BY ReadingAssumption DEF WakeWorld
<1>2. v \in Int \/ v = NaN
  BY ReadingAssumption DEF WakeWorld, RTCValues
<1>3. CASE v = NaN
  BY <1>3 DEF Sanitise
<1>4. CASE v \in Int /\ (v < 0 \/ v > 200)
  <2>1. Sanitise(v) = 0 /\ v # NaN
    BY <1>1, <1>4 DEF Sanitise
  <2>2. Abs(0 - r) > 2
    BY <2>1 DEF Apart, Threshold
  <2>3. r > 2
    BY <1>1, <2>2 DEF Abs
  <2>4. Abs(v - r) > 2
    BY <1>1, <1>4, <2>3 DEF Abs
  <2>5. QED
    BY <2>1, <2>4 DEF Apart, Threshold
<1>5. CASE v \in Int /\ ~(v < 0 \/ v > 200)
  BY <1>5 DEF Sanitise
<1>6. QED
  BY <1>2, <1>3, <1>4, <1>5

LEMMA SanitisedDiffers ==
  ASSUME WakeWorld, NEW memory \in Memory, NEW reading \in Reading,
         Differs(SanitiseAll(memory).value, reading)
  PROVE  Differs(memory.value, reading)
<1>1. SanitiseAll(memory).value = [c \in Channels |-> Sanitise(memory.value[c])]
  BY DEF SanitiseAll, Memory
<1>2. PICK c \in Channels : Apart(Sanitise(memory.value[c]), reading[c])
  BY <1>1 DEF Differs
<1>3. memory.value[c] \in RTCValues /\ reading[c] \in Readings
  BY DEF Memory, Reading
<1>4. QED
  BY <1>2, <1>3, SanitisedApart DEF Differs

\* A block that the reloaded memory makes due stays due by RTC memory itself.
LEMMA DueByMemory ==
  ASSUME WakeWorld, TypeOK', Reloaded', Due'
  PROVE  StillDue'
<1>1. rtcMem' \in Memory /\ DeviceData' \in Reading
  BY DEF TypeOK, LastingTypeOK, ReportTypeOK
<1>2. CASE rtcData' = rtcMem'
  BY <1>2 DEF Due, StillDue
<1>3. CASE rtcData' = SanitiseAll(rtcMem')
  <2>1. rtcData'.critical = rtcMem'.critical
    BY <1>1, <1>3 DEF SanitiseAll, Memory
  <2>2. CASE rtcData'.critical >= Max_Time
    BY <2>1, <2>2 DEF StillDue
  <2>3. CASE Differs(rtcData'.value, DeviceData')
    <3>1. Differs(rtcMem'.value, DeviceData')
      BY <1>1, <1>3, <2>3, SanitisedDiffers
    <3>2. QED
      BY <3>1 DEF StillDue, Differs
  <2>4. QED
    BY <2>2, <2>3 DEF Due, Differs
<1>4. QED
  BY <1>2, <1>3 DEF Reloaded, SanitiseAll

\* Before loop() there is no work.
LEMMA WorkOutsideLoop ==
  ASSUME SyncInv', pc' \notin LoopStages \/ (pc' = "loop" /\ Run_Flag' = 0
                                               /\ ~messagePending')
  PROVE  WorkReached'
BY DEF SyncInv, BeforeHub, WorkReached, InBlock, LoopStages

LEMMA SetupStepWork ==
  ASSUME TypeOK, SyncInv, SyncInv', SetupStep
  PROVE  WorkReached'
<1>1. pc \in SetupStages
  BY DEF SetupStep, MountAndLoadConfig, HoldSwitch, ChooseMode, InitSensors,
         AlreadyConnected, BeginJoin, AwaitJoin, Joined, LeaveConnect, InitTime,
         FirstSync, RetrySync, InitIOTHub, SetupStages
<1>2. Run_Flag = 0 /\ ~messagePending
  BY <1>1 DEF SyncInv, BeforeHub, SetupStages, LoopStages
<1>3. CASE MountAndLoadConfig \/ InitSensors \/ InitIOTHub
  <2>1. Run_Flag' = 0 /\ ~messagePending'
    <3>1. UNCHANGED <<Run_Flag, messagePending>>
      BY <1>3 DEF MountAndLoadConfig, InitSensors, InitIOTHub, reportVars,
                  queueVars
    <3>2. QED
      BY <1>2, <3>1
  <2>2. pc' \in SetupStages \cup {"loop"}
    BY <1>3 DEF MountAndLoadConfig, InitSensors, InitIOTHub, SetupStages
  <2>3. QED
    BY <2>1, <2>2, WorkOutsideLoop DEF SetupStages, LoopStages
<1>4. CASE ~(MountAndLoadConfig \/ InitSensors \/ InitIOTHub)
  <2>1. pc' \in SetupStages \cup {"asleep"}
    BY <1>1, <1>4
    DEF SetupStep, HoldSwitch, ChooseMode, AlreadyConnected, BeginJoin, AwaitJoin,
        Joined, LeaveConnect, InitTime, FirstSync, RetrySync, Restart, SetupStages
  <2>2. QED
    BY <2>1, WorkOutsideLoop DEF SetupStages, LoopStages
<1>5. QED
  BY <1>3, <1>4

\* A step of a connected device past its reading: the reading stays, and with it
\* what the block is due by.
LEMMA WorkOnward ==
  ASSUME WakeWorld, TypeOK, SyncInv, SyncInv', WorkReached, hubConnected,
         pc \in InBlock \/ (pc = "decide" /\ (Run_Flag = 1 \/ messagePending)),
         UNCHANGED <<setupVars, level, rtcMem>>, DeviceData' = DeviceData,
         pc' = "event" /\ Run_Flag' = 1 => messagePending' \/ elapsed' < InitRounds,
         messagePending' => waiting' # <<>> \/ pc' = "sent"
  PROVE  WorkReached'
<1>1. StillDue
  BY DEF WorkReached
<1>2. StillDue'
  BY <1>1 DEF StillDue, Differs
<1>3. hubConnected'
  BY DEF setupVars
<1>4. QED
  BY <1>2, <1>3 DEF WorkReached

\* A step without a hub.
LEMMA WorkWithoutHub ==
  ASSUME SyncInv', ~hubConnected', ~AP' /\ Run_Flag' = 1 => pc' \in {"reset", "serve"}
  PROVE  WorkReached'
BY DEF SyncInv, BeforeHub, WorkReached

LEMMA ReadAndCompareWork ==
  ASSUME WakeWorld, TypeOK, TypeOK', SyncInv, SyncInv', WorkReached, ReadAndCompare
  PROVE  WorkReached'
<1>1. /\ pc = "loop" /\ pc' \in {"block", "decide"}
      /\ UNCHANGED <<AP, hubConnected, Run_Flag, messagePending, waiting, rtcMem>>
  BY DEF ReadAndCompare, setupVars, queueVars, lastingVars
<1>2. CASE ~hubConnected
  <2>1. AP \/ Run_Flag # 1
    BY <1>1, <1>2 DEF WorkReached
  <2>2. QED
    BY <1>1, <1>2, <2>1, WorkWithoutHub
<1>3. CASE hubConnected
  <2>1. pc' = "block" => StillDue'
    <3>1. pc' = "block" => Reloaded' /\ Due'
      BY <1>1, <1>3 DEF SyncInv, Reported
    <3>2. QED
      BY <3>1, DueByMemory
  <2>2. Run_Flag = 1 \/ messagePending => StillDue'
    <3>1. SUFFICES ASSUME Run_Flag = 1 \/ messagePending PROVE StillDue'
      OBVIOUS
    <3>2. DeviceData' = DeviceData
      BY <3>1 DEF ReadAndCompare
    <3>3. StillDue
      BY <1>3, <3>1 DEF WorkReached
    <3>4. QED
      BY <1>1, <3>2, <3>3 DEF StillDue, Differs
  <2>3. QED
    BY <1>1, <1>3, <2>1, <2>2 DEF WorkReached, InBlock
<1>4. QED
  BY <1>2, <1>3, SyncTypes

\* What changes neither the reading nor the queue.
LEMMA SteadyWork ==
  ASSUME WakeWorld, TypeOK, SyncInv, SyncInv', WorkReached,
         EnterBlock \/ CountReset \/ ServeOffline \/ AwaitReport \/ StayAwake
  PROVE  WorkReached'
<1> USE DEF setupVars, reportVars, queueVars, lastingVars
<1>1. CASE EnterBlock
  <2>1. PICK pressed \in Switch : CheckWIFIReset(pressed)
    BY <1>1 DEF EnterBlock
  <2>2. messagePending' = messagePending
    BY <2>1, SwitchReleased DEF WakeWorld, SyncWorld
  <2>3. /\ pc = "block" /\ pc' = "reset"
        /\ UNCHANGED <<setupVars, level, rtcMem, DeviceData, waiting>>
    BY <1>1 DEF EnterBlock
  <2>4. CASE hubConnected
    BY <2>2, <2>3, <2>4, WorkOnward DEF InBlock, WorkReached
  <2>5. CASE ~hubConnected
    BY <2>3, <2>5, WorkWithoutHub
  <2>6. QED
    BY <2>4, <2>5
<1>2. CASE CountReset
  <2>1. CASE Restart("boot")
    BY <2>1, WorkOutsideLoop DEF Restart, LoopStages
  <2>2. CASE pc' = "serve"
    <3>1. /\ pc = "reset"
          /\ UNCHANGED <<setupVars, level, rtcMem, DeviceData, waiting,
                         messagePending>>
      BY <1>2, <2>2 DEF CountReset, Restart
    <3>2. CASE hubConnected
      BY <2>2, <3>1, <3>2, WorkOnward DEF InBlock, WorkReached
    <3>3. CASE ~hubConnected
      BY <2>2, <3>1, <3>3, WorkWithoutHub
    <3>4. QED
      BY <3>2, <3>3
  <2>3. QED
    BY <1>2, <2>1, <2>2 DEF CountReset
<1>3. CASE ServeOffline
  BY <1>3, WorkWithoutHub DEF ServeOffline
<1>4. CASE AwaitReport
  BY <1>4, WorkOnward DEF AwaitReport, InBlock, WorkReached
<1>5. CASE StayAwake
  <2>1. /\ pc = "decide" /\ pc' = "loop" /\ (AP \/ Run_Flag # 0 \/ messagePending)
        /\ UNCHANGED <<setupVars, level, rtcMem, DeviceData, waiting,
                       messagePending, Run_Flag, elapsed>>
    BY <1>5 DEF StayAwake, MaySleep
  <2>2. CASE hubConnected
    <3>1. ~AP /\ Run_Flag \in {0, 1}
      BY <2>2, ConnectedSync, SyncTypes
    <3>2. QED
      BY <2>1, <2>2, <3>1, WorkOnward DEF WorkReached
  <2>3. CASE ~hubConnected
    BY <2>1, <2>3, WorkWithoutHub DEF WorkReached
  <2>4. QED
    BY <2>2, <2>3
<1>6. QED
  BY <1>1, <1>2, <1>3, <1>4, <1>5

\* What is pending has a message behind it, and keeps the block due.
LEMMA QueueWork ==
  ASSUME WakeWorld, TypeOK, SyncInv, SyncInv', WorkReached,
         SendReport \/ PostAccepted \/ PostFailed \/ NothingToPost
           \/ OnMessageSentCallback
  PROVE  WorkReached'
<1> USE DEF setupVars, lastingVars
<1>0. hubConnected
  BY DEF SendReport, SendDue, PostAccepted, PostFailed, NothingToPost,
         OnMessageSentCallback, SyncInv, BeforeHub
<1>1. CASE SendReport
  <2>1. /\ pc = "serve" /\ pc' = "event" /\ Run_Flag' = 0 /\ ReadAndQueue
        /\ UNCHANGED <<setupVars, level, rtcMem>>
    BY <1>1 DEF SendReport, SendDue, TakeBaseline
  <2>2. DeviceData = Now /\ \A i \in DOMAIN waiting : waiting[i] = Now
    BY <1>0, <2>1, SyncFacts
  <2>3. DeviceData' = DeviceData
    BY <2>1, <2>2, QueueSync DEF WakeWorld
  <2>4. waiting' = Append(waiting, DeviceData')
    BY <2>1 DEF ReadAndQueue, QueueMessage, Fault, WakeWorld, SyncWorld
  <2>5. waiting' # <<>>
    <3>1. waiting \in Seq(Reading)
      BY SyncTypes
    <3>2. QED
      BY <2>4, <3>1
  <2>6. QED
    BY <1>0, <2>1, <2>3, <2>5, WorkOnward DEF InBlock
<1>2. CASE PostAccepted \/ PostFailed \/ NothingToPost
  <2>1. /\ pc = "event" /\ pc' \in {"sent", "poll"}
        /\ UNCHANGED <<setupVars, level, rtcMem, DeviceData, messagePending>>
    BY <1>2 DEF PostAccepted, PostFailed, NothingToPost, reportVars, queueVars
  <2>2. messagePending' => waiting' # <<>> \/ pc' = "sent"
    BY <1>2, <2>1
    DEF PostAccepted, PostFailed, NothingToPost, queueVars, WorkReached
  <2>3. QED
    BY <1>0, <2>1, <2>2, WorkOnward DEF InBlock
<1>3. CASE OnMessageSentCallback
  BY <1>0, <1>3, WorkOnward DEF OnMessageSentCallback, reportVars, InBlock
<1>4. QED
  BY <1>1, <1>2, <1>3

LEMMA PollWork ==
  ASSUME WakeWorld, TypeOK, SyncInv, SyncInv', WorkReached,
         \/ PollEmpty \/ ReceiveSendData \/ ReceiveDisplayDistance
         \/ ReceiveClearWIFI \/ ReceiveConfigInterval \/ ReceiveOther
  PROVE  WorkReached'
<1>1. /\ pc = "poll" /\ pc' = "decide"
      /\ UNCHANGED <<setupVars, rtcMem, level>>
  BY DEF PollEmpty, ReceiveSendData, ReceiveDisplayDistance, ReceiveClearWIFI,
         ReceiveConfigInterval, ReceiveOther, Receive, lastingVars
<1>2. hubConnected
  BY <1>1 DEF SyncInv, BeforeHub
<1>3. DeviceData = Now /\ \A i \in DOMAIN waiting : waiting[i] = Now
  BY <1>1, <1>2, SyncFacts
<1>4. CASE ReceiveSendData
  <2>1. DeviceData' = DeviceData
    BY <1>3, <1>4, QueueSync DEF ReceiveSendData, WakeWorld
  <2>2. waiting' = Append(waiting, DeviceData')
    BY <1>4 DEF ReceiveSendData, ReadAndQueue, QueueMessage, Fault, WakeWorld,
                SyncWorld
  <2>3. waiting' # <<>>
    <3>1. waiting \in Seq(Reading)
      BY SyncTypes
    <3>2. QED
      BY <2>2, <3>1
  <2>4. QED
    BY <1>1, <1>2, <2>1, <2>3, WorkOnward DEF InBlock
<1>5. CASE ReceiveDisplayDistance
  <2>1. DeviceData' = DeviceData
    BY <1>3, <1>5, LaterReadings DEF ReceiveDisplayDistance
  <2>2. QED
    BY <1>1, <1>2, <1>5, <2>1, WorkOnward
    DEF ReceiveDisplayDistance, queueVars, InBlock, WorkReached
<1>6. CASE ReceiveClearWIFI
  BY <1>6 DEF ReceiveClearWIFI, Receive, WakeWorld, SyncWorld
<1>7. CASE PollEmpty \/ ReceiveConfigInterval \/ ReceiveOther
  <2>1. UNCHANGED <<DeviceData, waiting, messagePending>>
    BY <1>7 DEF PollEmpty, ReceiveConfigInterval, ReceiveOther, queueVars
  <2>2. QED
    BY <1>1, <1>2, <2>1, WorkOnward DEF InBlock, WorkReached
<1>8. QED
  BY <1>4, <1>5, <1>6, <1>7

\* The pages of the access point.
LEMMA PageWork ==
  ASSUME SyncInv, SyncInv', ServePage \/ handleSubmit \/ handleSetupSubmit
  PROVE  WorkReached'
<1>1. AP /\ UNCHANGED setupVars
  BY DEF ServePage, handleSubmit, handleSetupSubmit, Submit
<1>2. ~hubConnected /\ AP' = AP /\ hubConnected' = hubConnected
  BY <1>1 DEF SyncInv, BeforeHub, setupVars
<1>3. QED
  BY <1>1, <1>2, WorkWithoutHub

LEMMA NextWork ==
  ASSUME WakeWorld, TypeOK, TypeOK', SyncInv, SyncInv', WorkReached, [Next]_vars
  PROVE  WorkReached'
<1>1. CASE SetupStep
  BY <1>1, SetupStepWork
<1>2. CASE LoopStep
  <2>1. CASE RefuseReport
    BY <2>1, ConnectedSync, BoundAssumption
    DEF RefuseReport, SendDue, TypeOK, SwitchTypeOK
  <2>2. CASE HoldInCallback
    BY <2>2 DEF HoldInCallback, WakeWorld, SyncWorld
  <2>3. CASE Sleep
    BY <2>3, WorkOutsideLoop DEF Sleep, Restart, LoopStages
  <2>4. QED
    BY <1>2, <2>1, <2>2, <2>3, ReadAndCompareWork, SteadyWork, QueueWork, PollWork,
       PageWork
    DEF LoopStep
<1>3. CASE Wake \/ Drift
  BY <1>3, WorkOutsideLoop DEF Wake, Drift, WakeWorld, SyncWorld, LoopStages
<1>4. CASE PowerLoss
  BY <1>4, WorkOutsideLoop DEF PowerLoss, Restart, LoopStages
<1>5. CASE UNCHANGED vars
  <2>1. UNCHANGED <<pc, AP, hubConnected, DeviceData, Run_Flag, elapsed, waiting,
                    messagePending, rtcMem>>
    BY <1>5 DEF vars, setupVars, reportVars, queueVars, lastingVars
  <2>2. StillDue' = StillDue
    BY <2>1 DEF StillDue, Differs
  <2>3. QED
    BY <2>1, <2>2 DEF WorkReached
<1>6. QED
  BY <1>1, <1>2, <1>3, <1>4, <1>5 DEF Next, DeviceStep

LEMMA WorkIsReached ==
  ASSUME WakeWorld
  PROVE  Spec => []WorkReached
<1>1. Init => WorkReached
  BY DEF Init, WorkReached, InBlock
<1>2. TypeOK /\ TypeOK' /\ SyncInv /\ SyncInv' /\ WorkReached /\ [Next]_vars
        => WorkReached'
  BY NextWork
<1>3. SyncWorld
  BY DEF WakeWorld
<1>4. Spec => []SyncInv
  BY <1>3, SyncCorrect
<1>5. QED
  BY <1>1, <1>2, <1>4, TypeCorrect, PTL DEF Spec

-----------------------------------------------------------------------------
(* The steps that are left.                                                *)

\* How many steps are left: bounds, and what faults and commands are worth.
LEMMA StepTypes ==
  ASSUME TypeOK
  PROVE  /\ elapsed \in 0..InitRounds /\ InitRounds \in Nat \ {0}
         /\ WIFIConnectionTryCnt \in 0..MaxTries /\ MaxTries \in Nat
         /\ Counter \in 0..2 /\ Run_Flag \in {0, 1}
         /\ faults \in 0..MaxFaults /\ commands \in 0..MaxCommands
         /\ MaxFaults \in Nat /\ MaxCommands \in Nat
BY BoundAssumption DEF TypeOK, SetupTypeOK, ReportTypeOK, BudgetTypeOK

LEMMA RestType == TypeOK => RestOfWake \in 0..WholeWake
<1>1. SUFFICES ASSUME TypeOK PROVE RestOfWake \in 0..WholeWake
  OBVIOUS
<1>2. /\ elapsed \in 0..InitRounds /\ InitRounds \in Nat \ {0}
      /\ WIFIConnectionTryCnt \in 0..MaxTries /\ MaxTries \in Nat
      /\ Counter \in 0..2
  BY <1>1, StepTypes
<1>3. WholeWake \in Nat /\ WholeWake = 8 * InitRounds + 36 + MaxTries
  BY <1>2 DEF WholeWake
<1>4. CASE pc \in SetupStages
  <2>1. RestOfSetup \in 0..(12 + MaxTries)
    <3>1. CASE pc = "joining"
      BY <1>2, <3>1 DEF RestOfSetup
    <3>2. CASE pc = "ntp"
      BY <1>2, <3>2 DEF RestOfSetup
    <3>3. CASE pc = "boot"
      BY <1>2, <3>3 DEF RestOfSetup
    <3>4. CASE pc = "switch1"
      BY <1>2, <3>4 DEF RestOfSetup
    <3>5. CASE pc = "switch2"
      BY <1>2, <3>5 DEF RestOfSetup
    <3>6. CASE pc = "connect"
      BY <1>2, <3>6 DEF RestOfSetup
    <3>7. CASE pc = "switch3"
      BY <1>2, <3>7 DEF RestOfSetup
    <3>8. CASE pc = "clock"
      BY <1>2, <3>8 DEF RestOfSetup
    <3>9. CASE pc = "sync"
      BY <1>2, <3>9 DEF RestOfSetup
    <3>10. CASE pc = "hub"
      BY <1>2, <3>10 DEF RestOfSetup
    <3>11. QED
      BY <1>4, <3>1, <3>2, <3>3, <3>4, <3>5, <3>6, <3>7, <3>8, <3>9, <3>10
      DEF SetupStages
  <2>2. QED
    BY <1>2, <1>3, <1>4, <2>1 DEF RestOfWake
<1>5. CASE pc \notin SetupStages
  <2>1. RestOfRound \in 1..8 /\ RestOfRound % 8 \in 0..7
    BY DEF RestOfRound
  <2>2. RoundsLeft \in 0..(InitRounds + 2)
    BY <1>2 DEF RoundsLeft
  <2>3. 8 * RoundsLeft + RestOfRound \in 0..(8 * InitRounds + 24)
    BY <1>2, <2>1, <2>2
  <2>4. QED
    BY <1>2, <1>3, <1>5, <2>1, <2>3 DEF RestOfWake
<1>6. QED
  BY <1>4, <1>5

\* A fault or a command pays for a whole wake.
LEMMA Paid ==
  ASSUME NEW b \in Nat, NEW c \in Nat, c < b, NEW w \in Nat,
         NEW r \in 0..w, NEW q \in 0..w
  PROVE  c * (w + 1) + q < b * (w + 1) + r
<1>1. PICK d \in Nat : b = c + 1 + d
  <2>1. b - c - 1 \in Nat /\ b = c + 1 + (b - c - 1)
    OBVIOUS
  <2>2. QED
    BY <2>1
<1>2. b * (w + 1) = c * (w + 1) + (w + 1) + d * (w + 1)
  BY <1>1
<1>3. c * (w + 1) \in Nat /\ d * (w + 1) \in Nat
  OBVIOUS
<1>4. QED
  BY <1>2, <1>3

\* What a step has to show.
Spent == faults' + commands' > faults + commands
Nearer == Spent \/ (UNCHANGED <<faults, commands>> /\ RestOfWake' < RestOfWake)

LEMMA StepsLeftFall ==
  ASSUME TypeOK, TypeOK', Nearer
  PROVE  StepsLeft' \in 0..(StepsLeft - 1)
<1> DEFINE b == MaxFaults - faults + MaxCommands - commands
           c == MaxFaults - faults' + MaxCommands - commands'
           w == WholeWake
<1>1. b \in Nat
  BY StepTypes
<1>2. c \in Nat
  <2>1. faults' \in 0..MaxFaults /\ commands' \in 0..MaxCommands
    BY DEF TypeOK, BudgetTypeOK
  <2>2. QED
    BY <2>1, StepTypes
<1>3. w \in Nat
  BY StepTypes DEF WholeWake
<1>4. RestOfWake \in 0..w /\ RestOfWake' \in 0..w
  <2>1. TypeOK' => (RestOfWake \in 0..WholeWake)'
    BY RestType, PTL
  <2>2. QED
    BY <2>1, RestType DEF WholeWake
<1>5. StepsLeft = b * (w + 1) + RestOfWake
  BY DEF StepsLeft
<1>6. StepsLeft' = c * (w + 1) + RestOfWake'
  BY DEF StepsLeft, WholeWake
<1>7. c < b \/ (c = b /\ RestOfWake' < RestOfWake)
  <2>1. /\ faults \in Int /\ commands \in Int /\ faults' \in Int
        /\ commands' \in Int /\ MaxFaults \in Int /\ MaxCommands \in Int
    BY StepTypes DEF TypeOK, BudgetTypeOK
  <2>2. CASE Spent
    <3>1. faults' + commands' > faults + commands
      BY <2>2 DEF Spent
    <3>2. \A mf, mc, f, g, k, l \in Int :
            k + l > f + g => mf - k + mc - l < mf - f + mc - g
      OBVIOUS
    <3>3. QED
      BY <2>1, <3>1, <3>2, Zenon
  <2>3. CASE UNCHANGED <<faults, commands>> /\ RestOfWake' < RestOfWake
    BY <2>3
  <2>4. QED
    BY <2>2, <2>3 DEF Nearer
<1> HIDE DEF b, c, w
<1>8. StepsLeft' < StepsLeft
  <2>1. CASE c < b
    BY <1>1, <1>2, <1>3, <1>4, <1>5, <1>6, <2>1, Paid
  <2>2. CASE c = b /\ RestOfWake' < RestOfWake
    <3>1. b * (w + 1) \in Nat
      BY <1>1, <1>3
    <3>2. QED
      BY <1>3, <1>4, <1>5, <1>6, <2>2, <3>1
  <2>3. QED
    BY <1>7, <2>1, <2>2
<1>9. StepsLeft \in Nat /\ StepsLeft' \in Nat
  <2>1. b * (w + 1) \in Nat /\ c * (w + 1) \in Nat
    BY <1>1, <1>2, <1>3
  <2>2. QED
    BY <1>3, <1>4, <1>5, <1>6, <2>1
<1>10. QED
  BY <1>8, <1>9

\* What is left, stage by stage.
AfterPoll == IF messagePending THEN 1 ELSE 0
IntervalOver == IF elapsed = InitRounds THEN 1 ELSE 0
RoundsByStage ==
  /\ RoundsLeft \in Nat
  /\ pc \in LoopStages \ {"sent", "poll"}
       => RoundsLeft = InitRounds - elapsed + 1 + AfterPoll
  /\ pc = "sent" => RoundsLeft = InitRounds - elapsed + 1 + IntervalOver
  /\ pc = "poll" => RoundsLeft = InitRounds - elapsed + 1 + AfterPoll + IntervalOver
RestByStage ==
  /\ pc = "loop" => RestOfWake = 8 * RoundsLeft + 7
  /\ pc = "block" => RestOfWake = 8 * RoundsLeft + 6
  /\ pc = "reset" => RestOfWake = 8 * RoundsLeft + 5
  /\ pc = "serve" => RestOfWake = 8 * RoundsLeft + 4
  /\ pc = "event" => RestOfWake = IF Run_Flag = 0 THEN 3 ELSE 8 * RoundsLeft + 3
  /\ pc = "sent" => RestOfWake = IF Run_Flag = 0 THEN 2 ELSE 8 * RoundsLeft + 2
  /\ pc = "poll" => RestOfWake = IF Run_Flag = 0 /\ ~messagePending THEN 1
                                 ELSE 8 * RoundsLeft + 1
  /\ pc = "decide" => RestOfWake = IF Run_Flag = 0 /\ ~messagePending THEN 0
                                   ELSE 8 * RoundsLeft + 8

LEMMA RoundsOfStage == TypeOK => RoundsByStage
<1>1. SUFFICES ASSUME TypeOK PROVE RoundsByStage
  OBVIOUS
<1>2. elapsed \in 0..InitRounds /\ InitRounds \in Nat
  BY <1>1, StepTypes
<1>3. RoundsLeft \in Nat
  BY <1>2 DEF RoundsLeft
<1>4. QED
  BY <1>2, <1>3 DEF RoundsByStage, RoundsLeft, AfterPoll, IntervalOver, LoopStages

LEMMA RestOfStage == RestByStage
<1>1. pc \in {"loop", "block", "reset", "serve"} => ~LastRound
  BY DEF LastRound
<1>2. pc \in {"event", "sent"} => (LastRound <=> Run_Flag = 0)
  BY DEF LastRound
<1>3. pc \in {"poll", "decide"} => (LastRound <=> Run_Flag = 0 /\ ~messagePending)
  BY DEF LastRound
<1>4. CASE pc \in {"loop", "block", "reset", "serve"}
  BY <1>1, <1>4 DEF RestByStage, RestOfWake, RestOfRound, SetupStages
<1>5. CASE pc \in {"event", "sent"}
  BY <1>2, <1>5 DEF RestByStage, RestOfWake, RestOfRound, SetupStages
<1>6. CASE pc = "poll"
  BY <1>3, <1>6 DEF RestByStage, RestOfWake, RestOfRound, SetupStages
<1>7. CASE pc = "decide"
  BY <1>3, <1>7 DEF RestByStage, RestOfWake, RestOfRound, SetupStages
<1>8. CASE pc \notin LoopStages
  BY <1>8 DEF RestByStage, LoopStages
<1>9. QED
  BY <1>4, <1>5, <1>6, <1>7, <1>8 DEF LoopStages

LEMMA StagesOfStep ==
  ASSUME TypeOK, TypeOK'
  PROVE  RoundsByStage /\ RoundsByStage' /\ RestByStage /\ RestByStage'
<1>1. TypeOK' => RoundsByStage'
  BY RoundsOfStage, PTL
<1>2. RestByStage'
  BY RestOfStage, PTL
<1>3. QED
  BY <1>1, <1>2, RoundsOfStage, RestOfStage

\* A fault spends, and so does a command.
LEMMA FaultSpends ==
  ASSUME TypeOK, TypeOK', UNCHANGED commands,
         NoFault \/ \E name \in Faults : Fault(name)
  PROVE  Spent \/ UNCHANGED <<faults, commands>>
<1>1. faults \in Int /\ commands \in Int
  BY DEF TypeOK, BudgetTypeOK
<1>2. QED
  BY <1>1 DEF NoFault, Fault, Spent

LEMMA SetupNearer ==
  ASSUME TypeOK, TypeOK', TRUE \notin Switch, SetupStep, ~AP
  PROVE  pc' \in {"asleep", "boot"} \/ AP' \/ Nearer
<1> USE StepTypes
<1>1. /\ WIFIConnectionTryCnt' \in 0..MaxTries /\ Counter' \in 0..2
      /\ elapsed' \in 0..InitRounds
  BY DEF TypeOK, SetupTypeOK, ReportTypeOK
<1>2. RoundsByStage' /\ RestByStage'
  BY StagesOfStep
<1>3. pc \in SetupStages => RestOfWake = 8 * (InitRounds + 3) + RestOfSetup
  BY DEF RestOfWake
<1>4. pc' \in SetupStages => RestOfWake' = 8 * (InitRounds + 3) + RestOfSetup'
  BY DEF RestOfWake
<1>5. CASE MountAndLoadConfig
  <2>1. CASE pc' = "loop"
    BY <1>5, <2>1 DEF MountAndLoadConfig, Fault, Nearer, Spent
  <2>2. CASE pc' = "switch1"
    <3>1. RestOfWake' < RestOfWake
      BY <1>3, <1>4, <1>5, <2>2 DEF MountAndLoadConfig, RestOfSetup, SetupStages
    <3>2. Spent \/ UNCHANGED <<faults, commands>>
      BY <1>5, FaultSpends DEF MountAndLoadConfig, Fault
    <3>3. QED
      BY <3>1, <3>2 DEF Nearer
  <2>3. QED
    BY <1>5, <2>1, <2>2 DEF MountAndLoadConfig
<1>6. CASE HoldSwitch
  BY <1>6 DEF HoldSwitch
<1>7. CASE ChooseMode \/ AlreadyConnected \/ BeginJoin \/ Joined \/ LeaveConnect
           \/ InitTime
  <2>1. UNCHANGED <<faults, commands, WIFIConnectionTryCnt>>
    BY <1>7 DEF ChooseMode, AlreadyConnected, BeginJoin, Joined, LeaveConnect,
                InitTime, setupVars
  <2>2. CASE ChooseMode
    BY <1>3, <1>4, <2>1, <2>2 DEF ChooseMode, RestOfSetup, SetupStages, Nearer
  <2>3. CASE AlreadyConnected
    BY <1>3, <1>4, <2>1, <2>3 DEF AlreadyConnected, RestOfSetup, SetupStages, Nearer
  <2>4. CASE BeginJoin
    BY <1>1, <1>3, <1>4, <2>1, <2>4 DEF BeginJoin, RestOfSetup, SetupStages, Nearer
  <2>5. CASE Joined
    BY <1>3, <1>4, <2>1, <2>5 DEF Joined, RestOfSetup, SetupStages, Nearer
  <2>6. CASE LeaveConnect
    BY <1>3, <1>4, <2>1, <2>6 DEF LeaveConnect, RestOfSetup, SetupStages, Nearer
  <2>7. CASE InitTime
    BY <1>3, <1>4, <2>1, <2>7 DEF InitTime, RestOfSetup, SetupStages, Nearer
  <2>8. QED
    BY <1>7, <2>2, <2>3, <2>4, <2>5, <2>6, <2>7
<1>8. CASE InitSensors
  <2>1. Spent \/ UNCHANGED <<faults, commands>>
    BY <1>8, FaultSpends DEF InitSensors, Fault
  <2>2. pc = "switch2" /\ pc' = "connect"
    BY <1>8 DEF InitSensors
  <2>3. RestOfWake' < RestOfWake
    BY <1>3, <1>4, <2>2 DEF RestOfSetup, SetupStages
  <2>4. QED
    BY <2>1, <2>3 DEF Nearer
<1>9. CASE AwaitJoin
  <2>1. CASE pc' = "boot"
    BY <2>1
  <2>2. CASE pc' # "boot"
    <3>1. PICK pressed \in Switch : CheckWIFIReset(pressed)
      BY <1>9, <2>2 DEF AwaitJoin, Restart
    <3>2. UNCHANGED faults
      BY <3>1, SwitchReleased
    <3>3. /\ pc = "joining" /\ pc' = "joining" /\ UNCHANGED commands
          /\ WIFIConnectionTryCnt' = WIFIConnectionTryCnt + 1
      BY <1>9, <2>2 DEF AwaitJoin, Restart
    <3>4. RestOfWake' < RestOfWake
      BY <1>1, <1>3, <1>4, <3>3 DEF RestOfSetup, SetupStages
    <3>5. QED
      BY <3>2, <3>3, <3>4 DEF Nearer
  <2>3. QED
    BY <2>1, <2>2
<1>10. CASE FirstSync \/ RetrySync
  <2>1. Spent \/ UNCHANGED <<faults, commands>>
    BY <1>10, FaultSpends DEF FirstSync, RetrySync, Sync, Fault
  <2>2. CASE pc' = "asleep"
    BY <2>2
  <2>3. CASE pc' # "asleep"
    <3>1. \/ pc = "sync" /\ pc' \in {"hub", "ntp"} /\ Counter' = Counter
          \/ pc = "ntp" /\ pc' \in {"hub", "ntp"} /\ Counter' = Counter + 1
      BY <1>10, <2>3 DEF FirstSync, RetrySync, Restart, setupVars
    <3>2. RestOfSetup' < RestOfSetup
      <4>1. CASE pc' = "hub"
        BY <1>1, <3>1, <4>1 DEF RestOfSetup
      <4>2. CASE pc' = "ntp"
        BY <1>1, <3>1, <4>2 DEF RestOfSetup
      <4>3. QED
        BY <3>1, <4>1, <4>2
    <3>3. RestOfSetup \in Int /\ RestOfSetup' \in Int
      BY <1>1, <3>1 DEF RestOfSetup
    <3>4. RestOfWake' < RestOfWake
      BY <1>3, <1>4, <3>1, <3>2, <3>3 DEF SetupStages
    <3>5. QED
      BY <2>1, <3>4 DEF Nearer
  <2>4. QED
    BY <2>2, <2>3
<1>11. CASE InitIOTHub
  <2>1. Spent \/ UNCHANGED <<faults, commands>>
    BY <1>11, FaultSpends DEF InitIOTHub, Fault
  <2>2. pc = "hub" /\ pc' = "loop"
    BY <1>11 DEF InitIOTHub
  <2>3. RestOfWake = 8 * (InitRounds + 3) + 1
    BY <1>3, <2>2 DEF RestOfSetup, SetupStages
  <2>4. RestOfWake' = 8 * RoundsLeft' + 7
    BY <1>2, <2>2 DEF RestByStage
  <2>5. RoundsLeft' \in Nat /\ RoundsLeft' <= InitRounds + 2
    BY <1>1, <1>2, <2>2 DEF RoundsByStage, AfterPoll, LoopStages
  <2>6. RestOfWake' < RestOfWake
    BY <2>3, <2>4, <2>5
  <2>7. QED
    BY <2>1, <2>6 DEF Nearer
<1>12. QED
  BY <1>5, <1>6, <1>7, <1>8, <1>9, <1>10, <1>11 DEF SetupStep

\* A round: whoever has work left finds the block due.
LEMMA ReadAndCompareNearer ==
  ASSUME TypeOK, TypeOK', SyncInv, WorkReached, ReadAndCompare, ~AP
  PROVE  Nearer
<1>1. /\ pc = "loop" /\ pc' \in {"block", "decide"}
      /\ UNCHANGED <<faults, commands, elapsed, messagePending, Run_Flag>>
  BY DEF ReadAndCompare, queueVars
<1>2. /\ RoundsByStage /\ RoundsByStage' /\ RestByStage /\ RestByStage'
  BY StagesOfStep
<1>3. RoundsLeft \in Nat /\ RestOfWake = 8 * RoundsLeft + 7
  BY <1>1, <1>2 DEF RoundsByStage, RestByStage
<1>4. CASE pc' = "block"
  <2>1. RoundsLeft' = RoundsLeft
    BY <1>1, <1>2, <1>4 DEF RoundsByStage, AfterPoll, LoopStages
  <2>2. RestOfWake' = 8 * RoundsLeft' + 6
    BY <1>2, <1>4 DEF RestByStage
  <2>3. QED
    BY <1>1, <1>3, <2>1, <2>2 DEF Nearer
<1>5. CASE pc' = "decide"
  <2>1. Run_Flag = 0 /\ ~messagePending
    <3>1. SUFFICES ASSUME Run_Flag = 1 \/ messagePending PROVE FALSE
      BY StepTypes
    <3>2. hubConnected
      BY <1>1, <3>1 DEF WorkReached, SyncInv, BeforeHub
    <3>3. StillDue
      BY <3>1, <3>2 DEF WorkReached
    <3>4. ~BlockDue(rtcMem, DeviceData)
      BY <1>5, <3>1 DEF ReadAndCompare
    <3>5. QED
      BY <3>3, <3>4 DEF BlockDue, StillDue
  <2>2. Run_Flag' = 0 /\ ~messagePending'
    BY <1>1, <2>1
  <2>3. RestOfWake' = 0
    BY <1>2, <1>5, <2>2 DEF RestByStage
  <2>4. QED
    BY <1>1, <1>3, <2>3 DEF Nearer
<1>6. QED
  BY <1>1, <1>4, <1>5

\* From the block to the event, with a hub or without.
LEMMA BlockNearer ==
  ASSUME TypeOK, TypeOK', TRUE \notin Switch, SyncInv, WorkReached, ~AP,
         EnterBlock \/ CountReset \/ ServeOffline \/ AwaitReport
  PROVE  pc' = "boot" \/ Nearer
<1>1. RoundsByStage /\ RoundsByStage' /\ RestByStage /\ RestByStage'
  BY StagesOfStep
<1>2. CASE EnterBlock
  <2>1. PICK pressed \in Switch : CheckWIFIReset(pressed)
    BY <1>2 DEF EnterBlock
  <2>2. UNCHANGED <<messagePending, faults, commands, elapsed>>
    BY <1>2, <2>1, SwitchReleased DEF EnterBlock
  <2>3. pc = "block" /\ pc' = "reset"
    BY <1>2 DEF EnterBlock
  <2>4. RoundsLeft' = RoundsLeft /\ RoundsLeft \in Nat
    BY <1>1, <2>2, <2>3 DEF RoundsByStage, AfterPoll, LoopStages
  <2>5. QED
    BY <1>1, <2>2, <2>3, <2>4 DEF RestByStage, Nearer
<1>3. CASE CountReset
  <2>1. CASE Restart("boot")
    BY <2>1 DEF Restart
  <2>2. CASE pc' = "serve"
    <3>1. /\ pc = "reset"
          /\ UNCHANGED <<faults, commands, elapsed, messagePending>>
      BY <1>3, <2>2 DEF CountReset, Restart, reportVars, queueVars
    <3>2. RoundsLeft' = RoundsLeft /\ RoundsLeft \in Nat
      BY <1>1, <2>2, <3>1 DEF RoundsByStage, AfterPoll, LoopStages
    <3>3. QED
      BY <1>1, <2>2, <3>1, <3>2 DEF RestByStage, Nearer
  <2>3. QED
    BY <1>3, <2>1, <2>2 DEF CountReset
<1>4. CASE ServeOffline
  <2>1. /\ pc = "serve" /\ pc' = "decide" /\ ~hubConnected /\ Run_Flag' = 0
        /\ UNCHANGED <<messagePending, faults, commands>>
    BY <1>4 DEF ServeOffline, queueVars
  <2>2. ~messagePending'
    BY <2>1 DEF SyncInv, BeforeHub
  <2>3. RestOfWake' = 0 /\ RestOfWake = 8 * RoundsLeft + 4 /\ RoundsLeft \in Nat
    BY <1>1, <2>1, <2>2 DEF RestByStage, RoundsByStage
  <2>4. QED
    BY <2>1, <2>3 DEF Nearer
<1>5. CASE AwaitReport
  <2>1. /\ pc = "serve" /\ pc' = "event"
        /\ UNCHANGED <<messagePending, elapsed, faults, commands>>
    BY <1>5 DEF AwaitReport, queueVars, reportVars
  <2>2. RoundsLeft' = RoundsLeft /\ RoundsLeft \in Nat
    BY <1>1, <2>1 DEF RoundsByStage, AfterPoll, LoopStages
  <2>3. /\ RestOfWake = 8 * RoundsLeft + 4
        /\ RestOfWake' = 3 \/ RestOfWake' = 8 * RoundsLeft' + 3
    BY <1>1, <2>1 DEF RestByStage
  <2>4. QED
    BY <2>1, <2>2, <2>3 DEF Nearer
<1>6. QED
  BY <1>2, <1>3, <1>4, <1>5

\* The report and its delivery.
LEMMA SendNearer ==
  ASSUME TypeOK, TypeOK', WorkReached, ~AP,
         \/ SendReport \/ PostAccepted \/ PostFailed \/ NothingToPost
         \/ OnMessageSentCallback
  PROVE  Nearer
<1>1. RoundsByStage /\ RoundsByStage' /\ RestByStage /\ RestByStage'
  BY StagesOfStep
<1>2. CASE SendReport
  <2>1. pc = "serve" /\ pc' = "event" /\ Run_Flag' = 0
    BY <1>2 DEF SendReport, SendDue, TakeBaseline
  <2>2. RestOfWake' < RestOfWake
    <3>1. RestOfWake' = 3 /\ RestOfWake = 8 * RoundsLeft + 4 /\ RoundsLeft \in Nat
      BY <1>1, <2>1 DEF RestByStage, RoundsByStage
    <3>2. QED
      BY <3>1
  <2>3. Spent \/ UNCHANGED <<faults, commands>>
    BY <1>2, FaultSpends DEF SendReport, ReadAndQueue, QueueMessage, Fault
  <2>4. QED
    BY <2>2, <2>3 DEF Nearer
<1>3. CASE PostAccepted
  <2>1. /\ pc = "event" /\ pc' = "sent"
        /\ UNCHANGED <<messagePending, elapsed, Run_Flag, faults, commands>>
    BY <1>3 DEF PostAccepted, reportVars
  <2>2. CASE Run_Flag = 0
    <3>1. RestOfWake = 3 /\ RestOfWake' = 2
      BY <1>1, <2>1, <2>2 DEF RestByStage
    <3>2. QED
      BY <2>1, <3>1 DEF Nearer
  <2>3. CASE Run_Flag # 0
    <3>1. messagePending \/ elapsed < InitRounds
      BY <2>1, <2>3, StepTypes DEF WorkReached
    <3>2. RoundsLeft' <= RoundsLeft
      BY <1>1, <2>1, <3>1, StepTypes
      DEF RoundsByStage, AfterPoll, IntervalOver, LoopStages
    <3>3. RestOfWake = 8 * RoundsLeft + 3 /\ RestOfWake' = 8 * RoundsLeft' + 2
      BY <1>1, <2>1, <2>3 DEF RestByStage
    <3>4. RoundsLeft \in Nat /\ RoundsLeft' \in Nat
      BY <1>1 DEF RoundsByStage
    <3>5. \A q, r, k, l \in Int :
            l <= k /\ q = 8 * k + 3 /\ r = 8 * l + 2 => r < q
      OBVIOUS
    <3>6. RestOfWake' < RestOfWake
      <4>1. /\ RoundsLeft \in Int /\ RoundsLeft' \in Int
            /\ RestOfWake \in Int /\ RestOfWake' \in Int
        BY <3>3, <3>4
      <4>2. QED
        BY <3>2, <3>3, <3>5, <4>1, Zenon
    <3>7. QED
      BY <2>1, <3>6 DEF Nearer
  <2>4. QED
    BY <2>2, <2>3
<1>4. CASE PostFailed
  <2>1. faults' = faults + 1 /\ UNCHANGED commands
    BY <1>4 DEF PostFailed, Fault
  <2>2. QED
    BY <2>1, StepTypes DEF Nearer, Spent
<1>5. CASE NothingToPost
  <2>1. /\ pc = "event" /\ pc' = "poll" /\ waiting = <<>>
        /\ UNCHANGED <<messagePending, elapsed, Run_Flag, faults, commands>>
    BY <1>5 DEF NothingToPost, reportVars, queueVars
  <2>2. ~messagePending /\ ~messagePending'
    BY <2>1 DEF WorkReached
  <2>3. CASE Run_Flag = 0
    <3>1. RestOfWake = 3 /\ RestOfWake' = 1
      BY <1>1, <2>1, <2>2, <2>3 DEF RestByStage
    <3>2. QED
      BY <2>1, <3>1 DEF Nearer
  <2>4. CASE Run_Flag # 0
    <3>1. elapsed < InitRounds
      BY <2>1, <2>2, <2>4, StepTypes DEF WorkReached
    <3>2. RoundsLeft' = RoundsLeft /\ RoundsLeft \in Nat
      BY <1>1, <2>1, <2>2, <3>1, StepTypes
      DEF RoundsByStage, AfterPoll, IntervalOver, LoopStages
    <3>3. RestOfWake = 8 * RoundsLeft + 3 /\ RestOfWake' = 8 * RoundsLeft' + 1
      BY <1>1, <2>1, <2>4 DEF RestByStage
    <3>4. QED
      BY <2>1, <3>2, <3>3 DEF Nearer
  <2>5. QED
    BY <2>3, <2>4
<1>6. CASE OnMessageSentCallback
  <2>1. /\ pc = "sent" /\ pc' = "poll" /\ ~messagePending'
        /\ UNCHANGED <<elapsed, Run_Flag, faults, commands>>
    BY <1>6 DEF OnMessageSentCallback, reportVars
  <2>2. RoundsLeft' = RoundsLeft /\ RoundsLeft \in Nat
    <3>1. IntervalOver' = IntervalOver /\ IntervalOver \in {0, 1} /\ AfterPoll' = 0
      BY <2>1 DEF AfterPoll, IntervalOver
    <3>2. RoundsLeft' = InitRounds - elapsed + 1 + 0 + IntervalOver
      BY <1>1, <2>1, <3>1 DEF RoundsByStage
    <3>3. RoundsLeft = InitRounds - elapsed + 1 + IntervalOver /\ RoundsLeft \in Nat
      BY <1>1, <2>1 DEF RoundsByStage
    <3>4. QED
      BY <3>1, <3>2, <3>3, StepTypes
  <2>3. CASE Run_Flag = 0
    <3>1. RestOfWake = 2 /\ RestOfWake' = 1
      BY <1>1, <2>1, <2>3 DEF RestByStage
    <3>2. QED
      BY <2>1, <3>1 DEF Nearer
  <2>4. CASE Run_Flag # 0
    <3>1. RestOfWake = 8 * RoundsLeft + 2 /\ RestOfWake' = 8 * RoundsLeft' + 1
      BY <1>1, <2>1, <2>4 DEF RestByStage
    <3>2. QED
      BY <2>1, <2>2, <3>1 DEF Nearer
  <2>5. QED
    BY <2>3, <2>4
<1>7. QED
  BY <1>2, <1>3, <1>4, <1>5, <1>6

\* The poll, in which time passes, and the decision to go round again.
LEMMA PollNearer ==
  ASSUME TypeOK, TypeOK', WorkReached, ~AP,
         \/ PollEmpty \/ ReceiveSendData \/ ReceiveDisplayDistance
         \/ ReceiveClearWIFI \/ ReceiveConfigInterval \/ ReceiveOther
         \/ StayAwake
  PROVE  Nearer
<1>1. RoundsByStage /\ RoundsByStage' /\ RestByStage /\ RestByStage'
  BY StagesOfStep
<1>2. RoundsLeft \in Nat /\ RoundsLeft' \in Nat
  BY <1>1 DEF RoundsByStage
<1>3. CASE PollEmpty
  <2>1. /\ pc = "poll" /\ pc' = "decide" /\ TimePasses
        /\ UNCHANGED <<messagePending, Run_Flag, faults, commands>>
    BY <1>3 DEF PollEmpty, queueVars
  <2>2. CASE Run_Flag = 0 /\ ~messagePending
    <3>1. Run_Flag' = 0 /\ ~messagePending'
      BY <2>1, <2>2
    <3>2. RestOfWake = 1 /\ RestOfWake' = 0
      BY <1>1, <2>1, <2>2, <3>1 DEF RestByStage
    <3>3. QED
      BY <2>1, <3>2 DEF Nearer
  <2>3. CASE ~(Run_Flag = 0 /\ ~messagePending)
    <3>1. \/ elapsed' = InitRounds /\ elapsed = InitRounds
          \/ elapsed < InitRounds /\ elapsed' > elapsed
      BY <2>1, StepTypes DEF TimePasses
    <3>2. AfterPoll' = AfterPoll /\ AfterPoll \in {0, 1}
      BY <2>1 DEF AfterPoll
    <3>3. RoundsLeft' <= RoundsLeft - 1
      <4>1. elapsed' \in 0..InitRounds
        BY DEF TypeOK, ReportTypeOK
      <4>2. RoundsLeft' = InitRounds - elapsed' + 1 + AfterPoll'
        BY <1>1, <2>1 DEF RoundsByStage, LoopStages
      <4>3. RoundsLeft = InitRounds - elapsed + 1 + AfterPoll + IntervalOver
        BY <1>1, <2>1 DEF RoundsByStage
      <4>4. QED
        BY <3>1, <3>2, <4>1, <4>2, <4>3, StepTypes DEF IntervalOver
    <3>4. RestOfWake = 8 * RoundsLeft + 1
      BY <1>1, <2>1, <2>3 DEF RestByStage
    <3>5. RestOfWake' <= 8 * RoundsLeft' + 8
      BY <1>1, <1>2, <2>1 DEF RestByStage
    <3>6. RestOfWake' \in Int
      BY <1>1, <1>2, <2>1 DEF RestByStage
    <3>7. \A q, r, k, l \in Int :
            l <= k - 1 /\ q = 8 * k + 1 /\ r <= 8 * l + 8 => r < q
      OBVIOUS
    <3>8. RestOfWake' < RestOfWake
      <4>1. RoundsLeft \in Int /\ RoundsLeft' \in Int /\ RestOfWake \in Int
        BY <1>2, <3>4
      <4>2. QED
        BY <3>3, <3>4, <3>5, <3>6, <3>7, <4>1, Zenon
    <3>9. QED
      BY <2>1, <3>8 DEF Nearer
  <2>4. QED
    BY <2>2, <2>3
<1>4. CASE StayAwake
  <2>1. /\ pc = "decide" /\ pc' = "loop" /\ (Run_Flag # 0 \/ messagePending)
        /\ UNCHANGED <<messagePending, elapsed, faults, commands>>
    BY <1>4 DEF StayAwake, MaySleep, queueVars, reportVars
  <2>2. RoundsLeft' = RoundsLeft
    BY <1>1, <2>1 DEF RoundsByStage, AfterPoll, LoopStages
  <2>3. RestOfWake = 8 * RoundsLeft + 8 /\ RestOfWake' = 8 * RoundsLeft' + 7
    BY <1>1, <2>1 DEF RestByStage
  <2>4. QED
    BY <1>2, <2>1, <2>2, <2>3 DEF Nearer
<1>5. CASE ~PollEmpty /\ ~StayAwake
  <2>1. commands' = commands + 1 /\ faults' \in {faults, faults + 1}
    BY <1>5 DEF ReceiveSendData, ReceiveDisplayDistance, ReceiveClearWIFI,
                ReceiveConfigInterval, ReceiveOther, Receive, ReadAndQueue,
                QueueMessage, SaveConfig, NoFault, Fault
  <2>2. QED
    BY <2>1, StepTypes DEF Nearer, Spent
<1>6. QED
  BY <1>3, <1>4, <1>5

LEMMA NextNearer ==
  ASSUME WakeWorld, TypeOK, TypeOK', SyncInv, WorkReached, Next, pc # "asleep", ~AP
  PROVE  pc' \in {"asleep", "boot"} \/ AP' \/ Nearer
<1>1. TRUE \notin Switch /\ ~DriftAwake
  BY DEF WakeWorld, SyncWorld
<1>2. CASE SetupStep
  BY <1>1, <1>2, SetupNearer
<1>3. CASE LoopStep
  <2>1. CASE RefuseReport
    BY <2>1, ConnectedSync, BoundAssumption
    DEF RefuseReport, SendDue, TypeOK, SwitchTypeOK
  <2>2. CASE HoldInCallback
    BY <1>1, <2>2 DEF HoldInCallback
  <2>3. CASE Sleep
    BY <2>3 DEF Sleep, Restart
  <2>4. CASE ServePage \/ handleSubmit \/ handleSetupSubmit
    BY <2>4 DEF ServePage, handleSubmit, handleSetupSubmit, Submit
  <2>5. QED
    BY <1>1, <1>3, <2>1, <2>2, <2>3, <2>4, ReadAndCompareNearer, BlockNearer,
       SendNearer, PollNearer
    DEF LoopStep
<1>4. CASE Wake \/ Drift
  BY <1>1, <1>4 DEF Wake, Drift
<1>5. CASE PowerLoss
  BY <1>5 DEF PowerLoss, Restart
<1>6. QED
  BY <1>2, <1>3, <1>4, <1>5 DEF Next, DeviceStep

\* In that world every step of a wake is a step towards its end: no flag stays
\* up for ever, no round is gone through for nothing, and only a fault or a
\* command, a bounded number of steps each, prolongs it.
THEOREM WakesAdvance ==
  ASSUME WakeWorld
  PROVE  Spec => WakeAdvances
<1>1. SyncWorld
  BY DEF WakeWorld
<1>2. ASSUME TypeOK, TypeOK', SyncInv, WorkReached, Next, pc # "asleep", ~AP
      PROVE  pc' \in {"asleep", "boot"} \/ AP' \/ StepsLeft' \in 0..(StepsLeft - 1)
  BY <1>2, NextNearer, StepsLeftFall
<1>3. TypeOK /\ TypeOK' /\ SyncInv /\ WorkReached /\ [Next]_vars
        => [pc # "asleep" /\ ~AP
              => pc' \in {"asleep", "boot"} \/ AP'
                   \/ StepsLeft' \in 0..(StepsLeft - 1)]_vars
  BY <1>2
<1>4. Spec => []SyncInv /\ []WorkReached
  BY <1>1, SyncCorrect, WorkIsReached
<1>5. QED
  BY <1>3, <1>4, TypeCorrect, PTL DEF Spec, WakeAdvances
=============================================================================
