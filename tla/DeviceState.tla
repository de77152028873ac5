---------------------------- MODULE DeviceState ----------------------------
(***************************************************************************)
(* The memory of a dispenser and the helpers that setup() and loop() both  *)
(* call.  Three kinds of memory are told apart, because the three lifetimes *)
(* are what the firmware's correctness turns on:                           *)
(*   RAM       lost at every deep sleep, reset, restart and power loss;    *)
(*   RTC       rtcMem, kept through deep sleep and reset, garbage after a  *)
(*             power loss;                                                 *)
(*   flash     configFile (/config.json), kept always.                     *)
(* The sketch is single threaded: what interleaves with it is the world,   *)
(* the switch, the network and the hub.  pc names the point it has reached. *)
(***************************************************************************)
EXTENDS Integers, Sequences

CONSTANTS
  EnvChannels,         \* the channels SetEnvironment() fills
  Levels,              \* what a working distance sensor may measure
  EnvLevels,           \* what a working environment sensor may measure
  UnreadRange,         \* what GetDistance() stores when no sensor answers
  Garbage,             \* what a double of RTC memory may hold after power-up
  GarbageCritical,     \* what its Critical_Flag may hold after power-up
  NaN,                 \* the double that compares with nothing
  NoReading,           \* "the hub has received nothing since power-up"
  Max_Time,            \* Includes.h: 23
  InitRounds,          \* Init_Time in rounds of the loop's delay(500): 20
  ResetRounds,         \* rounds of loop() from "Will reset!" to ESP.reset()
  ConnectResetRounds,  \* the same inside connect()
  MaxTries,            \* WIFIConnectionTryCnt beyond which connect() restarts
  CalendarYear,        \* the year an NTP server answers with
  InitialConfigs,      \* the configurations the device may be delivered with
  Switch,              \* what reads of the reset switch may say (TRUE: LOW)
  Commands,            \* the cloud-to-device messages the hub may send
  Faults,              \* the faults the world may cause, by name
  MaxFaults,           \* bound: faults in one behaviour
  MaxCommands,         \* bound: cloud-to-device messages in one behaviour
  DriftAwake           \* may a measured quantity change between two reads?

Channels == {"Distance"} \cup EnvChannels
Readings == Levels \cup EnvLevels \cup {0, UnreadRange}
RTCValues == Readings \cup Garbage
\* What the quantities may be, one value for each channel.
Measurable == {l \in [Channels -> Levels \cup EnvLevels] :
                 \A c \in Channels :
                   l[c] \in IF c = "Distance" THEN Levels ELSE EnvLevels}
Config == [cs: BOOLEAN, ssid: BOOLEAN]     \* which strings are non-empty
FaultNames == {"post", "unacked", "queue", "hub", "sensor", "save", "load",
               "ntp", "wifi", "fs", "power"}
CommandNames == {"SendData", "DisplayDistance", "ClearWIFI",
                 "ConfigInterval", "Other"}

ASSUME ReadingAssumption ==
  /\ "Distance" \notin EnvChannels
  /\ Levels \subseteq Nat /\ EnvLevels \subseteq Int /\ UnreadRange \in Nat
  /\ NaN \notin Int
  /\ Garbage \subseteq Int \cup {NaN}
  /\ GarbageCritical \subseteq Int
  /\ NoReading \notin [Channels -> Readings]

ASSUME BoundAssumption ==
  /\ {Max_Time, InitRounds, ResetRounds, ConnectResetRounds} \subseteq Nat \ {0}
  /\ ConnectResetRounds < ResetRounds
  /\ {MaxTries, MaxFaults, MaxCommands, CalendarYear} \subseteq Nat

ASSUME WorldAssumption ==
  /\ InitialConfigs \subseteq Config
  /\ Switch \subseteq BOOLEAN
  /\ Commands \subseteq CommandNames
  /\ Faults \subseteq FaultNames
  /\ DriftAwake \in BOOLEAN

VARIABLES
  pc,
  \* RAM written by setup(); mounted: SPIFFS.begin() succeeded
  mounted, AP, hubConnected, distanceSensor, environmentSensor,
  WIFIConnectionTryCnt, Counter,
  \* RAM of the reset switch and of the configuration
  WIFIResetCount, resetDevice, resetCount, DeviceConfig,
  \* RAM of reporting; elapsed is millis() - previousSendMillis in rounds,
  \* waiting is the hub client's waitingToSend list
  DeviceData, rtcData, Critical_Flag, Run_Flag, elapsed, waiting,
  messagePending,
  \* what survives
  rtcMem, configFile,
  \* the world: what the sensors would measure now
  level,
  \* history, read by no action: the hub's last reading since power-up, the
  \* sleeps since it arrived (or since power-up); what happened since the last
  \* boot; the two budgets
  hubView, quiet, wake, faults, commands

setupVars   == <<mounted, AP, hubConnected, distanceSensor, environmentSensor,
                 WIFIConnectionTryCnt, Counter>>
switchVars  == <<WIFIResetCount, resetDevice, resetCount, DeviceConfig>>
reportVars  == <<DeviceData, rtcData, Critical_Flag, Run_Flag, elapsed>>
queueVars   == <<waiting, messagePending>>
lastingVars == <<rtcMem, configFile>>
hubVars     == <<hubView, quiet>>
vars == <<pc, setupVars, switchVars, reportVars, queueVars, lastingVars,
          level, hubVars, wake, faults, commands>>

-----------------------------------------------------------------------------
(* The world.                                                              *)

Fault(name) == /\ name \in Faults /\ faults < MaxFaults
               /\ faults' = faults + 1
NoFault == faults' = faults

\* Bound on the history counter quiet, beyond every value a property allows.
MaxQuiet == Max_Time + MaxFaults + 2
OneSleepMore == quiet' = IF quiet < MaxQuiet THEN quiet + 1 ELSE quiet

\* The RTC cells after power-up: the chip does not clear them.
PowerUpMemory == [value: [Channels -> Garbage], critical: GarbageCritical]

-----------------------------------------------------------------------------
(* Readings.  Threshold is Includes.h's DISTANCE = TEMPERATURE = HUMIDITY.  *)

Threshold == 2
Abs(x) == IF x < 0 THEN -x ELSE x

\* `abs(stored - read) > threshold` on doubles: false when stored is NaN.
Apart(stored, read) == stored # NaN /\ Abs(stored - read) > Threshold
Differs(stored, reading) == \E c \in Channels : Apart(stored[c], reading[c])

\* A stored value outside 0..200 is replaced; NaN passes both comparisons.
\* Critical_Flag is used as it is found.
Sanitise(v) == IF v # NaN /\ (v < 0 \/ v > 200) THEN 0 ELSE v
SanitiseAll(memory) ==
  [memory EXCEPT !.value = [c \in Channels |-> Sanitise(memory.value[c])]]

\* GetDistance(): no status check, an absent sensor reads as UnreadRange.
GetDistance == IF distanceSensor THEN level["Distance"] ELSE UnreadRange

\* SetEnvironment() leaves DeviceData alone when the sensor did not start.
SetEnvironment == [c \in EnvChannels |->
                     IF environmentSensor THEN level[c] ELSE DeviceData[c]]

ReadAll(distance) ==
  [c \in Channels |-> IF c = "Distance" THEN distance ELSE SetEnvironment[c]]

-----------------------------------------------------------------------------
(* Configuration and the reset switch.                                     *)

\* saveConfig() writes all of DeviceConfig, or fails to open the file; without
\* a file system it always fails.
SaveConfig(config) ==
  \/ configFile' = (IF mounted THEN config ELSE configFile) /\ NoFault
  \/ configFile' = configFile /\ Fault("save")

HoldLimit == 4

\* Mutant: the count is not cleared with the network.
CheckWIFIResetKeepingCount(pressed) ==
  LET count == IF pressed THEN WIFIResetCount + 1 ELSE 0
      clear == count > HoldLimit
  IN /\ messagePending' = (messagePending \/ pressed)
     /\ wake' = [wake EXCEPT !.pressed = @ \/ pressed]
     /\ WIFIResetCount' = count
     /\ DeviceConfig' = [DeviceConfig EXCEPT !.ssid = @ /\ ~clear]
     /\ resetDevice' = (resetDevice \/ clear)
     /\ IF clear THEN SaveConfig(DeviceConfig')
                 ELSE UNCHANGED configFile /\ NoFault

\* Mutant: the network is cleared and no reset is asked for.
CheckWIFIResetWithoutReset(pressed) ==
  LET count == IF pressed THEN WIFIResetCount + 1 ELSE 0
      clear == count > HoldLimit
  IN /\ messagePending' = (messagePending \/ pressed)
     /\ wake' = [wake EXCEPT !.pressed = @ \/ pressed]
     /\ WIFIResetCount' = IF clear THEN 0 ELSE count
     /\ DeviceConfig' = [DeviceConfig EXCEPT !.ssid = @ /\ ~clear]
     /\ resetDevice' = resetDevice
     /\ IF clear THEN SaveConfig(DeviceConfig')
                 ELSE UNCHANGED configFile /\ NoFault

\* One call of CheckWIFIReset(), whose own read of the switch is `pressed`.
CheckWIFIReset(pressed) ==
  LET count == IF pressed THEN WIFIResetCount + 1 ELSE 0
      clear == count > HoldLimit
  IN /\ messagePending' = (messagePending \/ pressed)
     /\ wake' = [wake EXCEPT !.pressed = @ \/ pressed]
     /\ WIFIResetCount' = IF clear THEN 0 ELSE count
     /\ DeviceConfig' = [DeviceConfig EXCEPT !.ssid = @ /\ ~clear]
     /\ resetDevice' = (resetDevice \/ clear)
     /\ IF clear THEN SaveConfig(DeviceConfig')
                 ELSE UNCHANGED configFile /\ NoFault

-----------------------------------------------------------------------------
(* The outgoing queue of the hub client.                                   *)

\* QueueMessage(): messagePending is raised only if the client took it.
QueueMessage(reading) ==
  \/ /\ waiting' = Append(waiting, reading)
     /\ messagePending' = TRUE
     /\ NoFault
  \/ /\ Fault("queue")
     /\ UNCHANGED queueVars

-----------------------------------------------------------------------------
(* RAM at the start of setup(): the globals' initialisers and lines 52-74. *)

ZeroReading == [c \in Channels |-> 0]
NoConfig == [cs |-> FALSE, ssid |-> FALSE]
Awake == [sends |-> 0, failures |-> 0, pressed |-> FALSE]

\* Every way to lose RAM, at a point where the next instruction is `next`.
Restart(next) ==
  /\ pc' = next
  /\ mounted' = FALSE /\ AP' = FALSE /\ hubConnected' = FALSE
  /\ distanceSensor' = TRUE /\ environmentSensor' = TRUE
  /\ WIFIConnectionTryCnt' = 0 /\ Counter' = 0
  /\ WIFIResetCount' = 0 /\ resetDevice' = FALSE /\ resetCount' = 0
  /\ DeviceConfig' = NoConfig
  /\ DeviceData' = ZeroReading
  /\ rtcData' = [value |-> ZeroReading, critical |-> 0]
  /\ Critical_Flag' = 1 /\ Run_Flag' = 0 /\ elapsed' = 0
  /\ waiting' = <<>> /\ messagePending' = FALSE
  /\ wake' = Awake
=============================================================================
