------------------------------- MODULE Setup -------------------------------
(***************************************************************************)
(* setup(): from the reset vector to the first loop().  One action per     *)
(* stretch of code between two points at which the world is consulted.     *)
(***************************************************************************)
EXTENDS DeviceState

SetupStages == {"boot", "switch1", "switch2", "connect", "joining", "switch3",
                "clock", "sync", "ntp", "hub"}

\* Lines 47-92.  loadConfig() may fail to open or to parse the file, which
\* setup() ignores.  Without a file system setup() returns at once, as a
\* station with no configuration, no hub and no sensor begun: the flags stay
\* up in the code but only a connected loop() reads them; here they say what
\* a sensor that was never begun answers.
MountAndLoadConfig ==
  /\ pc = "boot"
  /\ \/ /\ \/ DeviceConfig' = configFile /\ NoFault
           \/ UNCHANGED DeviceConfig /\ Fault("load")
        /\ mounted' = TRUE
        /\ pc' = "switch1"
        /\ UNCHANGED <<distanceSensor, environmentSensor>>
     \/ /\ Fault("fs")
        /\ pc' = "loop"
        /\ distanceSensor' = FALSE /\ environmentSensor' \in BOOLEAN
        /\ UNCHANGED <<mounted, DeviceConfig>>
  /\ UNCHANGED <<AP, hubConnected, WIFIConnectionTryCnt, Counter,
                 WIFIResetCount, resetDevice, resetCount, reportVars,
                 queueVars, lastingVars, level, hubVars, wake, commands>>

\* while(digitalRead(resetWIFISwitch) == LOW) CheckWIFIReset(): three places.
HoldSwitch ==
  /\ pc \in {"switch1", "switch2", "switch3"}
  /\ TRUE \in Switch
  /\ \E pressed \in Switch : CheckWIFIReset(pressed)
  /\ UNCHANGED <<pc, setupVars, resetCount, reportVars, waiting, rtcMem,
                 level, hubVars, commands>>

\* Lines 105-112: a device lacking either string becomes an access point.
ChooseMode ==
  /\ pc = "switch1"
  /\ FALSE \in Switch
  /\ AP' = (~DeviceConfig.cs \/ ~DeviceConfig.ssid)
  /\ pc' = "switch2"
  /\ UNCHANGED <<mounted, hubConnected, distanceSensor, environmentSensor,
                 WIFIConnectionTryCnt, Counter, switchVars, reportVars,
                 queueVars, lastingVars, level, hubVars, wake, faults, commands>>

\* Lines 122-161: sensors, then the access point or the station.
InitSensors ==
  /\ pc = "switch2"
  /\ FALSE \in Switch
  /\ \/ /\ UNCHANGED <<distanceSensor, environmentSensor>>
        /\ NoFault
     \/ /\ Fault("sensor")
        /\ distanceSensor' \in BOOLEAN /\ environmentSensor' \in BOOLEAN
        /\ ~(distanceSensor' /\ environmentSensor')
  /\ pc' = IF AP THEN "loop" ELSE "connect"
  /\ UNCHANGED <<mounted, AP, hubConnected, WIFIConnectionTryCnt, Counter,
                 switchVars, reportVars, queueVars, lastingVars, level,
                 hubVars, wake, commands>>

-----------------------------------------------------------------------------
(* connect()                                                               *)

\* Already joined (the SDK rejoins the network it has in flash): return.
AlreadyConnected ==
  /\ pc = "connect"
  /\ pc' = "clock"
  /\ UNCHANGED <<setupVars, switchVars, reportVars, queueVars, lastingVars,
                 level, hubVars, wake, faults, commands>>

BeginJoin ==
  /\ pc = "connect"
  /\ pc' = "joining"
  /\ UNCHANGED <<setupVars, switchVars, reportVars, queueVars, lastingVars,
                 level, hubVars, wake, faults, commands>>

\* One round of the 500 ms loop while the network is not joined: the switch,
\* then the count to a reset, then the count to a restart.
AwaitJoin ==
  /\ pc = "joining"
  /\ "wifi" \in Faults
  /\ \E pressed \in Switch :
       LET held == pressed /\ WIFIResetCount = HoldLimit
           due == (resetDevice \/ held) /\ resetCount + 1 = ConnectResetRounds
           out == WIFIConnectionTryCnt + 1 > MaxTries
       IN IF due \/ out
          THEN /\ Restart("boot")
               /\ IF held THEN SaveConfig([DeviceConfig EXCEPT !.ssid = FALSE])
                          ELSE UNCHANGED configFile /\ NoFault
          ELSE /\ CheckWIFIReset(pressed)
               /\ resetCount' = IF resetDevice \/ held THEN resetCount + 1
                                                       ELSE resetCount
               /\ WIFIConnectionTryCnt' = WIFIConnectionTryCnt + 1
               /\ UNCHANGED <<pc, mounted, AP, hubConnected, distanceSensor,
                              environmentSensor, Counter, reportVars, waiting>>
  /\ UNCHANGED <<rtcMem, level, hubVars, commands>>

Joined ==
  /\ pc = "joining"
  /\ pc' = "switch3"
  /\ UNCHANGED <<setupVars, switchVars, reportVars, queueVars, lastingVars,
                 level, hubVars, wake, faults, commands>>

\* Lines 66-69 end when the switch reads HIGH.
LeaveConnect ==
  /\ pc = "switch3"
  /\ FALSE \in Switch
  /\ pc' = "clock"
  /\ UNCHANGED <<setupVars, switchVars, reportVars, queueVars, lastingVars,
                 level, hubVars, wake, faults, commands>>

-----------------------------------------------------------------------------
(* The clock and the hub.                                                  *)

\* initTime() polls the SDK's clock until it is not 0, with no other way out.
InitTime ==
  /\ pc = "clock"
  /\ pc' = "sync"
  /\ UNCHANGED <<setupVars, switchVars, reportVars, queueVars, lastingVars,
                 level, hubVars, wake, faults, commands>>

\* The negation of `year() == 1970 || year() > 2020` after a reply.
YearAccepted == CalendarYear # 1970 /\ CalendarYear <= 2020

\* One setSyncProvider(getNtpTime): did it leave an accepted year behind?
Sync(accepted) == \/ accepted = YearAccepted /\ NoFault
                  \/ accepted = FALSE /\ Fault("ntp")

FirstSync ==
  /\ pc = "sync"
  /\ \E accepted \in BOOLEAN :
       Sync(accepted) /\ pc' = IF accepted THEN "hub" ELSE "ntp"
  /\ UNCHANGED <<setupVars, switchVars, reportVars, queueVars, lastingVars,
                 level, hubVars, wake, commands>>

\* Lines 172-185.  The third round sleeps whatever its own attempt brought;
\* it writes no RTC memory, so the wake it ends counts for no heartbeat.
RetrySync ==
  /\ pc = "ntp"
  /\ \E accepted \in BOOLEAN :
       /\ Sync(accepted)
       /\ IF Counter + 1 >= 3
          THEN /\ Restart("asleep")
               /\ OneSleepMore
          ELSE /\ Counter' = Counter + 1
               /\ pc' = IF accepted THEN "hub" ELSE "ntp"
               /\ UNCHANGED <<mounted, AP, hubConnected, distanceSensor,
                              environmentSensor, WIFIConnectionTryCnt,
                              switchVars, reportVars, queueVars, wake, quiet>>
  /\ UNCHANGED <<lastingVars, level, hubView, commands>>

\* Lines 187-195; any time may have passed since previousSendMillis was set.
InitIOTHub ==
  /\ pc = "hub"
  /\ \/ hubConnected' = TRUE /\ NoFault
     \/ hubConnected' = FALSE /\ Fault("hub")
  /\ elapsed' \in 0..InitRounds
  /\ pc' = "loop"
  /\ UNCHANGED <<mounted, AP, distanceSensor, environmentSensor,
                 WIFIConnectionTryCnt, Counter, switchVars, DeviceData,
                 rtcData, Critical_Flag, Run_Flag, queueVars, lastingVars,
                 level, hubVars, wake, commands>>

SetupStep ==
  \/ MountAndLoadConfig \/ HoldSwitch \/ ChooseMode \/ InitSensors
  \/ AlreadyConnected \/ BeginJoin \/ AwaitJoin \/ Joined \/ LeaveConnect
  \/ InitTime \/ FirstSync \/ RetrySync \/ InitIOTHub
=============================================================================
