----------------------------- MODULE Dispenser -----------------------------
(***************************************************************************)
(* The whole device in its world: setup() and loop() from power-up through *)
(* any number of wakes, resets and power losses, while the measured        *)
(* quantities drift.                                                       *)
(***************************************************************************)
EXTENDS Setup, Loop

Init ==
  /\ pc = "boot"
  /\ mounted = FALSE /\ AP = FALSE /\ hubConnected = FALSE
  /\ distanceSensor = TRUE /\ environmentSensor = TRUE
  /\ WIFIConnectionTryCnt = 0 /\ Counter = 0
  /\ WIFIResetCount = 0 /\ resetDevice = FALSE /\ resetCount = 0
  /\ DeviceConfig = NoConfig
  /\ DeviceData = ZeroReading
  /\ rtcData = [value |-> ZeroReading, critical |-> 0]
  /\ Critical_Flag = 1 /\ Run_Flag = 0 /\ elapsed = 0
  /\ waiting = <<>> /\ messagePending = FALSE
  /\ rtcMem \in PowerUpMemory
  /\ configFile \in InitialConfigs
  /\ level \in Measurable
  /\ hubView = NoReading /\ quiet = 0
  /\ wake = Awake
  /\ faults = 0 /\ commands = 0

\* The deep-sleep timer (SLEEP_TIME) pulls the reset line.
Wake ==
  /\ pc = "asleep"
  /\ pc' = "boot"
  /\ UNCHANGED <<setupVars, switchVars, reportVars, queueVars, lastingVars,
                 level, hubVars, wake, faults, commands>>

Drift ==
  /\ pc = "asleep" \/ DriftAwake
  /\ level' \in Measurable
  /\ UNCHANGED <<pc, setupVars, switchVars, reportVars, queueVars, lastingVars,
                 hubVars, wake, faults, commands>>

\* The history of what the hub knows starts afresh with the RTC memory.
PowerLoss ==
  /\ Fault("power")
  /\ Restart("boot")
  /\ rtcMem' \in PowerUpMemory
  /\ hubView' = NoReading /\ quiet' = 0
  /\ UNCHANGED <<configFile, level, commands>>

DeviceStep == SetupStep \/ LoopStep
Next == DeviceStep \/ Wake \/ Drift \/ PowerLoss

Spec == Init /\ [][Next]_vars

\* The processor keeps executing and the sleep timer keeps running.  That
\* every retry meets no further fault comes from the bound on faults.
FairSpec == Spec /\ WF_vars(DeviceStep) /\ WF_vars(Wake)

-----------------------------------------------------------------------------
(* Types.                                                                  *)

Stages == SetupStages \cup LoopStages \cup {"asleep"}
Reading == [Channels -> Readings]
Memory == [value: [Channels -> RTCValues], critical: Int]

SetupTypeOK ==
  /\ mounted \in BOOLEAN /\ AP \in BOOLEAN /\ hubConnected \in BOOLEAN
  /\ distanceSensor \in BOOLEAN /\ environmentSensor \in BOOLEAN
  /\ WIFIConnectionTryCnt \in 0..MaxTries
  /\ Counter \in 0..2
SwitchTypeOK ==
  /\ WIFIResetCount \in 0..HoldLimit
  /\ resetDevice \in BOOLEAN
  /\ resetCount \in Nat
  /\ DeviceConfig \in Config
ReportTypeOK ==
  /\ DeviceData \in Reading
  /\ rtcData \in Memory
  /\ Critical_Flag \in {0, 1} /\ Run_Flag \in {0, 1}
  /\ elapsed \in 0..InitRounds
QueueTypeOK == waiting \in Seq(Reading) /\ messagePending \in BOOLEAN
LastingTypeOK == rtcMem \in Memory /\ configFile \in Config
HubTypeOK == hubView \in Reading \cup {NoReading} /\ quiet \in 0..MaxQuiet
WakeTypeOK == wake \in [sends: Nat, failures: Nat, pressed: BOOLEAN]
BudgetTypeOK == faults \in 0..MaxFaults /\ commands \in 0..MaxCommands

\* The type invariant: what every variable may hold at any time.
TypeOK ==
  /\ pc \in Stages
  /\ SetupTypeOK /\ SwitchTypeOK /\ ReportTypeOK /\ QueueTypeOK
  /\ LastingTypeOK /\ HubTypeOK /\ WakeTypeOK /\ BudgetTypeOK
  /\ level \in Measurable

-----------------------------------------------------------------------------
(* Reporting by exception.                                                 *)

FallsAsleep == pc = "decide" /\ pc' = "asleep"
HubInformed == hubView # NoReading

\* Whenever a wake that reached the hub ends, the hub's last reading is
\* within the thresholds of the device's own: a retry, a late delivery or
\* the reload of RTC memory never leaves the hub with an older picture than
\* the baseline the next wake compares with (lines 207, 233, 281-283, 399).
HubInSync ==
  [][FallsAsleep /\ hubConnected /\ HubInformed
       => ~Differs(hubView, DeviceData)]_vars

\* The first report of a wake has a reason the hub would recognise: what it
\* last received is out of date, or the heartbeat interval has passed since
\* it arrived.  (The baseline of line 233 is the device's own notion.)
NoSpuriousReport ==
  [][SendReport /\ wake.sends = 0 /\ HubInformed
       => Differs(hubView, DeviceData) \/ quiet > Max_Time]_vars

\* The hub hears from the device after at most Max_Time + 1 sleeps (24 of
\* ten minutes: the 4 hours of Includes.h:80), one more for each wake whose
\* boot failed; a failed POST costs none, as the device stays awake for it.
\* The first report after power-up is as prompt.
HeartbeatOnTime == quiet <= Max_Time + 1 + faults

\* A wake sends again only after a POST of it failed (the late delivery leaves
\* Run_Flag up, and the loop goes round to one more report) or after a command
\* of the hub's: repeats are bounded by what provoked them.
DuplicatesNeedFailures == wake.sends <= 1 + wake.failures + commands

\* messagePending is up only while a message is in the client's list or its
\* callback runs, or because the switch was pressed since boot.
PendingHasCause ==
  messagePending => waiting # <<>> \/ pc = "sent" \/ wake.pressed

\* The device holds back a new report while one is waiting: but for what
\* SendData commands added, the client's list never grows past one message,
\* and is empty whenever the flag is down or the callback is about to lower it.
Provoked == IF "SendData" \in Commands THEN commands ELSE 0
QueueBounded ==
  /\ Len(waiting) <= 1 + Provoked
  /\ ~messagePending \/ pc = "sent" => Len(waiting) <= Provoked

\* Deep sleep loses RAM and with it the client's list, so the device sleeps
\* only when the list is empty (the comment of line 384: "Message is not
\* Pending or sent to Server").
NothingLostToSleep == [][FallsAsleep => waiting = <<>>]_vars

-----------------------------------------------------------------------------
(* The length of a wake.                                                   *)

\* What is left of a round, and of setup(), in steps of the device.
RestOfRound ==
  CASE pc = "decide" -> 8 [] pc = "loop" -> 7 [] pc = "block" -> 6
    [] pc = "reset" -> 5 [] pc = "serve" -> 4 [] pc = "event" -> 3
    [] pc = "sent" -> 2 [] OTHER -> 1
RestOfSetup ==
  CASE pc = "boot" -> 12 + MaxTries [] pc = "switch1" -> 11 + MaxTries
    [] pc = "switch2" -> 10 + MaxTries [] pc = "connect" -> 9 + MaxTries
    [] pc = "joining" -> 8 + MaxTries - WIFIConnectionTryCnt
    [] pc = "switch3" -> 7 [] pc = "clock" -> 6 [] pc = "sync" -> 5
    [] pc = "ntp" -> 4 - Counter [] OTHER -> 1

\* This round is the last: the flag came down in it, or before.
LastRound ==
  /\ Run_Flag = 0
  /\ \/ pc \in {"event", "sent"}
     \/ pc \in {"poll", "decide"} /\ ~messagePending

\* The rounds to come: until the interval is over, one that reports, and one
\* more for a message that holds the report back.
RoundsLeft ==
  InitRounds - elapsed + 1
    + (IF messagePending /\ pc # "sent" THEN 1 ELSE 0)
    + (IF pc \in {"sent", "poll"} /\ elapsed = InitRounds THEN 1 ELSE 0)

RestOfWake ==
  IF pc \in SetupStages THEN 8 * (InitRounds + 3) + RestOfSetup
  ELSE IF LastRound THEN RestOfRound % 8 ELSE 8 * RoundsLeft + RestOfRound

\* A wake without a fault or a command takes no more steps than this.
WholeWake == 8 * (InitRounds + 3) + 12 + MaxTries
StepsLeft ==
  (MaxFaults - faults + MaxCommands - commands) * (WholeWake + 1) + RestOfWake

\* Every step of a station that is awake brings it nearer to deep sleep, or to
\* the reset or the access point that ends the wake in another way: whatever
\* fails, a raised Run_Flag or messagePending is come back to and lowered, and
\* only faults and commands, each a bounded number of steps, prolong a wake.
WakeAdvances ==
  [][pc # "asleep" /\ ~AP
       => pc' \in {"asleep", "boot"} \/ AP' \/ StepsLeft' \in 0..(StepsLeft - 1)]_vars

-----------------------------------------------------------------------------
(* Configuration and reset.                                                *)

\* The hub client is only ever created from a stored connection string, and
\* loses its network's name only on the way to a reset: of all the places
\* that clear it (three holds, connect(), the callback, ClearWIFI) none lets
\* the station carry on.
ConnectedIsProvisioned ==
  hubConnected => DeviceConfig.cs /\ (DeviceConfig.ssid \/ resetDevice)

\* The count to a reset is compared with ==, in two places with two limits:
\* it never steps over either of them.
ResetCountInRange ==
  /\ resetCount < ResetRounds
  /\ pc = "joining" => resetCount < ConnectResetRounds

-----------------------------------------------------------------------------
(* Liveness.                                                               *)

\* Every wake of a station ends in deep sleep, or in an access point.
WakeEnds == pc # "asleep" ~> (pc = "asleep" \/ AP)

\* Once the measured quantities stop moving, the hub comes to know them
\* within the thresholds and keeps knowing them, unless the device lacks what
\* it needs to reach the hub.
Unprovisioned == AP \/ ~configFile.cs \/ ~configFile.ssid
HubConverges ==
  \A settled \in Measurable :
    <>[](level = settled)
      => <>[](Unprovisioned \/ (HubInformed /\ ~Differs(hubView, settled)))

\* What is left of the way to the reset: rounds of five stages.
StagesOfRound ==
  CASE pc = "reset" -> 0 [] pc = "block" -> 1 [] pc = "loop" -> 2
    [] pc = "decide" -> 3 [] pc = "serve" -> 4 [] OTHER -> 5
StagesToReset == 5 * (ResetRounds - resetCount) + StagesOfRound

\* However many requests, presses and failing saves come in between, each stage
\* of an access point that is to be reset (a submission, or a switch held down)
\* is one nearer to the reset; nothing starts its count again or withdraws it.
SubmissionAdvances ==
  [][AP /\ resetDevice
       => \/ pc' = "boot"
          \/ /\ AP' /\ resetDevice'
             /\ \/ StagesToReset' \in 0..(StagesToReset - 1)
                \/ pc' = pc /\ StagesToReset' = StagesToReset]_vars

\* A submission on the access point's pages ends in a reset.
SubmissionResets == (AP /\ resetDevice) ~> pc = "boot"
=============================================================================
