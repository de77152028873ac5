-------------------------------- MODULE Loop --------------------------------
(***************************************************************************)
(* loop(), the callbacks it runs from inside IoTHubClient_LL_DoWork(), and *)
(* the deep sleep that ends a wake.  The stages follow the text:           *)
(*   loop -> block -> reset -> serve -> event -> sent -> poll -> decide    *)
(* where block..poll is the body of the `if` of line 233.                  *)
(***************************************************************************)
EXTENDS DeviceState

LoopStages == {"loop", "block", "reset", "serve", "event", "sent", "poll",
               "decide"}

-----------------------------------------------------------------------------
(* Lines 207-233: what is known, what is measured, is a report due?        *)

\* Mutant: off by one.
BlockDueLate(memory, reading) ==
  AP \/ memory.critical > Max_Time \/ Differs(memory.value, reading)

BlockDue(memory, reading) ==
  AP \/ memory.critical >= Max_Time \/ Differs(memory.value, reading)

\* rtcUserMemoryRead() stands before Run_Flag and messagePending in the
\* condition: RTC memory replaces rtcData on every round of a station.
\* Only a round with nothing under way sanitises it and reads the sensors.
ReadAndCompare ==
  /\ pc = "loop"
  /\ LET idle    == ~AP /\ Run_Flag = 0 /\ ~messagePending
         stored  == IF AP THEN rtcData
                    ELSE IF idle THEN SanitiseAll(rtcMem) ELSE rtcMem
         reading == IF idle THEN ReadAll(GetDistance) ELSE DeviceData
     IN /\ rtcData' = stored
        /\ DeviceData' = reading
        /\ pc' = IF BlockDue(stored, reading) THEN "block" ELSE "decide"
  /\ UNCHANGED <<setupVars, switchVars, Critical_Flag, Run_Flag, elapsed,
                 queueVars, lastingVars, level, hubVars, wake, faults, commands>>

\* Lines 235-241.
EnterBlock ==
  /\ pc = "block"
  /\ Run_Flag' = 1
  /\ \E pressed \in Switch : CheckWIFIReset(pressed)
  /\ pc' = "reset"
  /\ UNCHANGED <<setupVars, resetCount, DeviceData, rtcData, Critical_Flag,
                 elapsed, waiting, rtcMem, level, hubVars, commands>>

\* Mutant: compared before it is incremented.
CountResetLate ==
  /\ pc = "reset"
  /\ IF resetDevice /\ resetCount = ResetRounds
     THEN Restart("boot")
     ELSE /\ resetCount' = IF resetDevice THEN resetCount + 1 ELSE resetCount
          /\ pc' = "serve"
          /\ UNCHANGED <<setupVars, WIFIResetCount, resetDevice, DeviceConfig,
                         reportVars, queueVars, wake>>
  /\ UNCHANGED <<lastingVars, level, hubVars, faults, commands>>

\* Mutant: the count starts again on every round.
CountResetAnew ==
  /\ pc = "reset"
  /\ IF resetDevice /\ resetCount + 1 = ResetRounds
     THEN Restart("boot")
     ELSE /\ resetCount' = IF resetDevice THEN 1 ELSE 0
          /\ pc' = "serve"
          /\ UNCHANGED <<setupVars, WIFIResetCount, resetDevice, DeviceConfig,
                         reportVars, queueVars, wake>>
  /\ UNCHANGED <<lastingVars, level, hubVars, faults, commands>>

\* Lines 243-253.
CountReset ==
  /\ pc = "reset"
  /\ IF resetDevice /\ resetCount + 1 = ResetRounds
     THEN Restart("boot")
     ELSE /\ resetCount' = IF resetDevice THEN resetCount + 1 ELSE resetCount
          /\ pc' = "serve"
          /\ UNCHANGED <<setupVars, WIFIResetCount, resetDevice, DeviceConfig,
                         reportVars, queueVars, wake>>
  /\ UNCHANGED <<lastingVars, level, hubVars, faults, commands>>

-----------------------------------------------------------------------------
(* The access point: server.handleClient() serves at most one request.     *)

\* A request that is no submission leaves the device as it was.
ServePage ==
  /\ pc = "serve" /\ AP
  /\ pc' = "decide"
  /\ UNCHANGED <<setupVars, switchVars, reportVars, queueVars, lastingVars,
                 level, hubVars, wake, faults, commands>>

\* handleSubmit() and handleSetupSubmit(); a form's field may be empty.
Submit(config) ==
  /\ pc = "serve" /\ AP
  /\ DeviceConfig' = config
  /\ SaveConfig(config)
  /\ resetDevice' = TRUE
  /\ pc' = "decide"
  /\ UNCHANGED <<setupVars, WIFIResetCount, resetCount, reportVars, queueVars,
                 rtcMem, level, hubVars, wake, commands>>

handleSubmit ==
  \E filled \in BOOLEAN : Submit([DeviceConfig EXCEPT !.ssid = filled])
handleSetupSubmit ==
  \E filled \in BOOLEAN : Submit([DeviceConfig EXCEPT !.cs = filled])

-----------------------------------------------------------------------------
(* The station without a hub: lines 376-380.                               *)

ServeOffline ==
  /\ pc = "serve" /\ ~AP /\ ~hubConnected
  /\ Run_Flag' = 0
  /\ pc' = "decide"
  /\ UNCHANGED <<setupVars, switchVars, DeviceData, rtcData, Critical_Flag,
                 elapsed, queueVars, lastingVars, level, hubVars, wake, faults,
                 commands>>

-----------------------------------------------------------------------------
(* The station with a hub: lines 276-374.                                  *)

\* Mutant: a pending message does not hold the next one back.
SendDueWhilePending == pc = "serve" /\ ~AP /\ hubConnected
                       /\ elapsed = InitRounds

SendDue == pc = "serve" /\ ~AP /\ hubConnected
           /\ elapsed = InitRounds /\ ~messagePending

\* Mutant: only the count is reset, the old values stay.
TakeCountOnly == /\ Run_Flag' = 0
                 /\ rtcData' = [rtcData EXCEPT !.critical = 0]
                 /\ Critical_Flag' = 0

\* Mutant: Run_Flag stays up.
TakeBaselineKeepingFlag == /\ Run_Flag' = Run_Flag
                           /\ rtcData' = [value |-> DeviceData, critical |-> 0]
                           /\ Critical_Flag' = 0

\* Lines 279-288: the reading of line 228 becomes the new baseline.
TakeBaseline == /\ Run_Flag' = 0
                /\ rtcData' = [value |-> DeviceData, critical |-> 0]
                /\ Critical_Flag' = 0

\* Lines 290-297: `return` skips DoWork and the decision to sleep.
RefuseReport ==
  /\ SendDue
  /\ WIFIResetCount > 0 \/ resetDevice
  /\ TakeBaseline
  /\ pc' = "loop"
  /\ UNCHANGED <<setupVars, switchVars, DeviceData, elapsed, queueVars,
                 lastingVars, level, hubVars, wake, faults, commands>>

\* Read again and queue: GetDistance() here only if the sensor started.
ReadAndQueue ==
  LET reading == ReadAll(IF distanceSensor THEN GetDistance
                                           ELSE DeviceData["Distance"])
  IN DeviceData' = reading /\ QueueMessage(reading)

\* Lines 299-371.  previousSendMillis becomes the time of this round's top.
SendReport ==
  /\ SendDue
  /\ WIFIResetCount = 0 /\ ~resetDevice
  /\ TakeBaseline
  /\ elapsed' = 0
  /\ ReadAndQueue
  /\ wake' = [wake EXCEPT !.sends = @ + 1]
  /\ pc' = "event"
  /\ UNCHANGED <<setupVars, switchVars, lastingVars, level, hubVars, commands>>

AwaitReport ==
  /\ pc = "serve" /\ ~AP /\ hubConnected
  /\ elapsed < InitRounds \/ messagePending
  /\ pc' = "event"
  /\ UNCHANGED <<setupVars, switchVars, reportVars, queueVars, lastingVars,
                 level, hubVars, wake, faults, commands>>

-----------------------------------------------------------------------------
(* IoTHubClient_LL_DoWork() over HTTP: DoEvent posts the head of the list, *)
(* once; then DoMessages polls.  The list is in RAM, so is its order.      *)

HubReceives == hubView' = Head(waiting) /\ quiet' = 0

\* The hub answers the POST below 300: the head leaves the list and its
\* callback runs.
PostAccepted ==
  /\ pc = "event" /\ waiting # <<>>
  /\ HubReceives
  /\ waiting' = Tail(waiting)
  /\ pc' = "sent"
  /\ UNCHANGED <<setupVars, switchVars, reportVars, messagePending,
                 lastingVars, level, wake, faults, commands>>

\* The POST, or only its answer, is lost: the head stays for the next DoWork.
PostFailed ==
  /\ pc = "event" /\ waiting # <<>>
  /\ \/ Fault("post") /\ UNCHANGED hubVars
     \/ Fault("unacked") /\ HubReceives
  /\ wake' = [wake EXCEPT !.failures = @ + 1]
  /\ pc' = "poll"
  /\ UNCHANGED <<setupVars, switchVars, reportVars, queueVars, lastingVars,
                 level, commands>>

NothingToPost ==
  /\ pc = "event" /\ waiting = <<>>
  /\ pc' = "poll"
  /\ UNCHANGED <<setupVars, switchVars, reportVars, queueVars, lastingVars,
                 level, hubVars, wake, faults, commands>>

\* OnMessageSentCallback(OK): one turn of its while, then its last line.
HoldInCallback ==
  /\ pc = "sent"
  /\ TRUE \in Switch
  /\ \E pressed \in Switch : CheckWIFIReset(pressed)
  /\ UNCHANGED <<pc, setupVars, resetCount, reportVars, waiting, rtcMem,
                 level, hubVars, commands>>

\* Mutant: the callback forgets its last line.
OnMessageSentCallbackKeepingFlag ==
  /\ pc = "sent"
  /\ FALSE \in Switch
  /\ pc' = "poll"
  /\ UNCHANGED <<setupVars, switchVars, reportVars, queueVars, lastingVars,
                 level, hubVars, wake, faults, commands>>

OnMessageSentCallback ==
  /\ pc = "sent"
  /\ FALSE \in Switch
  /\ messagePending' = FALSE
  /\ pc' = "poll"
  /\ UNCHANGED <<setupVars, switchVars, reportVars, waiting, lastingVars,
                 level, hubVars, wake, faults, commands>>

-----------------------------------------------------------------------------
(* DoMessages and ReceiveMessageCallback.  Whether the 25 minutes between  *)
(* two polls have passed, and whether the hub has a message, is the        *)
(* world's choice.  Every branch ends in delay(500), which with the        *)
(* network's own time moves millis().                                      *)

TimePasses == elapsed' \in (elapsed + 1)..InitRounds \cup {InitRounds}

PollEmpty ==
  /\ pc = "poll"
  /\ TimePasses
  /\ pc' = "decide"
  /\ UNCHANGED <<setupVars, switchVars, DeviceData, rtcData, Critical_Flag,
                 Run_Flag, queueVars, lastingVars, level, hubVars, wake,
                 faults, commands>>

Receive(name) ==
  /\ pc = "poll"
  /\ name \in Commands /\ commands < MaxCommands
  /\ commands' = commands + 1
  /\ TimePasses
  /\ pc' = "decide"
  /\ UNCHANGED <<setupVars, WIFIResetCount, resetCount, rtcData, Critical_Flag,
                 Run_Flag, rtcMem, level, hubVars, wake>>

\* SendData() queues a second message beside the one that may be waiting.
ReceiveSendData ==
  /\ Receive("SendData")
  /\ ReadAndQueue
  /\ UNCHANGED <<resetDevice, DeviceConfig, configFile>>

\* GetDistance() is called without a look at distanceSensor.
ReceiveDisplayDistance ==
  /\ Receive("DisplayDistance")
  /\ DeviceData' = [DeviceData EXCEPT !["Distance"] = GetDistance]
  /\ NoFault
  /\ UNCHANGED <<resetDevice, DeviceConfig, configFile, queueVars>>

ReceiveClearWIFI ==
  /\ Receive("ClearWIFI")
  /\ DeviceConfig' = [DeviceConfig EXCEPT !.ssid = FALSE]
  /\ SaveConfig(DeviceConfig')
  /\ resetDevice' = TRUE
  /\ UNCHANGED <<DeviceData, queueVars>>

\* A ConfigInterval with properties saves the whole of DeviceConfig.
ReceiveConfigInterval ==
  /\ Receive("ConfigInterval")
  /\ SaveConfig(DeviceConfig)
  /\ UNCHANGED <<resetDevice, DeviceConfig, DeviceData, queueVars>>

\* The LEDs, the free-heap flag and the displays touch nothing kept here.
ReceiveOther ==
  /\ Receive("Other")
  /\ NoFault
  /\ UNCHANGED <<resetDevice, DeviceConfig, configFile, DeviceData, queueVars>>

-----------------------------------------------------------------------------
(* Lines 385-407.                                                          *)

\* Mutant: a pending message does not keep the device awake.
MaySleepWhilePending == ~AP /\ Run_Flag = 0

MaySleep == ~AP /\ Run_Flag = 0 /\ ~messagePending

StayAwake ==
  /\ pc = "decide"
  /\ ~MaySleep
  /\ pc' = "loop"
  /\ UNCHANGED <<setupVars, switchVars, reportVars, queueVars, lastingVars,
                 level, hubVars, wake, faults, commands>>

\* Mutant: the sleeps without a report are not counted.
SleepUncounted ==
  /\ pc = "decide"
  /\ MaySleep
  /\ rtcMem' = rtcData
  /\ OneSleepMore
  /\ Restart("asleep")
  /\ UNCHANGED <<configFile, level, hubView, faults, commands>>

\* rtcUserMemoryWrite() and deepSleep(): RAM, and the list with it, is gone.
Sleep ==
  /\ pc = "decide"
  /\ MaySleep
  /\ rtcMem' = [rtcData EXCEPT !.critical = @ + Critical_Flag]
  /\ OneSleepMore
  /\ Restart("asleep")
  /\ UNCHANGED <<configFile, level, hubView, faults, commands>>

LoopStep ==
  \/ ReadAndCompare \/ EnterBlock \/ CountReset
  \/ ServePage \/ handleSubmit \/ handleSetupSubmit
  \/ ServeOffline \/ RefuseReport \/ SendReport \/ AwaitReport
  \/ PostAccepted \/ PostFailed \/ NothingToPost
  \/ HoldInCallback \/ OnMessageSentCallback
  \/ PollEmpty \/ ReceiveSendData \/ ReceiveDisplayDistance \/ ReceiveClearWIFI
  \/ ReceiveConfigInterval \/ ReceiveOther
  \/ StayAwake \/ Sleep
=============================================================================
