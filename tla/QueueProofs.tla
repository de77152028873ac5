---------------------------- MODULE QueueProofs ----------------------------
(***************************************************************************)
(* The safety of the outgoing queue, for every value of the constants: why *)
(* messagePending, a single flag, is enough to keep the device awake until *)
(* its report is out, what commands of the hub take away from that, and    *)
(* why a wake does not report twice without a cause.                       *)
(***************************************************************************)
EXTENDS DispenserProofs

QueueInv == QueueBounded /\ PendingHasCause

\* A step that touches neither the list, the flag nor the callback.
LEMMA QueueUntouched ==
  ASSUME TypeOK, QueueInv,
         UNCHANGED <<waiting, messagePending, commands>>,
         wake'.pressed = wake.pressed, pc # "sent", pc' # "sent"
  PROVE  QueueInv'
BY DEF QueueInv, QueueBounded, PendingHasCause, Provoked

\* A call of CheckWIFIReset() may raise the flag; it notes why.
LEMMA QueueAfterCheck ==
  ASSUME TypeOK, QueueInv, NEW pressed \in Switch, CheckWIFIReset(pressed),
         UNCHANGED <<waiting, commands>>,
         \/ UNCHANGED pc
         \/ pc # "sent" /\ pc' # "sent"
  PROVE  QueueInv'
<1>1. pressed \in BOOLEAN /\ wake \in [sends: Nat, failures: Nat, pressed: BOOLEAN]
  BY WorldAssumption DEF TypeOK, WakeTypeOK
<1>2. /\ messagePending' = (messagePending \/ pressed)
      /\ wake'.pressed = (wake.pressed \/ pressed)
  BY <1>1 DEF CheckWIFIReset
<1>3. QueueBounded'
  BY <1>2 DEF QueueInv, QueueBounded, Provoked
<1>4. PendingHasCause'
  BY <1>2 DEF QueueInv, PendingHasCause
<1>5. QED
  BY <1>3, <1>4 DEF QueueInv

\* Losing RAM empties the list and lowers the flag.
LEMMA QueueAfterRestart ==
  ASSUME TypeOK, NEW next, Restart(next), next # "sent", UNCHANGED commands
  PROVE  QueueInv'
<1>1. waiting' = <<>> /\ messagePending' = FALSE /\ Len(waiting') = 0
  BY DEF Restart
<1>2. Provoked' \in Nat
  BY BoundAssumption DEF Provoked, TypeOK, BudgetTypeOK
<1>3. QueueBounded'
  <2>1. \A n \in Nat : 0 <= n /\ 0 <= 1 + n
    OBVIOUS
  <2>2. (~messagePending \/ pc = "sent" => Len(waiting) <= Provoked)'
    BY <1>1, <1>2, <2>1
  <2>3. (Len(waiting) <= 1 + Provoked)'
    BY <1>1, <1>2, <2>1
  <2>4. QED
    BY <2>2, <2>3 DEF QueueBounded
<1>4. PendingHasCause'
  BY <1>1 DEF PendingHasCause
<1>5. QED
  BY <1>3, <1>4 DEF QueueInv

\* QueueMessage() adds to a list that had room for it, and raises the flag.
LEMMA QueueAfterMessage ==
  ASSUME TypeOK, QueueInv, NEW reading \in Reading, QueueMessage(reading),
         Len(waiting) <= Provoked', Provoked <= Provoked',
         Provoked \in Nat, Provoked' \in Nat,
         wake'.pressed = wake.pressed, pc # "sent", pc' # "sent"
  PROVE  QueueInv'
<1>1. CASE waiting' = Append(waiting, reading) /\ messagePending' = TRUE
  <2>1. Len(waiting') = Len(waiting) + 1 /\ Len(waiting) \in Nat
    BY <1>1 DEF TypeOK, QueueTypeOK
  <2>2. waiting' # <<>>
    BY <2>1
  <2>3. QED
    BY <1>1, <2>1, <2>2 DEF QueueInv, QueueBounded, PendingHasCause
<1>2. CASE UNCHANGED queueVars
  <2>1. waiting' = waiting /\ messagePending' = messagePending
    BY <1>2 DEF queueVars
  <2>2. Len(waiting) \in Nat
    BY DEF TypeOK, QueueTypeOK
  <2>3. QueueBounded'
    BY <2>1, <2>2 DEF QueueInv, QueueBounded
  <2>4. PendingHasCause'
    BY <2>1 DEF QueueInv, PendingHasCause
  <2>5. QED
    BY <2>3, <2>4 DEF QueueInv
<1>3. QED
  BY <1>1, <1>2 DEF QueueMessage

\* The commands counted against the bound are a number.
LEMMA ProvokedType ==
  ASSUME TypeOK
  PROVE  Provoked \in Nat
BY BoundAssumption DEF Provoked, TypeOK, BudgetTypeOK

\* What is queued after a second look at the sensors is a reading.
LEMMA ReadingQueued ==
  ASSUME TypeOK, ReadAndQueue
  PROVE  \E reading : reading \in Reading /\ QueueMessage(reading)
<1> DEFINE distance == IF distanceSensor THEN GetDistance
                                         ELSE DeviceData["Distance"]
<1>1. distance \in Readings
  BY GetDistanceType DEF TypeOK, ReportTypeOK, Reading, Channels
<1>2. ReadAll(distance) \in Reading
  BY <1>1, ReadAllType
<1>3. QED
  BY <1>2 DEF ReadAndQueue

\* A command other than SendData adds nothing to the list.
LEMMA QueueAfterReceive ==
  ASSUME TypeOK, QueueInv, NEW name, Receive(name),
         UNCHANGED <<waiting, messagePending>>
  PROVE  QueueInv'
<1>1. /\ commands' = commands + 1 /\ UNCHANGED wake
      /\ pc = "poll" /\ pc' = "decide"
  BY DEF Receive
<1>2. Provoked <= Provoked' /\ Provoked \in Nat /\ Provoked' \in Nat
  BY <1>1, ProvokedType DEF Provoked, TypeOK, BudgetTypeOK
<1>3. Len(waiting) \in Nat /\ UNCHANGED Len(waiting)
  BY DEF TypeOK, QueueTypeOK
<1>4. QED
  BY <1>1, <1>2, <1>3 DEF QueueInv, QueueBounded, PendingHasCause

-----------------------------------------------------------------------------
(* The invariant, action by action.                                        *)

\* setup() never queues: only the switch and loss of RAM touch the flag.
LEMMA SetupStepQueue == TypeOK /\ QueueInv /\ SetupStep => QueueInv'
<1> SUFFICES ASSUME TypeOK, QueueInv, SetupStep PROVE QueueInv'
  OBVIOUS
<1>1. CASE MountAndLoadConfig
  BY <1>1, QueueUntouched DEF MountAndLoadConfig, queueVars
<1>2. CASE HoldSwitch
  BY <1>2, QueueAfterCheck DEF HoldSwitch
<1>3. CASE ChooseMode
  BY <1>3, QueueUntouched DEF ChooseMode, queueVars
<1>4. CASE InitSensors
  BY <1>4, QueueUntouched DEF InitSensors, queueVars
<1>5. CASE AlreadyConnected
  BY <1>5, QueueUntouched DEF AlreadyConnected, queueVars
<1>6. CASE BeginJoin
  BY <1>6, QueueUntouched DEF BeginJoin, queueVars
<1>7. CASE AwaitJoin
  <2>1. PICK pressed \in Switch :
          \/ Restart("boot")
          \/ CheckWIFIReset(pressed) /\ UNCHANGED <<pc, waiting>>
    BY <1>7 DEF AwaitJoin
  <2>2. UNCHANGED commands
    BY <1>7 DEF AwaitJoin
  <2>3. QED
    BY <2>1, <2>2, QueueAfterCheck, QueueAfterRestart
<1>8. CASE Joined
  BY <1>8, QueueUntouched DEF Joined, queueVars
<1>9. CASE LeaveConnect
  BY <1>9, QueueUntouched DEF LeaveConnect, queueVars
<1>10. CASE InitTime
  BY <1>10, QueueUntouched DEF InitTime, queueVars
<1>11. CASE FirstSync
  BY <1>11, QueueUntouched DEF FirstSync, queueVars
<1>12. CASE RetrySync
  <2>1. UNCHANGED commands
    BY <1>12 DEF RetrySync
  <2>2. \/ Restart("asleep")
        \/ /\ UNCHANGED <<waiting, messagePending, wake>>
           /\ pc = "ntp" /\ pc' \in {"hub", "ntp"}
    BY <1>12 DEF RetrySync, queueVars
  <2>3. QED
    BY <2>1, <2>2, QueueUntouched, QueueAfterRestart
<1>13. CASE InitIOTHub
  BY <1>13, QueueUntouched DEF InitIOTHub, queueVars
<1>14. QED
  BY <1>1, <1>2, <1>3, <1>4, <1>5, <1>6, <1>7, <1>8, <1>9, <1>10, <1>11,
     <1>12, <1>13
  DEF SetupStep

\* loop(): a report is queued only while the flag is down.
LEMMA LoopStepQueue == TypeOK /\ QueueInv /\ LoopStep => QueueInv'
<1> SUFFICES ASSUME TypeOK, QueueInv, LoopStep PROVE QueueInv'
  OBVIOUS
<1>1. CASE ReadAndCompare
  BY <1>1, QueueUntouched DEF ReadAndCompare, queueVars
<1>2. CASE EnterBlock
  BY <1>2, QueueAfterCheck DEF EnterBlock
<1>3. CASE CountReset
  <2>1. UNCHANGED commands
    BY <1>3 DEF CountReset
  <2>2. \/ Restart("boot")
        \/ /\ UNCHANGED <<waiting, messagePending, wake>>
           /\ pc = "reset" /\ pc' = "serve"
    BY <1>3 DEF CountReset, queueVars
  <2>3. QED
    BY <2>1, <2>2, QueueUntouched, QueueAfterRestart
<1>4. CASE ServePage
  BY <1>4, QueueUntouched DEF ServePage, queueVars
<1>5. CASE handleSubmit
  BY <1>5, QueueUntouched DEF handleSubmit, Submit, queueVars
<1>6. CASE handleSetupSubmit
  BY <1>6, QueueUntouched DEF handleSetupSubmit, Submit, queueVars
<1>7. CASE ServeOffline
  BY <1>7, QueueUntouched DEF ServeOffline, queueVars
<1>8. CASE RefuseReport
  BY <1>8, QueueUntouched DEF RefuseReport, SendDue, queueVars
<1>9. CASE SendReport
  <2>1. PICK reading : reading \in Reading /\ QueueMessage(reading)
    BY <1>9, ReadingQueued DEF SendReport
  <2>2. ~messagePending /\ pc = "serve" /\ pc' = "event" /\ UNCHANGED commands
    BY <1>9 DEF SendReport, SendDue
  <2>3. Len(waiting) <= Provoked /\ Provoked' = Provoked /\ Provoked \in Nat
    BY <2>2, ProvokedType DEF QueueInv, QueueBounded, Provoked
  <2>4. wake'.pressed = wake.pressed
    BY <1>9 DEF SendReport, TypeOK, WakeTypeOK
  <2>5. QED
    BY <2>1, <2>2, <2>3, <2>4, QueueAfterMessage
<1>10. CASE AwaitReport
  BY <1>10, QueueUntouched DEF AwaitReport, queueVars
<1>11. CASE PostAccepted
  <2>1. /\ waiting # <<>> /\ waiting' = Tail(waiting) /\ pc' = "sent"
        /\ UNCHANGED <<messagePending, wake, commands>>
    BY <1>11 DEF PostAccepted
  <2>2. Len(waiting') = Len(waiting) - 1 /\ Len(waiting) \in Nat
    BY <2>1 DEF TypeOK, QueueTypeOK
  <2>3. QED
    BY <2>1, <2>2, ProvokedType
    DEF QueueInv, QueueBounded, PendingHasCause, Provoked
<1>12. CASE PostFailed
  <2>1. wake'.pressed = wake.pressed
    BY <1>12 DEF PostFailed, TypeOK, WakeTypeOK
  <2>2. QED
    BY <1>12, <2>1, QueueUntouched DEF PostFailed, queueVars
<1>13. CASE NothingToPost
  BY <1>13, QueueUntouched DEF NothingToPost, queueVars
<1>14. CASE HoldInCallback
  BY <1>14, QueueAfterCheck DEF HoldInCallback
<1>15. CASE OnMessageSentCallback
  BY <1>15, ProvokedType
  DEF OnMessageSentCallback, QueueInv, QueueBounded, PendingHasCause, Provoked
<1>16. CASE PollEmpty
  BY <1>16, QueueUntouched DEF PollEmpty, queueVars
<1>17. CASE ReceiveSendData
  <2>1. Receive("SendData") /\ ReadAndQueue
    BY <1>17 DEF ReceiveSendData
  <2>2. PICK reading : reading \in Reading /\ QueueMessage(reading)
    BY <2>1, ReadingQueued
  <2>3. /\ "SendData" \in Commands /\ commands' = commands + 1
        /\ UNCHANGED wake /\ pc = "poll" /\ pc' = "decide"
    BY <2>1 DEF Receive
  <2>4. Provoked' = Provoked + 1 /\ Provoked \in Nat
    BY <2>3, ProvokedType DEF Provoked
  <2>5. Len(waiting) <= Provoked'
    BY <2>4 DEF QueueInv, QueueBounded, TypeOK, QueueTypeOK
  <2>6. QED
    BY <2>2, <2>3, <2>4, <2>5, QueueAfterMessage
<1>18. CASE ReceiveDisplayDistance
  BY <1>18, QueueAfterReceive DEF ReceiveDisplayDistance, queueVars
<1>19. CASE ReceiveClearWIFI
  BY <1>19, QueueAfterReceive DEF ReceiveClearWIFI, queueVars
<1>20. CASE ReceiveConfigInterval
  BY <1>20, QueueAfterReceive DEF ReceiveConfigInterval, queueVars
<1>21. CASE ReceiveOther
  BY <1>21, QueueAfterReceive DEF ReceiveOther, queueVars
<1>22. CASE StayAwake
  BY <1>22, QueueUntouched DEF StayAwake, queueVars
<1>23. CASE Sleep
  BY <1>23, QueueAfterRestart DEF Sleep
<1>24. QED
  BY <1>1, <1>2, <1>3, <1>4, <1>5, <1>6, <1>7, <1>8, <1>9, <1>10, <1>11,
     <1>12, <1>13, <1>14, <1>15, <1>16, <1>17, <1>18, <1>19, <1>20, <1>21,
     <1>22, <1>23
  DEF LoopStep

\* QueueInv is inductive, given the types.
LEMMA NextQueue == TypeOK /\ QueueInv /\ [Next]_vars => QueueInv'
<1> SUFFICES ASSUME TypeOK, QueueInv, [Next]_vars PROVE QueueInv'
  OBVIOUS
<1>1. CASE Wake
  BY <1>1, QueueUntouched DEF Wake, queueVars
<1>2. CASE Drift
  BY <1>2 DEF Drift, queueVars, QueueInv, QueueBounded, PendingHasCause, Provoked
<1>3. CASE PowerLoss
  BY <1>3, QueueAfterRestart DEF PowerLoss
<1>4. CASE UNCHANGED vars
  BY <1>4 DEF vars, queueVars, QueueInv, QueueBounded, PendingHasCause, Provoked
<1>5. QED
  BY <1>1, <1>2, <1>3, <1>4, SetupStepQueue, LoopStepQueue
  DEF Next, DeviceStep

\* Power-up leaves an empty list and a lowered flag.
LEMMA InitQueue == Init => QueueInv
<1> SUFFICES ASSUME Init PROVE QueueInv
  OBVIOUS
<1>1. waiting = <<>> /\ messagePending = FALSE /\ Len(waiting) = 0
  BY DEF Init
<1>2. Provoked \in Nat
  BY InitType, ProvokedType
<1>3. QueueBounded
  BY <1>1, <1>2 DEF QueueBounded
<1>4. PendingHasCause
  BY <1>1 DEF PendingHasCause
<1>5. QED
  BY <1>3, <1>4 DEF QueueInv

\* The invariant holds in every instance.
LEMMA QueueCorrect == Spec => []QueueInv
<1>1. Init => QueueInv
  BY InitQueue
<1>2. TypeOK /\ QueueInv /\ [Next]_vars => QueueInv'
  BY NextQueue
<1>3. QED
  BY <1>1, <1>2, TypeCorrect, PTL DEF Spec

-----------------------------------------------------------------------------
(* The theorems.                                                           *)

\* The client's list never outgrows one message and what SendData added.
THEOREM QueueStaysBounded == Spec => []QueueBounded
<1>1. QueueInv => QueueBounded
  BY DEF QueueInv
<1>2. QED
  BY <1>1, QueueCorrect, PTL

\* A raised flag has a message, a running callback or a pressed switch behind.
THEOREM PendingIsCaused == Spec => []PendingHasCause
<1>1. QueueInv => PendingHasCause
  BY DEF QueueInv
<1>2. QED
  BY <1>1, QueueCorrect, PTL

\* Without SendData commands the device never sleeps on a waiting message.
THEOREM NothingIsLostToSleep ==
  ASSUME "SendData" \notin Commands
  PROVE  Spec => NothingLostToSleep
<1>1. TypeOK /\ QueueInv /\ [Next]_vars /\ FallsAsleep => waiting = <<>>
  <2> SUFFICES ASSUME TypeOK, QueueInv, [Next]_vars, FallsAsleep
               PROVE  waiting = <<>>
    OBVIOUS
  <2>1. ~messagePending
    BY DEF FallsAsleep, Next, DeviceStep, vars, Wake, Drift, PowerLoss, Restart,
      SetupStep, MountAndLoadConfig, HoldSwitch, ChooseMode, InitSensors,
      AlreadyConnected, BeginJoin, AwaitJoin, Joined, LeaveConnect, InitTime,
      FirstSync, RetrySync, InitIOTHub, LoopStep, ReadAndCompare, EnterBlock,
      CountReset, ServePage, handleSubmit, handleSetupSubmit, Submit,
      ServeOffline, RefuseReport, SendReport, SendDue, AwaitReport,
      PostAccepted, PostFailed, NothingToPost, HoldInCallback,
      OnMessageSentCallback, PollEmpty, ReceiveSendData,
      ReceiveDisplayDistance, ReceiveClearWIFI, ReceiveConfigInterval,
      ReceiveOther, Receive, StayAwake, Sleep, MaySleep
  <2>2. Len(waiting) <= 0 /\ Len(waiting) \in Nat
    BY <2>1 DEF QueueInv, QueueBounded, Provoked, TypeOK, QueueTypeOK
  <2>3. QED
    BY <2>2 DEF TypeOK, QueueTypeOK
<1>2. TypeOK /\ QueueInv /\ [Next]_vars
        => [FallsAsleep => waiting = <<>>]_vars
  BY <1>1
<1>3. QED
  BY <1>2, QueueCorrect, TypeCorrect, PTL DEF Spec, NothingLostToSleep

-----------------------------------------------------------------------------
(* How often the device reports within a wake.                             *)

\* From here a wake ends without another report, unless a POST fails or the hub
\* sends a command: whatever is pending is at the head of the list.
Settled ==
  /\ ~AP /\ Run_Flag = 0
  /\ \/ pc = "event" /\ (messagePending => waiting # <<>>)
     \/ pc = "sent"
     \/ pc \in {"poll", "decide"} /\ ~messagePending

SendsInv ==
  wake.sends <= wake.failures + commands + (IF Settled THEN 1 ELSE 0)

-----------------------------------------------------------------------------
(* One report a wake, action by action.                                    *)

\* The counts of a wake are numbers; a look at the switch leaves them alone.
LEMMA WakeCounts ==
  ASSUME TypeOK
  PROVE  /\ wake.sends \in Nat /\ wake.failures \in Nat /\ commands \in Nat
         /\ \A pressed : wake' = [wake EXCEPT !.pressed = @ \/ pressed]
              => wake'.sends = wake.sends /\ wake'.failures = wake.failures
<1>1. wake \in [sends: Nat, failures: Nat, pressed: BOOLEAN] /\ commands \in Nat
  BY BoundAssumption DEF TypeOK, WakeTypeOK, BudgetTypeOK
<1>2. QED
  BY <1>1

\* A step that sends nothing and leaves a settled wake settled.
LEMMA SendsKept ==
  ASSUME TypeOK, SendsInv, wake'.sends = wake.sends,
         wake'.failures = wake.failures, commands' = commands,
         Settled => Settled'
  PROVE  SendsInv'
<1>1. wake.sends \in Nat /\ wake.failures \in Nat /\ commands \in Nat
  BY WakeCounts
<1>2. QED
  BY <1>1 DEF SendsInv

\* A failed POST or a command excuses the report that may follow.
LEMMA SendsExcused ==
  ASSUME TypeOK, SendsInv, wake'.sends = wake.sends,
         \/ wake'.failures = wake.failures + 1 /\ commands' = commands
         \/ wake'.failures = wake.failures /\ commands' = commands + 1
  PROVE  SendsInv'
<1>1. wake.sends \in Nat /\ wake.failures \in Nat /\ commands \in Nat
  BY WakeCounts
<1>2. QED
  BY <1>1 DEF SendsInv

\* A new wake has sent nothing.
LEMMA SendsRestarted ==
  ASSUME TypeOK, NEW next, Restart(next), commands' = commands
  PROVE  SendsInv'
<1>1. wake'.sends = 0 /\ wake'.failures = 0 /\ commands' \in Nat
  BY WakeCounts DEF Restart, Awake
<1>2. QED
  BY <1>1 DEF SendsInv

\* A step of setup(), or of loop() before its queue, is taken unsettled.
LEMMA SendsUnsettled ==
  ASSUME TypeOK, SendsInv, wake' = wake, commands' = commands,
         pc \notin {"event", "sent", "poll", "decide"}
  PROVE  SendsInv'
BY SendsKept DEF Settled

\* The same for a step that looks at the switch.
LEMMA SendsChecked ==
  ASSUME TypeOK, SendsInv, NEW pressed, CheckWIFIReset(pressed),
         commands' = commands, pc \notin {"event", "sent", "poll", "decide"}
  PROVE  SendsInv'
BY WakeCounts, SendsKept DEF CheckWIFIReset, Settled

LEMMA SetupStepSends == TypeOK /\ SendsInv /\ SetupStep => SendsInv'
<1> SUFFICES ASSUME TypeOK, SendsInv, SetupStep PROVE SendsInv'
  OBVIOUS
<1>1. CASE MountAndLoadConfig
  BY <1>1, SendsUnsettled DEF MountAndLoadConfig
<1>2. CASE HoldSwitch
  BY <1>2, SendsChecked DEF HoldSwitch
<1>3. CASE ChooseMode
  BY <1>3, SendsUnsettled DEF ChooseMode
<1>4. CASE InitSensors
  BY <1>4, SendsUnsettled DEF InitSensors
<1>5. CASE AlreadyConnected
  BY <1>5, SendsUnsettled DEF AlreadyConnected
<1>6. CASE BeginJoin
  BY <1>6, SendsUnsettled DEF BeginJoin
<1>7. CASE AwaitJoin
  <2>1. PICK pressed \in Switch : Restart("boot") \/ CheckWIFIReset(pressed)
    BY <1>7 DEF AwaitJoin
  <2>2. pc = "joining" /\ commands' = commands
    BY <1>7 DEF AwaitJoin
  <2>3. QED
    BY <2>1, <2>2, SendsRestarted, SendsChecked
<1>8. CASE Joined
  BY <1>8, SendsUnsettled DEF Joined
<1>9. CASE LeaveConnect
  BY <1>9, SendsUnsettled DEF LeaveConnect
<1>10. CASE InitTime
  BY <1>10, SendsUnsettled DEF InitTime
<1>11. CASE FirstSync
  BY <1>11, SendsUnsettled DEF FirstSync
<1>12. CASE RetrySync
  <2>1. pc = "ntp" /\ commands' = commands /\ (Restart("asleep") \/ wake' = wake)
    BY <1>12 DEF RetrySync
  <2>2. QED
    BY <2>1, SendsRestarted, SendsUnsettled
<1>13. CASE InitIOTHub
  BY <1>13, SendsUnsettled DEF InitIOTHub
<1>14. QED
  BY <1>1, <1>2, <1>3, <1>4, <1>5, <1>6, <1>7, <1>8, <1>9, <1>10, <1>11,
     <1>12, <1>13
  DEF SetupStep

\* A report leaves the wake settled, whether or not the client took it.
LEMMA SendReportSends == TypeOK /\ SendsInv /\ SendReport => SendsInv'
<1> SUFFICES ASSUME TypeOK, SendsInv, SendReport PROVE SendsInv'
  OBVIOUS
<1>1. wake \in [sends: Nat, failures: Nat, pressed: BOOLEAN]
  BY DEF TypeOK, WakeTypeOK
<1>2. /\ wake' = [wake EXCEPT !.sends = @ + 1]
      /\ commands' = commands
  BY DEF SendReport
<1>3. wake'.sends = wake.sends + 1 /\ wake'.failures = wake.failures
  BY <1>1, <1>2
<1>4. ~Settled
  BY DEF SendReport, SendDue, Settled
<1>5. ~AP' /\ Run_Flag' = 0 /\ pc' = "event"
  BY DEF SendReport, SendDue, TakeBaseline, setupVars
<1>6. messagePending' => waiting' # <<>>
  <2>1. ~messagePending /\ waiting \in Seq(Reading)
    BY DEF SendReport, SendDue, TypeOK, QueueTypeOK
  <2>2. PICK reading : QueueMessage(reading)
    BY DEF SendReport, ReadAndQueue
  <2>3. CASE waiting' = Append(waiting, reading)
    BY <2>1, <2>3
  <2>4. CASE UNCHANGED queueVars
    BY <2>1, <2>4 DEF queueVars
  <2>5. QED
    BY <2>2, <2>3, <2>4 DEF QueueMessage
<1>7. Settled'
  BY <1>5, <1>6 DEF Settled
<1>8. wake.sends \in Nat /\ wake.failures \in Nat /\ commands \in Nat
  BY WakeCounts
<1>9. QED
  BY <1>2, <1>3, <1>4, <1>7, <1>8 DEF SendsInv

\* A command excuses what it provokes.
LEMMA ReceiveSends ==
  ASSUME TypeOK, SendsInv, NEW name, Receive(name)
  PROVE  SendsInv'
BY SendsExcused DEF Receive

LEMMA LoopStepSends == TypeOK /\ SendsInv /\ LoopStep => SendsInv'
<1> SUFFICES ASSUME TypeOK, SendsInv, LoopStep PROVE SendsInv'
  OBVIOUS
<1>1. CASE ReadAndCompare
  BY <1>1, SendsUnsettled DEF ReadAndCompare
<1>2. CASE EnterBlock
  BY <1>2, SendsChecked DEF EnterBlock
<1>3. CASE CountReset
  <2>1. pc = "reset" /\ commands' = commands /\ (Restart("boot") \/ wake' = wake)
    BY <1>3 DEF CountReset
  <2>2. QED
    BY <2>1, SendsRestarted, SendsUnsettled
<1>4. CASE ServePage
  BY <1>4, SendsUnsettled DEF ServePage
<1>5. CASE handleSubmit \/ handleSetupSubmit
  <2>1. pc = "serve" /\ wake' = wake /\ commands' = commands
    BY <1>5 DEF handleSubmit, handleSetupSubmit, Submit
  <2>2. QED
    BY <2>1, SendsUnsettled
<1>6. CASE ServeOffline
  BY <1>6, SendsUnsettled DEF ServeOffline
<1>7. CASE RefuseReport
  BY <1>7, SendsUnsettled DEF RefuseReport, SendDue
<1>8. CASE SendReport
  BY <1>8, SendReportSends
<1>9. CASE AwaitReport
  BY <1>9, SendsUnsettled DEF AwaitReport
<1>10. CASE PostAccepted
  <2>1. Settled => Settled'
    BY <1>10 DEF PostAccepted, Settled, setupVars, reportVars
  <2>2. QED
    BY <1>10, <2>1, SendsKept DEF PostAccepted
<1>11. CASE PostFailed
  <2>1. /\ wake \in [sends: Nat, failures: Nat, pressed: BOOLEAN]
        /\ wake' = [wake EXCEPT !.failures = @ + 1] /\ commands' = commands
    BY <1>11 DEF PostFailed, TypeOK, WakeTypeOK
  <2>2. wake'.sends = wake.sends /\ wake'.failures = wake.failures + 1
    BY <2>1
  <2>3. QED
    BY <2>1, <2>2, SendsExcused
<1>12. CASE NothingToPost
  <2>1. Settled => Settled'
    BY <1>12 DEF NothingToPost, Settled, setupVars, reportVars, queueVars
  <2>2. QED
    BY <1>12, <2>1, SendsKept DEF NothingToPost
<1>13. CASE HoldInCallback
  <2>1. Settled => Settled'
    BY <1>13 DEF HoldInCallback, Settled, setupVars, reportVars
  <2>2. PICK pressed \in Switch : CheckWIFIReset(pressed)
    BY <1>13 DEF HoldInCallback
  <2>3. wake' = [wake EXCEPT !.pressed = @ \/ pressed]
    BY <2>2 DEF CheckWIFIReset
  <2>4. commands' = commands
    BY <1>13 DEF HoldInCallback
  <2>5. QED
    BY <2>1, <2>3, <2>4, WakeCounts, SendsKept
<1>14. CASE OnMessageSentCallback
  <2>1. Settled => Settled'
    BY <1>14 DEF OnMessageSentCallback, Settled, setupVars, reportVars
  <2>2. QED
    BY <1>14, <2>1, SendsKept DEF OnMessageSentCallback
<1>15. CASE PollEmpty
  <2>1. Settled => Settled'
    BY <1>15 DEF PollEmpty, Settled, setupVars, queueVars
  <2>2. QED
    BY <1>15, <2>1, SendsKept DEF PollEmpty
<1>16. CASE \/ ReceiveSendData \/ ReceiveDisplayDistance \/ ReceiveClearWIFI
            \/ ReceiveConfigInterval \/ ReceiveOther
  BY <1>16, ReceiveSends
  DEF ReceiveSendData, ReceiveDisplayDistance, ReceiveClearWIFI,
      ReceiveConfigInterval, ReceiveOther
<1>17. CASE StayAwake
  <2>1. ~Settled
    BY <1>17 DEF StayAwake, MaySleep, Settled
  <2>2. QED
    BY <1>17, <2>1, SendsKept DEF StayAwake
<1>18. CASE Sleep
  BY <1>18, SendsRestarted DEF Sleep
<1>19. QED
  BY <1>1, <1>2, <1>3, <1>4, <1>5, <1>6, <1>7, <1>8, <1>9, <1>10, <1>11,
     <1>12, <1>13, <1>14, <1>15, <1>16, <1>17, <1>18
  DEF LoopStep

LEMMA NextSends == TypeOK /\ SendsInv /\ [Next]_vars => SendsInv'
<1> SUFFICES ASSUME TypeOK, SendsInv, [Next]_vars PROVE SendsInv'
  OBVIOUS
<1>1. CASE Wake
  BY <1>1, SendsUnsettled DEF Wake
<1>2. CASE Drift \/ UNCHANGED vars
  <2>1. /\ wake' = wake /\ commands' = commands
        /\ UNCHANGED <<pc, setupVars, reportVars, queueVars>>
    BY <1>2 DEF Drift, vars
  <2>2. Settled => Settled'
    BY <2>1 DEF Settled, setupVars, reportVars, queueVars
  <2>3. QED
    BY <2>1, <2>2, SendsKept
<1>3. CASE PowerLoss
  BY <1>3, SendsRestarted DEF PowerLoss
<1>4. QED
  BY <1>1, <1>2, <1>3, SetupStepSends, LoopStepSends DEF Next, DeviceStep

\* A wake reports more than once only for a failed POST or a command of the
\* hub's, in every instance.
THEOREM RepeatsAreCaused == Spec => []DuplicatesNeedFailures
<1>1. Init => SendsInv
  BY DEF Init, Awake, SendsInv
<1>2. TypeOK /\ SendsInv => DuplicatesNeedFailures
  BY WakeCounts DEF SendsInv, DuplicatesNeedFailures
<1>3. TypeOK /\ SendsInv /\ [Next]_vars => SendsInv'
  BY NextSends
<1>4. QED
  BY <1>1, <1>2, <1>3, TypeCorrect, PTL DEF Spec
=============================================================================
