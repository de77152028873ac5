----------------------------- MODULE HubClient ------------------------------
(***************************************************************************)
(* The IoT hub client and its HTTP transport: the queue of messages to the  *)
(* hub, the poll for commands, and their acceptance.  IoTHubClient_LL_DoWork *)
(* sends the head of the queue (DoEvent) and then polls (DoMessages); each  *)
(* request is a call of HttpCall, so that the hub may carry it out up to    *)
(* MaxExecutions times, or carry it out and have its answer lost.  The      *)
(* sketch sets no option of the client: no batching and no message timeout. *)
(* The sketch calls it in the block of loop() that reports, for as long as  *)
(* the block is due, and sleeps when nothing is left to do: Loop has that   *)
(* decision in full, here it is reduced to what the client sees of it.      *)
(*                                                                          *)
(* The hub keeps each command until it is deleted.  A poll locks the oldest *)
(* unlocked command and hands it out with an ETag that names the lock; the  *)
(* lock expires after a minute, and the command can be polled again.        *)
(***************************************************************************)
EXTENDS HttpCall, Sequences, FiniteSets

CONSTANTS
  MaxEvents,    \* bound: messages the sketch queues
  MaxCommands,  \* bound: commands sent to the device
  MaxFaults     \* bound: faults in one behaviour

ASSUME ClientAssumption == {MaxEvents, MaxCommands, MaxFaults} \subseteq Nat

VARIABLES
  doing,          \* where loop() or IoTHubClient_LL_DoWork() is; see Stages
  messagePending, Run_Flag,
  waitingToSend,  \* the list of messages not yet taken by the hub
  isFirstPoll,    \* no poll has been answered since the client was created
  pollDue,        \* more than getMinimumPollingTime since lastPollTime
  etagValue,      \* the locks whose ETag lines are in the response headers
  statusCode,     \* the hub's answer to the last execution of the request
  \* the hub: the messages it has, its commands with the lock each is under,
  \* the last lock it handed out
  hubEvents, commands, lock, locks,
  \* history: messages queued and confirmed, commands the sketch has executed
  submitted, confirmed, executedCommands, faults

sketchVars == <<messagePending, Run_Flag>>
clientVars == <<waitingToSend, isFirstPoll, pollDue, etagValue>>
hubVars    == <<hubEvents, commands, lock, locks>>
historyVars == <<submitted, confirmed, executedCommands>>
vars == <<callVars, doing, sketchVars, clientVars, statusCode, hubVars,
          historyVars, faults>>

\* "block": in the block that reports; "dowork": DoWork is called; "event" to
\* "abandon": in it; "idle": it has returned; "stranded": awake, but the block
\* is not due, so that nothing calls DoWork any more.
Stages == {"asleep", "block", "dowork", "event", "messages", "poll", "callback",
           "accept", "refused", "abandon", "idle", "stranded"}

Events == 1..MaxEvents
CommandIds == 1..MaxCommands
Accepted == 200       \* the hub carried the request out (200, 201 or 204)
NoCommand == 204      \* to a poll: there is no command
Refused == 400        \* any other code, at least 300

\* Every command is locked once, and each fault costs two locks at most: an
\* answer to a poll that is lost leaves its own and that of the retry unusable.
MaxLocks == MaxCommands + 2 * MaxFaults

TypeOK ==
  /\ CallTypeOK
  /\ doing \in Stages
  /\ messagePending \in BOOLEAN /\ Run_Flag \in {0, 1}
  /\ waitingToSend \in Seq(Events)
  /\ isFirstPoll \in BOOLEAN /\ pollDue \in BOOLEAN
  /\ etagValue \subseteq 1..MaxLocks
  /\ statusCode \in {0, Accepted, NoCommand, Refused}
  /\ hubEvents \in Seq(Events)
  /\ commands \in [CommandIds -> {"unsent", "queued", "locked", "deleted"}]
  /\ lock \in [CommandIds -> 0..MaxLocks] /\ locks \in 0..MaxLocks
  /\ submitted \in 0..MaxEvents
  /\ confirmed \in Seq(Events) /\ executedCommands \in Seq(CommandIds)
  /\ faults \in 0..MaxFaults

Init ==
  /\ CallInit
  /\ doing = "asleep" /\ messagePending = FALSE /\ Run_Flag = 0
  /\ waitingToSend = <<>>
  /\ isFirstPoll = TRUE /\ pollDue = TRUE
  /\ etagValue = {} /\ statusCode = 0
  /\ hubEvents = <<>>
  /\ commands = [c \in CommandIds |-> "unsent"]
  /\ lock = [c \in CommandIds |-> 0] /\ locks = 0
  /\ submitted = 0 /\ confirmed = <<>> /\ executedCommands = <<>>
  /\ faults = 0

Fault == faults < MaxFaults /\ faults' = faults + 1
NoFault == faults' = faults

-----------------------------------------------------------------------------
(* The hub carries a request out.  A second execution means that the answer *)
(* to the first was lost; a refusal (throttling, an outage) does nothing.   *)

Executes(answer, refusals) ==
  /\ Execute /\ statusCode' = answer
  /\ LET failures == refusals + (IF executed > 0 THEN 1 ELSE 0)
     IN faults' = faults + failures /\ faults + failures <= MaxFaults
  /\ UNCHANGED <<doing, sketchVars, clientVars, historyVars>>

HubRefuses ==
  /\ Executes(Refused, 1)
  /\ UNCHANGED hubVars

HubTakesEvent ==
  /\ doing = "event" /\ Executes(Accepted, 0)
  /\ hubEvents' = Append(hubEvents, Head(waitingToSend))
  /\ UNCHANGED <<commands, lock, locks>>

Queued == {c \in CommandIds : commands[c] = "queued"}

HubHandsOutCommand ==
  /\ doing = "poll" /\ Executes(Accepted, 0)
  /\ \E c \in Queued :
       /\ \A d \in Queued : c <= d
       /\ commands' = [commands EXCEPT ![c] = "locked"]
       /\ lock' = [lock EXCEPT ![c] = locks + 1]
  /\ locks' = locks + 1
  /\ UNCHANGED hubEvents

HubHasNoCommand ==
  /\ doing = "poll" /\ Queued = {}
  /\ Executes(NoCommand, 0)
  /\ UNCHANGED hubVars

\* The path of a DELETE, or of the POST that abandons, ends in the ETag: it names
\* the lock of a command, or, with two ETags run together, none.
Named == {c \in CommandIds : commands[c] = "locked" /\ etagValue = {lock[c]}}

HubDeletesCommand ==
  /\ doing = "accept" /\ Named # {}
  /\ Executes(Accepted, 0)
  /\ commands' = [c \in CommandIds |->
                    IF c \in Named THEN "deleted" ELSE commands[c]]
  /\ UNCHANGED <<hubEvents, lock, locks>>

HubUnlocksCommand ==
  /\ doing = "abandon" /\ Named # {}
  /\ Executes(Accepted, 0)
  /\ commands' = [c \in CommandIds |->
                    IF c \in Named THEN "queued" ELSE commands[c]]
  /\ UNCHANGED <<hubEvents, lock, locks>>

HubKnowsNoSuchLock ==
  /\ doing \in {"accept", "abandon"} /\ Named = {}
  /\ Executes(Refused, 0)
  /\ UNCHANGED hubVars

-----------------------------------------------------------------------------
(* The sketch: loop() of a station that is connected to the hub.           *)

\* QueueMessage(), from loop() or from a command's callback.
Queue == /\ submitted < MaxEvents
         /\ submitted' = submitted + 1
         /\ waitingToSend' = Append(waitingToSend, submitted + 1)
         /\ messagePending' = TRUE

\* A wake whose report is due.  One without sleeps again, and is left out.
Wake ==
  /\ doing = "asleep" /\ doing' = "block" /\ NoFault
  /\ UNCHANGED <<callVars, sketchVars, clientVars, statusCode, hubVars,
                 historyVars>>

\* The report, Init_Time after boot or after the last one.  The client may
\* refuse it; one beyond the bound is sent unseen.
SendReport ==
  /\ doing = "block" /\ ~messagePending
  /\ Run_Flag' = 0
  /\ Queue \/ UNCHANGED <<submitted, waitingToSend, messagePending>>
  /\ doing' = "dowork" /\ NoFault
  /\ UNCHANGED <<callVars, isFirstPoll, pollDue, etagValue, statusCode, hubVars,
                 confirmed, executedCommands>>

\* A round without a report: before Init_Time, or while messagePending holds,
\* which CheckWIFIReset() sets when the switch is pressed.
AwaitReport ==
  /\ doing = "block" /\ Run_Flag' = 1
  /\ messagePending' \in {messagePending, TRUE}
  /\ doing' = "dowork" /\ NoFault
  /\ UNCHANGED <<callVars, clientVars, statusCode, hubVars, historyVars>>

MayDoze == Run_Flag = 0 /\ ~messagePending

NextRound ==
  /\ doing = "idle" /\ ~MayDoze
  /\ doing' = "block" /\ NoFault
  /\ UNCHANGED <<callVars, sketchVars, clientVars, statusCode, hubVars,
                 historyVars>>

\* What is in RAM is lost.
Forget ==
  /\ doing' = "asleep" /\ messagePending' = FALSE /\ Run_Flag' = 0
  /\ waitingToSend' = <<>>
  /\ isFirstPoll' = TRUE /\ pollDue' = TRUE
  /\ etagValue' = {} /\ statusCode' = 0
  /\ UNCHANGED <<hubVars, historyVars>>

\* Sleep_Mode(): every wake is a boot.
Sleep ==
  /\ doing = "idle" /\ MayDoze
  /\ Forget /\ NoFault /\ UNCHANGED callVars

-----------------------------------------------------------------------------
(* IoTHubClient_LL_DoWork().                                               *)

\* Mutant: one poll is all there is.
PollAllowedOnce == isFirstPoll
\* getMinimumPollingTime: 25 minutes unless the option sets it.
PollAllowed == isFirstPoll \/ pollDue

\* DoEvent() with a message to send, and its POST.
DoEvent ==
  /\ doing = "dowork" /\ waitingToSend # <<>>
  /\ Begin /\ doing' = "event" /\ statusCode' = 0
  /\ NoFault /\ UNCHANGED <<sketchVars, clientVars, hubVars, historyVars>>

\* Mutant: a message that waits can be put off.
DoEventPutOff ==
  /\ doing = "dowork"
  /\ doing' = "messages"
  /\ NoFault
  /\ UNCHANGED <<callVars, sketchVars, clientVars, statusCode, hubVars,
                 historyVars>>

DoEventEmpty ==
  /\ doing = "dowork" /\ waitingToSend = <<>>
  /\ doing' = "messages"
  /\ NoFault
  /\ UNCHANGED <<callVars, sketchVars, clientVars, statusCode, hubVars,
                 historyVars>>

\* A status below 300 moves the head to eventConfirmations, and
\* IoTHubClient_LL_SendComplete() calls OnMessageSentCallback().
EventSent ==
  /\ doing = "event" /\ statusCode = Accepted
  /\ Return /\ doing' = "messages"
  /\ waitingToSend' = Tail(waitingToSend)
  /\ confirmed' = Append(confirmed, Head(waitingToSend))
  /\ messagePending' = FALSE
  /\ NoFault
  /\ UNCHANGED <<Run_Flag, isFirstPoll, pollDue, etagValue, statusCode, hubVars,
                 submitted, executedCommands>>

\* Mutant: whatever the hub answers confirms the message.
EventConfirmedAnyway ==
  /\ doing = "event" /\ doing' = "messages"
  /\ \/ statusCode = Refused /\ Return /\ NoFault
        /\ waitingToSend' = Tail(waitingToSend)
        /\ confirmed' = Append(confirmed, Head(waitingToSend))
     \/ GiveUp /\ Fault /\ UNCHANGED <<waitingToSend, confirmed>>
  /\ UNCHANGED <<sketchVars, isFirstPoll, pollDue, etagValue, statusCode,
                 hubVars, submitted, executedCommands>>

\* Any other end of the POST leaves the message at the head of the queue.
EventNotSent ==
  /\ doing = "event" /\ doing' = "messages"
  /\ \/ statusCode = Refused /\ Return /\ NoFault
     \/ GiveUp /\ Fault
  /\ UNCHANGED <<sketchVars, clientVars, statusCode, hubVars, historyVars>>

\* DoMessages(): the GET, when polling is allowed.
DoMessages ==
  /\ doing = "messages" /\ PollAllowed
  /\ Begin /\ doing' = "poll" /\ statusCode' = 0 /\ etagValue' = {}
  /\ NoFault
  /\ UNCHANGED <<sketchVars, waitingToSend, isFirstPoll, pollDue, hubVars,
                 historyVars>>

PollNotAllowed ==
  /\ doing = "messages" /\ ~PollAllowed
  /\ doing' = "idle" /\ NoFault
  /\ UNCHANGED <<callVars, sketchVars, clientVars, statusCode, hubVars,
                 historyVars>>

\* A header line is read; that of a command's answer is its ETag line.
\* HTTPHeaders_AddHeaderNameValuePair() appends to a name it has.
ReadHeader ==
  /\ Gather
  /\ etagValue' = (IF doing = "poll" /\ statusCode = Accepted
                   THEN etagValue \cup {locks} ELSE etagValue)
  /\ NoFault
  /\ UNCHANGED <<doing, sketchVars, waitingToSend, isFirstPoll, pollDue,
                 statusCode, hubVars, historyVars>>

PollAnswered == isFirstPoll' = FALSE /\ pollDue' = FALSE

NothingToDo ==
  /\ doing = "poll" /\ statusCode # Accepted
  /\ Return /\ PollAnswered /\ doing' = "idle"
  /\ NoFault
  /\ UNCHANGED <<sketchVars, waitingToSend, etagValue, statusCode, hubVars,
                 historyVars>>

\* Mutant: the command is executed and never accepted.
ExecuteOnly ==
  /\ doing = "poll" /\ statusCode = Accepted
  /\ Return /\ PollAnswered /\ doing' = "idle"
  /\ \E c \in CommandIds :
       /\ lock[c] = locks
       /\ executedCommands' = Append(executedCommands, c)
  /\ NoFault
  /\ UNCHANGED <<sketchVars, waitingToSend, etagValue, statusCode, hubVars,
                 submitted, confirmed>>

\* Mutant: the command is accepted whether or not the sketch could take it.
AcceptOnly ==
  /\ doing = "poll" /\ statusCode = Accepted
  /\ Return /\ PollAnswered /\ doing' = "callback"
  /\ NoFault
  /\ UNCHANGED <<sketchVars, waitingToSend, etagValue, statusCode, hubVars,
                 historyVars>>

\* IoTHubClient_LL_MessageCallback(): the sketch executes the command, which
\* may queue a message, and the transport then starts the DELETE.
ExecuteCommand ==
  /\ doing = "poll" /\ statusCode = Accepted
  /\ Return /\ PollAnswered /\ doing' = "callback"
  /\ \E c \in CommandIds :
       /\ lock[c] = locks
       /\ executedCommands' = Append(executedCommands, c)
  /\ Queue \/ UNCHANGED <<submitted, waitingToSend, messagePending>>
  /\ NoFault
  /\ UNCHANGED <<Run_Flag, etagValue, statusCode, hubVars, confirmed>>

AcceptMessage ==
  /\ doing = "callback"
  /\ Begin /\ doing' = "accept" /\ statusCode' = 0
  /\ NoFault /\ UNCHANGED <<sketchVars, clientVars, hubVars, historyVars>>

\* A 200 whose ETag is missing or no quoted string.
AnswerUnusable ==
  /\ doing = "poll" /\ statusCode = Accepted
  /\ Return /\ PollAnswered /\ doing' = "idle"
  /\ Fault
  /\ UNCHANGED <<sketchVars, waitingToSend, etagValue, statusCode, hubVars,
                 historyVars>>

\* A message that cannot be made of the answer, for a property it does not take
\* or for want of memory, is abandoned.
AnswerRefused ==
  /\ doing = "poll" /\ statusCode = Accepted
  /\ Return /\ PollAnswered /\ doing' = "refused"
  /\ Fault
  /\ UNCHANGED <<sketchVars, waitingToSend, etagValue, statusCode, hubVars,
                 historyVars>>

AbandonMessage ==
  /\ doing = "refused"
  /\ Begin /\ doing' = "abandon" /\ statusCode' = 0
  /\ NoFault /\ UNCHANGED <<sketchVars, clientVars, hubVars, historyVars>>

\* A GET that fails is repeated by the next IoTHubClient_LL_DoWork().
PollFails ==
  /\ doing = "poll" /\ GiveUp /\ Fault /\ doing' = "idle"
  /\ UNCHANGED <<sketchVars, clientVars, statusCode, hubVars, historyVars>>

\* However the DELETE or the POST ends, nothing remembers the command.
AcceptEnds ==
  /\ doing \in {"accept", "abandon"} /\ doing' = "idle"
  /\ \/ Return /\ NoFault
     \/ GiveUp /\ Fault
  /\ UNCHANGED <<sketchVars, clientVars, statusCode, hubVars, historyVars>>

-----------------------------------------------------------------------------
(* The world.                                                              *)

IntervalPasses ==
  /\ ~pollDue /\ pollDue' = TRUE
  /\ NoFault
  /\ UNCHANGED <<callVars, doing, sketchVars, waitingToSend, isFirstPoll,
                 etagValue, statusCode, hubVars, historyVars>>

SendCommand ==
  /\ \E c \in CommandIds :
       /\ commands[c] = "unsent" /\ \A d \in 1..(c - 1) : commands[d] # "unsent"
       /\ commands' = [commands EXCEPT ![c] = "queued"]
  /\ NoFault
  /\ UNCHANGED <<callVars, doing, sketchVars, clientVars, statusCode, hubEvents,
                 lock, locks, historyVars>>

\* A lock expires; while the device still deals with the command, that is a
\* fault: its calls took longer than the lock's minute.
InHand == \/ doing = "poll" /\ statusCode = Accepted
          \/ doing \in {"callback", "accept"}

LockExpires ==
  /\ \E c \in CommandIds :
       /\ commands[c] = "locked"
       /\ commands' = [commands EXCEPT ![c] = "queued"]
       /\ IF lock[c] = locks /\ InHand THEN Fault ELSE NoFault
  /\ UNCHANGED <<callVars, doing, sketchVars, clientVars, statusCode, hubEvents,
                 lock, locks, historyVars>>

\* The readings and the baseline come to agree while the device may not sleep:
\* line 233 is false in every later round, for nothing reads them again.
Strand ==
  /\ doing = "idle" /\ ~MayDoze
  /\ doing' = "stranded" /\ NoFault
  /\ UNCHANGED <<callVars, sketchVars, clientVars, statusCode, hubVars,
                 historyVars>>

\* A reset: by the switch, by ClearWIFI, by the watchdog or for want of power.
Restart == Fault /\ Reset /\ Forget

Hub == \/ HubRefuses \/ HubTakesEvent \/ HubHandsOutCommand \/ HubHasNoCommand
       \/ HubDeletesCommand \/ HubUnlocksCommand \/ HubKnowsNoSuchLock
Sketch == Wake \/ SendReport \/ AwaitReport \/ NextRound \/ Sleep
Client ==
  \/ DoEvent \/ DoEventEmpty \/ EventSent \/ EventNotSent
  \/ DoMessages \/ PollNotAllowed \/ ReadHeader \/ NothingToDo
  \/ ExecuteCommand \/ AnswerUnusable \/ AnswerRefused
  \/ AcceptMessage \/ AbandonMessage \/ PollFails \/ AcceptEnds
World == IntervalPasses \/ SendCommand \/ LockExpires \/ Strand \/ Restart

Next == Hub \/ Sketch \/ Client \/ World

Spec == Init /\ [][Next]_vars

\* The sleep timer ends a sleep, and a wake with a report due comes at the
\* heartbeat at the latest (HeartbeatIsKept); the processor goes on; Init_Time
\* passes, so that of the rounds that could report one does; a call ends
\* (HttpApi: CallEnds); time passes, and the hub's locks expire.
FairSpec == /\ Spec
            /\ WF_vars(Hub) /\ WF_vars(Sketch \/ Client) /\ SF_vars(SendReport)
            /\ WF_vars(IntervalPasses) /\ WF_vars(LockExpires)

-----------------------------------------------------------------------------
(* Properties.                                                             *)

\* The queue of messages is an outbox: see Outbox.
Outbox_ == INSTANCE Outbox
             WITH pending <- waitingToSend, received <- hubEvents
ImplementsOutbox == Outbox_!OutboxSpec

Executed(c) == \E i \in DOMAIN executedCommands : executedCommands[i] = c

\* The hub deletes a command only after the sketch has executed it, whatever
\* answer was lost, retried or overtaken by the expiry of a lock.
DeletedWasExecuted ==
  \A c \in CommandIds : commands[c] = "deleted" =>
    Executed(c)

\* A command is executed again only after something failed, one repetition at
\* most for each failure.
RepetitionsHaveCause ==
  Len(executedCommands) <=
    faults + Cardinality({executedCommands[i] : i \in DOMAIN executedCommands})

\* Every command is executed in the end, over the sleeps of the device, lost
\* answers, expired locks, refusals and a pressed switch that keeps it awake;
\* every message leaves the list, confirmed or, when the device sleeps or is
\* reset with it, lost.  The one exception: a device that is stranded, awake with
\* a message or a flag pending and never again in the block that calls DoWork.
CommandsGetThrough ==
  \A c \in CommandIds :
    commands[c] = "queued" ~> Executed(c) \/ doing = "stranded"
Waits(e) == \E i \in DOMAIN waitingToSend : waitingToSend[i] = e
EventsGetThrough ==
  \A e \in Events : Waits(e) ~> ~Waits(e) \/ doing = "stranded"
=============================================================================
