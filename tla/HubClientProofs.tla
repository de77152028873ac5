-------------------------- MODULE HubClientProofs ---------------------------
(***************************************************************************)
(* What TLAPS proves of HubClient, for every value of its constants: the    *)
(* queue of messages is an outbox, a command is deleted at the hub only     *)
(* after the sketch has executed it, and each failure costs one repeated    *)
(* execution and two locks at most.                                         *)
(***************************************************************************)
EXTENDS HubClient, FiniteSetTheorems, TLAPS

-----------------------------------------------------------------------------
(* The queue of messages.                                                  *)

\* While a POST is under way its message stays at the head of the list; when
\* the hub's last answer accepted it, it is what the hub received last.
OutboxInv ==
  /\ waitingToSend \in Seq(Events) /\ hubEvents \in Seq(Events)
  /\ submitted \in 0..MaxEvents
  /\ doing = "event" => waitingToSend # <<>>
  /\ doing = "event" /\ statusCode = Accepted =>
       hubEvents # <<>> /\ hubEvents[Len(hubEvents)] = Head(waitingToSend)

\* A step that leaves the list and the hub's messages alone.
LEMMA OutboxKept ==
  ASSUME OutboxInv, UNCHANGED <<waitingToSend, hubEvents, submitted>>,
         doing' = "event" =>
           doing = "event" /\ (statusCode' = Accepted => statusCode = Accepted)
  PROVE  OutboxInv'
BY DEF OutboxInv

\* Queueing numbers the messages in the order in which they come.
LEMMA QueueAppends ==
  ASSUME OutboxInv, Queue
  PROVE  /\ waitingToSend' = Append(waitingToSend, submitted + 1)
         /\ submitted + 1 \in Events
         /\ waitingToSend' \in Seq(Events) /\ submitted' \in 0..MaxEvents
<1>1. submitted + 1 \in Events /\ submitted' \in 0..MaxEvents
  BY ClientAssumption DEF OutboxInv, Queue, Events
<1>2. QED
  BY <1>1 DEF OutboxInv, Queue

\* The last element of what Append returns, and that it is not empty.
LEMMA AppendEnds ==
  ASSUME NEW S, NEW s \in Seq(S), NEW e \in S
  PROVE  /\ Append(s, e) \in Seq(S) /\ Append(s, e) # <<>>
         /\ Append(s, e)[Len(Append(s, e))] = e
OBVIOUS

LEMMA HubOutbox == OutboxInv /\ Hub => OutboxInv'
<1> SUFFICES ASSUME OutboxInv, Hub PROVE OutboxInv'
  OBVIOUS
<1> USE DEF Executes, sketchVars, clientVars, historyVars, hubVars
<1>1. CASE HubTakesEvent
  <2>1. /\ doing = "event" /\ UNCHANGED <<waitingToSend, submitted, doing>>
        /\ hubEvents' = Append(hubEvents, Head(waitingToSend))
    BY <1>1 DEF HubTakesEvent
  <2>2. Head(waitingToSend) \in Events
    BY <2>1 DEF OutboxInv
  <2>3. /\ hubEvents' \in Seq(Events) /\ hubEvents' # <<>>
        /\ hubEvents'[Len(hubEvents')] = Head(waitingToSend)
    BY <2>1, <2>2, AppendEnds DEF OutboxInv
  <2>4. QED
    BY <2>1, <2>3 DEF OutboxInv
<1>2. CASE HubRefuses
  <2>1. statusCode' # Accepted
    BY <1>2 DEF HubRefuses, Refused, Accepted
  <2>2. QED
    BY <1>2, <2>1, OutboxKept DEF HubRefuses
<1>3. CASE HubHandsOutCommand \/ HubHasNoCommand
  BY <1>3, OutboxKept DEF HubHandsOutCommand, HubHasNoCommand
<1>4. CASE HubDeletesCommand \/ HubUnlocksCommand \/ HubKnowsNoSuchLock
  BY <1>4, OutboxKept DEF HubDeletesCommand, HubUnlocksCommand, HubKnowsNoSuchLock
<1>5. QED
  BY <1>1, <1>2, <1>3, <1>4 DEF Hub

LEMMA ClientOutbox == OutboxInv /\ Client => OutboxInv'
<1> SUFFICES ASSUME OutboxInv, Client PROVE OutboxInv'
  OBVIOUS
<1> USE DEF sketchVars, clientVars, historyVars, hubVars
<1>1. CASE DoEvent
  <2>1. statusCode' # Accepted
    BY <1>1 DEF DoEvent, Accepted
  <2>2. QED
    BY <1>1, <2>1 DEF DoEvent, OutboxInv
<1>2. CASE DoEventEmpty \/ EventNotSent
  BY <1>2, OutboxKept DEF DoEventEmpty, EventNotSent
<1>3. CASE EventSent
  <2>1. Tail(waitingToSend) \in Seq(Events)
    BY <1>3 DEF EventSent, OutboxInv
  <2>2. QED
    BY <1>3, <2>1 DEF EventSent, OutboxInv
<1>4. CASE DoMessages \/ PollNotAllowed \/ NothingToDo \/ PollFails
           \/ AnswerUnusable \/ AnswerRefused
  BY <1>4, OutboxKept
  DEF DoMessages, PollNotAllowed, NothingToDo, PollFails, AnswerUnusable,
      AnswerRefused
<1>5. CASE ReadHeader
  BY <1>5, OutboxKept DEF ReadHeader
<1>6. CASE ExecuteCommand
  <2>1. doing' = "callback" /\ UNCHANGED hubEvents
    BY <1>6 DEF ExecuteCommand
  <2>2. waitingToSend' \in Seq(Events) /\ submitted' \in 0..MaxEvents
    BY <1>6, QueueAppends DEF ExecuteCommand, OutboxInv
  <2>3. QED
    BY <2>1, <2>2 DEF OutboxInv
<1>7. CASE AcceptMessage \/ AbandonMessage \/ AcceptEnds
  BY <1>7, OutboxKept DEF AcceptMessage, AbandonMessage, AcceptEnds
<1>8. QED
  BY <1>1, <1>2, <1>3, <1>4, <1>5, <1>6, <1>7 DEF Client

LEMMA NextOutbox == OutboxInv /\ [Next]_vars => OutboxInv'
<1> SUFFICES ASSUME OutboxInv, [Next]_vars PROVE OutboxInv'
  OBVIOUS
<1> USE DEF sketchVars, clientVars, historyVars, hubVars
<1>1. CASE SendReport
  <2>1. doing' = "dowork" /\ UNCHANGED hubEvents
    BY <1>1 DEF SendReport
  <2>2. waitingToSend' \in Seq(Events) /\ submitted' \in 0..MaxEvents
    BY <1>1, QueueAppends DEF SendReport, OutboxInv
  <2>3. QED
    BY <2>1, <2>2 DEF OutboxInv
<1>2. CASE IntervalPasses \/ SendCommand \/ LockExpires \/ Strand
           \/ Wake \/ AwaitReport \/ NextRound
  BY <1>2, OutboxKept
  DEF IntervalPasses, SendCommand, LockExpires, Strand, Wake, AwaitReport,
      NextRound
<1>3. CASE Restart \/ Sleep
  <2>1. /\ waitingToSend' = <<>> /\ doing' = "asleep"
        /\ UNCHANGED <<hubEvents, submitted>>
    BY <1>3 DEF Restart, Sleep, Forget
  <2>2. <<>> \in Seq(Events)
    OBVIOUS
  <2>3. waitingToSend' \in Seq(Events)
    BY <2>1, <2>2
  <2>4. QED
    BY <2>1, <2>3 DEF OutboxInv
<1>4. CASE UNCHANGED vars
  BY <1>4, OutboxKept DEF vars
<1>5. QED
  BY <1>1, <1>2, <1>3, <1>4, HubOutbox, ClientOutbox DEF Next, Sketch, World

\* A step that queues, sends, confirms or loses nothing is a stutter.
LEMMA OutboxStutters ==
  ASSUME UNCHANGED <<waitingToSend, hubEvents, confirmed>>
  PROVE  [Outbox_!OutboxNext]_(Outbox_!outboxVars)
BY DEF Outbox_!outboxVars

\* Queueing is the outbox's Submit.
LEMMA QueueSubmits ==
  ASSUME OutboxInv, Queue, UNCHANGED <<hubEvents, confirmed>>
  PROVE  [Outbox_!OutboxNext]_(Outbox_!outboxVars)
BY QueueAppends DEF Outbox_!OutboxNext, Outbox_!Submit

\* Every step of the client, of the hub and of the world is one of the outbox.
LEMMA StepIsOutboxStep ==
  ASSUME OutboxInv, [Next]_vars
  PROVE  [Outbox_!OutboxNext]_(Outbox_!outboxVars)
<1> USE DEF sketchVars, clientVars, historyVars, hubVars
<1>1. CASE HubTakesEvent
  BY <1>1
  DEF HubTakesEvent, Executes, OutboxInv, Outbox_!OutboxNext, Outbox_!Deliver
<1>2. CASE Hub /\ ~HubTakesEvent
  BY <1>2, OutboxStutters
  DEF Hub, Executes, HubRefuses, HubHandsOutCommand, HubHasNoCommand,
      HubDeletesCommand, HubUnlocksCommand, HubKnowsNoSuchLock
<1>3. CASE EventSent
  BY <1>3 DEF EventSent, OutboxInv, Outbox_!OutboxNext, Outbox_!Confirm
<1>4. CASE ExecuteCommand \/ SendReport
  <2>1. UNCHANGED <<hubEvents, confirmed>>
        /\ (Queue \/ UNCHANGED <<submitted, waitingToSend>>)
    BY <1>4 DEF ExecuteCommand, SendReport
  <2>2. QED
    BY <2>1, OutboxStutters, QueueSubmits
<1>5. CASE Client /\ ~EventSent /\ ~ExecuteCommand
  BY <1>5, OutboxStutters
  DEF Client, DoEvent, DoEventEmpty, EventNotSent, DoMessages, PollNotAllowed,
      ReadHeader, NothingToDo, AnswerUnusable, AnswerRefused, AcceptMessage,
      AbandonMessage, PollFails, AcceptEnds
<1>6. CASE Wake \/ AwaitReport \/ NextRound \/ Strand
  BY <1>6, OutboxStutters DEF Wake, AwaitReport, NextRound, Strand
<1>7. CASE Restart \/ Sleep
  BY <1>7 DEF Restart, Sleep, Forget, Outbox_!OutboxNext, Outbox_!Lose
<1>8. CASE IntervalPasses \/ SendCommand \/ LockExpires \/ UNCHANGED vars
  BY <1>8, OutboxStutters DEF IntervalPasses, SendCommand, LockExpires, vars
<1>9. QED
  BY <1>1, <1>2, <1>3, <1>4, <1>5, <1>6, <1>7, <1>8 DEF Next, Sketch, World

LEMMA InitOutbox == Init => OutboxInv
BY ClientAssumption DEF Init, OutboxInv, Events, Accepted

\* The queue of messages is an outbox, in every instance: messages reach the
\* hub in order, and are confirmed after they did.
THEOREM OutboxImplemented == Spec => ImplementsOutbox
<1>1. Init => Outbox_!OutboxInit
  BY DEF Init, Outbox_!OutboxInit
<1>2. OutboxInv /\ [Next]_vars => [Outbox_!OutboxNext]_(Outbox_!outboxVars)
  BY StepIsOutboxStep
<1>3. QED
  BY <1>1, <1>2, InitOutbox, NextOutbox, PTL
  DEF Spec, ImplementsOutbox, Outbox_!OutboxSpec
-----------------------------------------------------------------------------
(* The commands.                                                           *)

CommandTypeOK ==
  /\ locks \in Nat /\ lock \in [CommandIds -> Nat]
  /\ commands \in [CommandIds -> {"unsent", "queued", "locked", "deleted"}]
  /\ executedCommands \in Seq(CommandIds)
  /\ etagValue \subseteq Nat
  /\ executed \in Nat /\ \A h \in headers : h \in Nat /\ h <= executed

\* A lock is handed out once, and a command that is locked has one.
LocksInv ==
  /\ \A c \in CommandIds : lock[c] <= locks
  /\ \A c, d \in CommandIds : lock[c] = lock[d] /\ lock[c] # 0 => c = d
  /\ \A c \in CommandIds : commands[c] = "locked" => lock[c] # 0

\* A poll that was given a command and has read of the last answer has that
\* answer's ETag; the device that deletes a command names its lock, though it
\* may name others with it.
AnswerInv == doing = "poll" /\ statusCode = Accepted =>
               locks # 0 /\ (executed \in headers => locks \in etagValue)
NamesExecuted(l) == \A c \in CommandIds : lock[c] = l => Executed(c)
EtagInv == doing \in {"callback", "accept"} => \E l \in etagValue : NamesExecuted(l)

CommandInv ==
  CommandTypeOK /\ LocksInv /\ AnswerInv /\ EtagInv /\ DeletedWasExecuted

\* What has been executed stays executed.
LEMMA ExecutedStays ==
  ASSUME CommandTypeOK, NEW d \in CommandIds,
         executedCommands' = Append(executedCommands, d)
  PROVE  /\ Executed(d)'
         /\ \A c \in CommandIds : Executed(c) => Executed(c)'
         /\ executedCommands' \in Seq(CommandIds)
<1>1. /\ DOMAIN executedCommands = 1..Len(executedCommands)
      /\ DOMAIN executedCommands' = 1..(Len(executedCommands) + 1)
      /\ executedCommands'[Len(executedCommands) + 1] = d
      /\ \A i \in 1..Len(executedCommands) :
           executedCommands'[i] = executedCommands[i]
      /\ Len(executedCommands) \in Nat
  BY DEF CommandTypeOK
<1>2. QED
  BY <1>1 DEF Executed, CommandTypeOK

\* A step that leaves the commands alone and starts no answer or acceptance.
LEMMA CommandsKept ==
  ASSUME CommandInv, UNCHANGED <<lock, locks, commands, executedCommands>>,
         CommandTypeOK', AnswerInv',
         doing' \in {"callback", "accept"} =>
           doing \in {"callback", "accept"} /\ etagValue' = etagValue
  PROVE  CommandInv'
<1>1. \A c : Executed(c)' = Executed(c)
  BY DEF Executed
<1>2. LocksInv' /\ DeletedWasExecuted'
  BY <1>1 DEF CommandInv, LocksInv, DeletedWasExecuted
<1>3. EtagInv'
  BY <1>1 DEF CommandInv, EtagInv, NamesExecuted
<1>4. QED
  BY <1>2, <1>3 DEF CommandInv

\* A step of the sketch's loop touches neither hub nor call, and forgets the
\* ETags or keeps them.
LEMMA SketchSteps ==
  ASSUME Sketch
  PROVE  /\ UNCHANGED <<callVars, hubVars, confirmed, executedCommands, faults>>
         /\ doing \in {"asleep", "block", "idle"}
         /\ doing' \in {"asleep", "block", "dowork"}
         /\ etagValue' \in {etagValue, {}} /\ statusCode' \in {statusCode, 0}
BY DEF Sketch, Wake, SendReport, AwaitReport, NextRound, Sleep, Forget, NoFault,
       clientVars, historyVars

\* Another execution of a request, of which nothing has been read.
LEMMA ExecuteUnread ==
  ASSUME CommandInv, NEW answer, NEW refusals, Executes(answer, refusals)
  PROVE  /\ executed' \in Nat /\ executed' \notin headers'
         /\ \A h \in headers' : h \in Nat /\ h <= executed'
         /\ UNCHANGED <<doing, etagValue, executedCommands>>
         /\ statusCode' = answer
<1>1. executed' = executed + 1 /\ headers' = headers
  BY DEF Executes, Execute
<1>2. UNCHANGED <<doing, etagValue, executedCommands>> /\ statusCode' = answer
  BY DEF Executes, sketchVars, clientVars, historyVars
<1>3. QED
  BY <1>1, <1>2 DEF CommandInv, CommandTypeOK

LEMMA HubCommands == CommandInv /\ Hub => CommandInv'
<1> SUFFICES ASSUME CommandInv, Hub PROVE CommandInv'
  OBVIOUS
<1>1. CASE HubRefuses \/ HubTakesEvent \/ HubHasNoCommand \/ HubKnowsNoSuchLock
  <2>1. PICK answer, refusals : Executes(answer, refusals) /\
          (answer = Accepted => doing = "event")
    BY <1>1
    DEF HubRefuses, HubTakesEvent, HubHasNoCommand, HubKnowsNoSuchLock,
        Accepted, NoCommand, Refused
  <2>2. UNCHANGED <<lock, locks, commands>>
    BY <1>1
    DEF HubRefuses, HubTakesEvent, HubHasNoCommand, HubKnowsNoSuchLock, hubVars
  <2>3. CommandTypeOK'
    BY <2>1, <2>2, ExecuteUnread DEF CommandInv, CommandTypeOK
  <2>4. AnswerInv'
    BY <2>1, ExecuteUnread DEF AnswerInv
  <2>5. QED
    BY <2>1, <2>2, <2>3, <2>4, ExecuteUnread, CommandsKept
<1>2. CASE HubHandsOutCommand
  <2>1. PICK c \in CommandIds :
          /\ commands[c] = "queued"
          /\ commands' = [commands EXCEPT ![c] = "locked"]
          /\ lock' = [lock EXCEPT ![c] = locks + 1]
    BY <1>2 DEF HubHandsOutCommand, Queued
  <2>2. /\ doing = "poll" /\ locks' = locks + 1 /\ Executes(Accepted, 0)
    BY <1>2 DEF HubHandsOutCommand
  <2>3. /\ locks \in Nat /\ lock \in [CommandIds -> Nat]
        /\ commands \in [CommandIds -> {"unsent", "queued", "locked", "deleted"}]
    BY DEF CommandInv, CommandTypeOK
  <2>4. lock'[c] = locks + 1 /\ commands'[c] = "locked"
    BY <2>1, <2>3
  <2>5. \A d \in CommandIds \ {c} : lock'[d] = lock[d] /\ commands'[d] = commands[d]
    BY <2>1, <2>3
  <2>6. \A d \in CommandIds : lock[d] \in Nat /\ lock[d] <= locks
    BY <2>3 DEF CommandInv, LocksInv
  <2>7. CommandTypeOK'
    <3>1. /\ lock' \in [CommandIds -> Nat]
          /\ commands' \in [CommandIds -> {"unsent", "queued", "locked", "deleted"}]
      BY <2>1, <2>3
    <3>2. /\ executed' \in Nat /\ \A h \in headers' : h \in Nat /\ h <= executed'
          /\ UNCHANGED <<etagValue, executedCommands>>
      BY <2>2, ExecuteUnread
    <3>3. locks' \in Nat
      BY <2>2, <2>3
    <3>4. QED
      BY <3>1, <3>2, <3>3 DEF CommandInv, CommandTypeOK
  <2>8. LocksInv'
    <3>1. (\A d \in CommandIds : lock[d] <= locks)'
      BY <2>2, <2>3, <2>4, <2>5, <2>6
    <3>2. (\A d, e \in CommandIds : lock[d] = lock[e] /\ lock[d] # 0 => d = e)'
      <4> SUFFICES ASSUME NEW d \in CommandIds, NEW e \in CommandIds,
                          lock'[d] = lock'[e], lock'[d] # 0
                   PROVE  d = e
        OBVIOUS
      <4>1. CASE d = c
        BY <2>3, <2>4, <2>5, <2>6, <4>1
      <4>2. CASE d # c /\ e = c
        BY <2>3, <2>4, <2>5, <2>6, <4>2
      <4>3. CASE d # c /\ e # c
        BY <2>5, <4>3 DEF CommandInv, LocksInv
      <4>4. QED
        BY <4>1, <4>2, <4>3
    <3>3. (\A d \in CommandIds : commands[d] = "locked" => lock[d] # 0)'
      BY <2>3, <2>4, <2>5 DEF CommandInv, LocksInv
    <3>4. QED
      BY <3>1, <3>2, <3>3 DEF LocksInv
  <2>9. AnswerInv'
    BY <2>2, <2>3, ExecuteUnread DEF AnswerInv
  <2>10. EtagInv'
    BY <2>2, ExecuteUnread DEF EtagInv
  <2>11. DeletedWasExecuted'
    <3>1. UNCHANGED executedCommands
      BY <2>2, ExecuteUnread
    <3>2. \A d \in CommandIds : commands'[d] = "deleted" => commands[d] = "deleted"
      BY <2>4, <2>5
    <3>3. QED
      BY <3>1, <3>2 DEF CommandInv, DeletedWasExecuted, Executed
  <2>12. QED
    BY <2>7, <2>8, <2>9, <2>10, <2>11 DEF CommandInv
<1>3. CASE HubDeletesCommand
  <2>1. /\ doing = "accept" /\ Executes(Accepted, 0) /\ UNCHANGED <<lock, locks>>
        /\ commands' = [c \in CommandIds |->
                          IF c \in Named THEN "deleted" ELSE commands[c]]
    BY <1>3 DEF HubDeletesCommand
  <2>2. \A c \in Named : Executed(c)
    <3> TAKE c \in Named
    <3>1. c \in CommandIds /\ etagValue = {lock[c]}
      BY DEF Named
    <3>2. NamesExecuted(lock[c])
      BY <2>1, <3>1 DEF CommandInv, EtagInv
    <3>3. QED
      BY <3>1, <3>2 DEF NamesExecuted
  <2>3. UNCHANGED <<doing, etagValue, executedCommands>>
    BY <2>1, ExecuteUnread
  <2>4. CommandTypeOK'
    BY <2>1, <2>3, ExecuteUnread DEF CommandInv, CommandTypeOK
  <2>5. LocksInv'
    BY <2>1 DEF CommandInv, LocksInv
  <2>6. AnswerInv'
    BY <2>1, <2>3 DEF AnswerInv
  <2>7. EtagInv'
    BY <2>1, <2>3 DEF CommandInv, EtagInv, NamesExecuted, Executed
  <2>8. DeletedWasExecuted'
    BY <2>1, <2>2, <2>3 DEF CommandInv, DeletedWasExecuted, Executed
  <2>9. QED
    BY <2>4, <2>5, <2>6, <2>7, <2>8 DEF CommandInv
<1>4. CASE HubUnlocksCommand
  <2>1. /\ doing = "abandon" /\ Executes(Accepted, 0) /\ UNCHANGED <<lock, locks>>
        /\ commands' = [c \in CommandIds |->
                          IF c \in Named THEN "queued" ELSE commands[c]]
    BY <1>4 DEF HubUnlocksCommand
  <2>2. UNCHANGED <<doing, etagValue, executedCommands>>
    BY <2>1, ExecuteUnread
  <2>3. CommandTypeOK'
    BY <2>1, <2>2, ExecuteUnread DEF CommandInv, CommandTypeOK
  <2>4. LocksInv'
    BY <2>1 DEF CommandInv, LocksInv
  <2>5. AnswerInv' /\ EtagInv'
    BY <2>1, <2>2 DEF AnswerInv, EtagInv
  <2>6. DeletedWasExecuted'
    BY <2>1, <2>2 DEF CommandInv, DeletedWasExecuted, Executed
  <2>7. QED
    BY <2>3, <2>4, <2>5, <2>6 DEF CommandInv
<1>5. QED
  BY <1>1, <1>2, <1>3, <1>4 DEF Hub

\* The response headers only change as HttpCall lets them.
LEMMA CallHeaders ==
  ASSUME CommandInv, Begin \/ Gather \/ Return \/ GiveUp \/ UNCHANGED callVars
  PROVE  executed' \in Nat /\ \A h \in headers' : h \in Nat /\ h <= executed'
BY DEF CommandInv, CommandTypeOK, Begin, Gather, Return, GiveUp, callVars

LEMMA ClientCommands == CommandInv /\ Client => CommandInv'
<1> SUFFICES ASSUME CommandInv, Client PROVE CommandInv'
  OBVIOUS
<1> USE DEF sketchVars, clientVars, historyVars, hubVars
<1>1. CASE DoEvent \/ DoEventEmpty \/ EventSent \/ EventNotSent \/ DoMessages
           \/ PollNotAllowed \/ NothingToDo \/ PollFails \/ AcceptEnds
           \/ AnswerUnusable \/ AnswerRefused \/ AbandonMessage
  <2>1. /\ Begin \/ Gather \/ Return \/ GiveUp \/ UNCHANGED callVars
        /\ UNCHANGED <<lock, locks, commands, executedCommands>>
        /\ etagValue' \in {etagValue, {}}
    BY <1>1
    DEF DoEvent, DoEventEmpty, EventSent, EventNotSent, DoMessages,
        PollNotAllowed, NothingToDo, PollFails, AcceptEnds, AnswerUnusable,
        AnswerRefused, AbandonMessage
  <2>2. /\ doing' \in {"event", "messages", "poll", "idle", "refused", "abandon"}
        /\ doing' = "poll" => statusCode' = 0
    BY <1>1
    DEF DoEvent, DoEventEmpty, EventSent, EventNotSent, DoMessages,
        PollNotAllowed, NothingToDo, PollFails, AcceptEnds, AnswerUnusable,
        AnswerRefused, AbandonMessage
  <2>3. CommandTypeOK'
    BY <2>1, CallHeaders DEF CommandInv, CommandTypeOK
  <2>4. AnswerInv'
    BY <2>2 DEF AnswerInv, Accepted
  <2>5. QED
    BY <2>1, <2>2, <2>3, <2>4, CommandsKept
<1>2. CASE ReadHeader
  <2>1. /\ Gather /\ UNCHANGED <<doing, statusCode, executed>>
        /\ UNCHANGED <<lock, locks, commands, executedCommands>>
        /\ etagValue' = (IF doing = "poll" /\ statusCode = Accepted
                         THEN etagValue \cup {locks} ELSE etagValue)
    BY <1>2 DEF ReadHeader, Gather
  <2>2. CommandTypeOK'
    BY <2>1, CallHeaders DEF CommandInv, CommandTypeOK
  <2>3. AnswerInv'
    BY <2>1 DEF CommandInv, AnswerInv
  <2>4. QED
    BY <2>1, <2>2, <2>3, CommandsKept
<1>3. CASE ExecuteCommand
  <2>1. /\ doing = "poll" /\ statusCode = Accepted /\ Return
        /\ doing' = "callback"
        /\ UNCHANGED <<lock, locks, commands, etagValue>>
    BY <1>3 DEF ExecuteCommand
  <2>2. PICK c \in CommandIds :
          lock[c] = locks /\ executedCommands' = Append(executedCommands, c)
    BY <1>3 DEF ExecuteCommand
  <2>3. /\ Executed(c)' /\ executedCommands' \in Seq(CommandIds)
        /\ \A d \in CommandIds : Executed(d) => Executed(d)'
    BY <2>2, ExecutedStays DEF CommandInv
  <2>4. locks # 0 /\ locks \in etagValue
    BY <2>1 DEF CommandInv, AnswerInv, Return
  <2>5. \A d \in CommandIds : lock[d] = locks => d = c
    BY <2>2, <2>4 DEF CommandInv, LocksInv
  <2>6. CommandTypeOK'
    BY <2>1, <2>3, CallHeaders DEF CommandInv, CommandTypeOK
  <2>7. LocksInv' /\ AnswerInv'
    BY <2>1 DEF CommandInv, LocksInv, AnswerInv
  <2>8. EtagInv'
    <3>1. NamesExecuted(locks)'
      BY <2>1, <2>3, <2>5 DEF NamesExecuted
    <3>2. QED
      BY <2>1, <2>4, <3>1 DEF EtagInv
  <2>9. DeletedWasExecuted'
    BY <2>1, <2>3 DEF CommandInv, DeletedWasExecuted
  <2>10. QED
    BY <2>6, <2>7, <2>8, <2>9 DEF CommandInv
<1>4. CASE AcceptMessage
  <2>1. /\ Begin /\ doing = "callback" /\ doing' = "accept"
        /\ UNCHANGED <<lock, locks, commands, executedCommands, etagValue>>
    BY <1>4 DEF AcceptMessage
  <2>2. CommandTypeOK'
    BY <2>1, CallHeaders DEF CommandInv, CommandTypeOK
  <2>3. QED
    BY <2>1, <2>2, CommandsKept DEF AnswerInv
<1>5. QED
  BY <1>1, <1>2, <1>3, <1>4 DEF Client

LEMMA NextCommands == CommandInv /\ [Next]_vars => CommandInv'
<1> SUFFICES ASSUME CommandInv, [Next]_vars PROVE CommandInv'
  OBVIOUS
<1> USE DEF sketchVars, clientVars, historyVars, hubVars
<1>1. CASE IntervalPasses \/ UNCHANGED vars
  <2>1. UNCHANGED <<callVars, doing, statusCode, etagValue, lock, locks,
                    commands, executedCommands>>
    BY <1>1 DEF IntervalPasses, vars
  <2>2. CommandTypeOK'
    BY <2>1, CallHeaders DEF CommandInv, CommandTypeOK
  <2>3. AnswerInv'
    BY <2>1 DEF CommandInv, AnswerInv, callVars
  <2>4. QED
    BY <2>1, <2>2, <2>3, CommandsKept
<1>2. CASE SendCommand \/ LockExpires
  <2>1. UNCHANGED <<callVars, doing, statusCode, etagValue, lock, locks,
                    executedCommands>>
    BY <1>2 DEF SendCommand, LockExpires
  <2>2. PICK c \in CommandIds :
          commands' = [commands EXCEPT ![c] = "queued"]
    BY <1>2 DEF SendCommand, LockExpires
  <2>3. \A d \in CommandIds : commands'[d] \in {commands[d], "queued"}
    BY <2>2 DEF CommandInv, CommandTypeOK
  <2>4. CommandTypeOK'
    BY <2>1, <2>2, CallHeaders DEF CommandInv, CommandTypeOK
  <2>5. LocksInv'
    BY <2>1, <2>3 DEF CommandInv, LocksInv
  <2>6. AnswerInv'
    BY <2>1 DEF CommandInv, AnswerInv, callVars
  <2>7. EtagInv'
    BY <2>1 DEF CommandInv, EtagInv, NamesExecuted, Executed
  <2>8. DeletedWasExecuted'
    BY <2>1, <2>3 DEF CommandInv, DeletedWasExecuted, Executed
  <2>9. QED
    BY <2>4, <2>5, <2>6, <2>7, <2>8 DEF CommandInv
<1>3. CASE Restart \/ Sketch \/ Strand
  <2>1. /\ doing' \in {"asleep", "block", "dowork", "stranded"}
        /\ etagValue' \in {etagValue, {}}
        /\ UNCHANGED <<executed, headers, lock, locks, commands,
                       executedCommands>>
    BY <1>3, SketchSteps DEF Restart, Reset, Forget, Strand, callVars
  <2>2. CommandTypeOK'
    BY <2>1 DEF CommandInv, CommandTypeOK
  <2>3. QED
    BY <2>1, <2>2, CommandsKept DEF AnswerInv
<1>4. QED
  BY <1>1, <1>2, <1>3, HubCommands, ClientCommands DEF Next, World

LEMMA InitCommands == Init => CommandInv
<1> SUFFICES ASSUME Init PROVE CommandInv
  OBVIOUS
<1>1. CommandTypeOK
  BY DEF Init, CallInit, CommandTypeOK
<1>2. LocksInv /\ DeletedWasExecuted
  BY DEF Init, LocksInv, DeletedWasExecuted
<1>3. AnswerInv /\ EtagInv
  BY DEF Init, AnswerInv, EtagInv
<1>4. QED
  BY <1>1, <1>2, <1>3 DEF CommandInv

\* The hub never deletes a command the sketch has not executed, in every
\* instance: not after a lost answer, a retry, or a lock that expired.
THEOREM DeletedOnlyExecuted == Spec => []DeletedWasExecuted
<1>1. CommandInv => DeletedWasExecuted
  BY DEF CommandInv
<1>2. QED
  BY <1>1, InitCommands, NextCommands, PTL DEF Spec
-----------------------------------------------------------------------------
(* What a failure costs.  A command that is deleted, or on its way to that,  *)
(* owes nothing; every lock and every execution beyond those is a fault's.   *)

\* The command the device has in hand, with nothing against it so far.
Held == {c \in CommandIds :
  /\ commands[c] = "locked" /\ lock[c] = locks
  /\ \/ doing = "poll" /\ statusCode = Accepted /\ executed <= 1
     \/ doing = "callback" /\ etagValue = {locks}
     \/ doing = "accept" /\ statusCode = 0 /\ etagValue = {locks}}
Deleted == {c \in CommandIds : commands[c] = "deleted"}
Done == Held \cup Deleted

HandedOut == IF doing = "poll" /\ statusCode = Accepted THEN 1 ELSE 0
RepetitionsPaid ==
  Len(executedCommands) + HandedOut <= faults + Cardinality(Done)
LocksPaid == locks <= 2 * faults + Cardinality(Done)

\* One execution of a poll leaves one ETag at most, that of the last lock.
RequestInv ==
  /\ doing \in {"poll", "accept"} => (executed = 0 <=> statusCode = 0)
  /\ doing = "poll" =>
       \/ executed > 1
       \/ etagValue = {}
       \/ executed = 1 /\ statusCode = Accepted /\ etagValue = {locks}

LedgerInv == faults \in Nat /\ RequestInv /\ RepetitionsPaid /\ LocksPaid

\* Sets of commands are finite and can be counted.
LEMMA CommandSets ==
  ASSUME NEW S \in SUBSET CommandIds
  PROVE  /\ IsFiniteSet(S)
         /\ Cardinality(S) \in Nat /\ Cardinality(S) <= MaxCommands
<1>1. MaxCommands \in Nat
  BY ClientAssumption
<1>2. IsFiniteSet(CommandIds) /\ Cardinality(CommandIds) = MaxCommands
  BY <1>1, FS_Interval DEF CommandIds
<1>3. IsFiniteSet(S) /\ Cardinality(S) <= MaxCommands
  BY <1>2, FS_Subset
<1>4. QED
  BY <1>3, FS_CardinalityType

\* So are the commands that are done.
LEMMA DoneIsCounted ==
  /\ Done \in SUBSET CommandIds /\ Done' \in SUBSET CommandIds
  /\ Cardinality(Done) \in Nat /\ Cardinality(Done') \in Nat
<1>1. Done \in SUBSET CommandIds /\ Done' \in SUBSET CommandIds
  BY DEF Done, Held, Deleted
<1>2. QED
  BY <1>1, CommandSets

\* No two commands are held at once.
LEMMA HeldIsOne == CommandInv => \A c, d \in Held : c = d
BY DEF CommandInv, LocksInv, Held

\* A set of commands that holds all but one of another is smaller by one.
LEMMA OneLess ==
  ASSUME NEW S \in SUBSET CommandIds, NEW T \in SUBSET CommandIds,
         NEW c, S \subseteq T \cup {c}
  PROVE  Cardinality(S) <= Cardinality(T) + 1
<1>1. IsFiniteSet(T) /\ Cardinality(T) \in Nat /\ Cardinality(S) \in Nat
  BY CommandSets
<1>2. /\ IsFiniteSet(T \cup {c})
      /\ Cardinality(T \cup {c}) \in {Cardinality(T), Cardinality(T) + 1}
  BY <1>1, FS_AddElement
<1>3. Cardinality(S) <= Cardinality(T \cup {c})
  BY <1>2, FS_Subset
<1>4. QED
  BY <1>1, <1>2, <1>3

\* What is deleted stays done; of the rest, one command can be lost.
LEMMA DoneShrinks ==
  ASSUME CommandInv, NEW T \in SUBSET CommandIds, Deleted \subseteq T
  PROVE  Cardinality(Done) <= Cardinality(T) + 1
<1>1. PICK c : Held \subseteq {c}
  BY HeldIsOne
<1>2. Done \subseteq T \cup {c}
  BY <1>1 DEF Done
<1>3. QED
  BY <1>2, DoneIsCounted, OneLess

\* A step that locks and executes nothing keeps the ledger, if it keeps what is
\* done or is a fault.
LEMMA LedgerKept ==
  ASSUME CommandInv, LedgerInv, UNCHANGED <<locks, executedCommands>>,
         faults' \in Nat, faults <= faults',
         Deleted \subseteq Deleted', faults' = faults => Held \subseteq Done',
         HandedOut' = 1 => HandedOut = 1
  PROVE  RepetitionsPaid' /\ LocksPaid'
<1>1. /\ HandedOut \in {0, 1} /\ HandedOut' \in {0, 1}
      /\ faults \in Nat /\ locks \in Nat /\ Len(executedCommands) \in Nat
  BY DEF HandedOut, LedgerInv, CommandInv, CommandTypeOK
<1>2. Cardinality(Done) + faults <= Cardinality(Done') + faults'
  <2>1. CASE faults' = faults
    <3>1. Done \subseteq Done'
      BY <2>1 DEF Done
    <3>2. Cardinality(Done) <= Cardinality(Done')
      BY <3>1, DoneIsCounted, CommandSets, FS_Subset
    <3>3. QED
      BY <1>1, <2>1, <3>2, DoneIsCounted
  <2>2. CASE faults' # faults
    <3>1. Cardinality(Done) <= Cardinality(Done') + 1
      BY DoneIsCounted, DoneShrinks DEF Done
    <3>2. QED
      BY <1>1, <2>2, <3>1, DoneIsCounted
  <2>3. QED
    BY <2>1, <2>2
<1>3. RepetitionsPaid'
  BY <1>1, <1>2, DoneIsCounted DEF LedgerInv, RepetitionsPaid
<1>4. LocksPaid'
  BY <1>1, <1>2, DoneIsCounted DEF LedgerInv, LocksPaid
<1>5. QED
  BY <1>3, <1>4

\* HttpCall keeps its types, and each step of the client is one of its steps.
LEMMA CallTypes == CallTypeOK /\ [Next]_vars => CallTypeOK'
<1> SUFFICES ASSUME CallTypeOK, [Next]_vars PROVE CallTypeOK'
  OBVIOUS
<1>1. CallNext \/ UNCHANGED callVars
  BY SketchSteps DEF Next, Hub, HubRefuses, HubTakesEvent, HubHandsOutCommand,
    HubHasNoCommand, HubDeletesCommand, HubUnlocksCommand, HubKnowsNoSuchLock,
    Executes, Client, DoEvent, DoEventEmpty, EventSent, EventNotSent, DoMessages,
    PollNotAllowed, ReadHeader, NothingToDo, ExecuteCommand, AnswerUnusable,
    AnswerRefused, AcceptMessage, AbandonMessage, PollFails, AcceptEnds, World,
    IntervalPasses, SendCommand, LockExpires, Strand, Restart, vars, CallNext
<1>2. executed \in Nat /\ MaxExecutions \in Nat
  BY ExecutionAssumption DEF CallTypeOK
<1>3. CASE Begin
  BY <1>2, <1>3 DEF CallTypeOK, Begin
<1>4. CASE Execute
  BY <1>2, <1>4 DEF CallTypeOK, Execute
<1>5. CASE Gather
  BY <1>2, <1>5 DEF CallTypeOK, Gather
<1>6. CASE Return \/ GiveUp \/ Reset \/ UNCHANGED callVars
  BY <1>6 DEF CallTypeOK, Return, GiveUp, Reset, callVars
<1>7. QED
  BY <1>1, <1>3, <1>4, <1>5, <1>6 DEF CallNext

\* What another execution costs.
LEMMA ExecutionCosts ==
  ASSUME CommandInv, LedgerInv, NEW answer \in Nat \ {0}, NEW refusals \in Nat,
         Executes(answer, refusals)
  PROVE  /\ faults' = faults + refusals + (IF executed > 0 THEN 1 ELSE 0)
         /\ faults' \in Nat /\ executed \in Nat /\ executed' = executed + 1
         /\ UNCHANGED <<doing, etagValue, executedCommands>>
         /\ statusCode' = answer
         /\ doing = "poll" /\ executed = 0 => statusCode = 0 /\ etagValue = {}
<1>1. /\ faults' = faults + (refusals + (IF executed > 0 THEN 1 ELSE 0))
      /\ UNCHANGED <<doing, etagValue, executedCommands>>
      /\ statusCode' = answer /\ executed' = executed + 1
  BY DEF Executes, Execute, sketchVars, clientVars, historyVars
<1>2. executed \in Nat /\ faults \in Nat
  BY DEF CommandInv, CommandTypeOK, LedgerInv
<1>3. doing = "poll" /\ executed = 0 => statusCode = 0 /\ etagValue = {}
  BY DEF LedgerInv, RequestInv
<1>4. QED
  BY <1>1, <1>2, <1>3

\* An execution keeps statusCode and the ETags in line with the count.
LEMMA ExecutionRequests ==
  ASSUME CommandInv, LedgerInv, NEW answer \in Nat \ {0}, NEW refusals \in Nat,
         Executes(answer, refusals)
  PROVE  RequestInv'
<1>1. /\ executed \in Nat /\ executed' = executed + 1 /\ statusCode' # 0
      /\ UNCHANGED <<doing, etagValue>>
      /\ doing = "poll" /\ executed = 0 => etagValue = {}
  BY ExecutionCosts
<1>2. QED
  BY <1>1 DEF RequestInv

\* An execution that hands out nothing.
LEMMA HubAnswersLedger ==
  ASSUME CommandInv, LedgerInv,
         HubRefuses \/ HubTakesEvent \/ HubHasNoCommand \/ HubDeletesCommand
           \/ HubUnlocksCommand \/ HubKnowsNoSuchLock
  PROVE  LedgerInv'
<1>1. PICK answer \in {Accepted, NoCommand, Refused}, refusals \in {0, 1} :
        /\ Executes(answer, refusals)
        /\ refusals = 0 => \/ doing = "event"
                           \/ doing = "poll" /\ answer # Accepted
                           \/ doing \in {"accept", "abandon"}
        /\ refusals = 1 => answer # Accepted
  BY DEF HubRefuses, HubTakesEvent, HubHasNoCommand, HubDeletesCommand,
         HubUnlocksCommand, HubKnowsNoSuchLock, Accepted, NoCommand, Refused
<1>2. /\ faults' = faults + refusals + (IF executed > 0 THEN 1 ELSE 0)
      /\ faults \in Nat /\ faults' \in Nat /\ executed \in Nat
      /\ UNCHANGED <<doing, executedCommands>> /\ statusCode' = answer
      /\ doing = "poll" /\ executed = 0 => statusCode = 0
  BY <1>1, ExecutionCosts DEF Accepted, NoCommand, Refused, LedgerInv
<1>3. UNCHANGED locks /\ Deleted \subseteq Deleted'
  BY DEF HubRefuses, HubTakesEvent, HubHasNoCommand, HubDeletesCommand,
         HubUnlocksCommand, HubKnowsNoSuchLock, hubVars, Deleted, Named
<1>4. ASSUME faults' = faults, NEW c \in Held PROVE c \in Done'
  <2>1. refusals = 0 /\ executed = 0
    BY <1>1, <1>2, <1>4
  <2>2. doing = "accept" /\ c \in Named
    BY <1>1, <1>2, <1>4, <2>1 DEF Held, Named, Accepted
  <2>3. HubDeletesCommand
    BY <2>1, <2>2, <1>1, <1>2, <1>4
    DEF HubRefuses, HubTakesEvent, HubHasNoCommand, HubUnlocksCommand,
        HubKnowsNoSuchLock, Executes
  <2>4. QED
    BY <2>2, <2>3 DEF HubDeletesCommand, Done, Deleted, Named
<1>5. HandedOut' = 1 => HandedOut = 1
  BY <1>1, <1>2 DEF HandedOut
<1>6. RepetitionsPaid' /\ LocksPaid'
  BY <1>2, <1>3, <1>4, <1>5, LedgerKept
<1>7. RequestInv'
  BY <1>1, ExecutionRequests DEF Accepted, NoCommand, Refused
<1>8. QED
  BY <1>2, <1>6, <1>7 DEF LedgerInv

\* Handing out a command: the first execution of a poll puts it among what is
\* done, a further one is a fault.
LEMMA HandOutLedger ==
  ASSUME CommandInv, LedgerInv, HubHandsOutCommand
  PROVE  LedgerInv'
<1>1. PICK c \in CommandIds :
        /\ commands[c] = "queued"
        /\ commands' = [commands EXCEPT ![c] = "locked"]
        /\ lock' = [lock EXCEPT ![c] = locks + 1]
  BY DEF HubHandsOutCommand, Queued
<1>2. doing = "poll" /\ locks' = locks + 1 /\ Executes(Accepted, 0)
  BY DEF HubHandsOutCommand
<1>3. /\ faults' = faults + (IF executed > 0 THEN 1 ELSE 0)
      /\ faults \in Nat /\ faults' \in Nat
      /\ executed \in Nat /\ executed' = executed + 1
      /\ UNCHANGED <<doing, executedCommands>> /\ statusCode' = Accepted
      /\ executed = 0 => statusCode = 0
  BY <1>2, ExecutionCosts DEF Accepted, LedgerInv
<1>4. RequestInv'
  BY <1>2, ExecutionRequests DEF Accepted
<1>5. /\ locks \in Nat /\ Len(executedCommands) \in Nat
      /\ lock \in [CommandIds -> Nat]
      /\ commands \in [CommandIds -> {"unsent", "queued", "locked", "deleted"}]
  BY DEF CommandInv, CommandTypeOK
<1>6. /\ c \notin Deleted /\ Deleted \subseteq Deleted'
      /\ commands'[c] = "locked" /\ lock'[c] = locks'
  BY <1>1, <1>2, <1>5 DEF Deleted
<1>7. HandedOut' = 1 /\ (statusCode # Accepted => HandedOut = 0 /\ Held = {})
      /\ (statusCode = Accepted => HandedOut = 1)
  BY <1>2, <1>3 DEF HandedOut, Held
<1>8. CASE executed = 0
  <2>1. HandedOut = 0 /\ Done = Deleted
    BY <1>3, <1>7, <1>8 DEF Done, Accepted
  <2>2. Done \cup {c} \subseteq Done'
    BY <1>2, <1>3, <1>6, <1>8, <2>1 DEF Done, Held
  <2>3. Cardinality(Done) + 1 <= Cardinality(Done')
    <3>1. IsFiniteSet(Done) /\ IsFiniteSet(Done')
      BY DoneIsCounted, CommandSets
    <3>2. Cardinality(Done \cup {c}) = Cardinality(Done) + 1
      BY <1>6, <2>1, <3>1, FS_AddElement
    <3>3. Cardinality(Done \cup {c}) <= Cardinality(Done')
      BY <2>2, <3>1, FS_Subset
    <3>4. QED
      BY <3>2, <3>3
  <2>4. faults' = faults
    BY <1>3, <1>8
  <2>5. RepetitionsPaid'
    BY <1>3, <1>5, <1>7, <2>1, <2>3, <2>4, DoneIsCounted
    DEF LedgerInv, RepetitionsPaid
  <2>6. LocksPaid'
    BY <1>2, <1>3, <1>5, <2>3, <2>4, DoneIsCounted DEF LedgerInv, LocksPaid
  <2>7. QED
    BY <1>3, <1>4, <2>5, <2>6 DEF LedgerInv
<1>9. CASE executed > 0
  <2>1. faults' = faults + 1
    BY <1>3, <1>9
  <2>2. Cardinality(Done) <= Cardinality(Done') + 1
    BY <1>6, DoneIsCounted, DoneShrinks DEF Done
  <2>3. Held = {} => Cardinality(Done) <= Cardinality(Done')
    <3>1. IsFiniteSet(Done')
      BY DoneIsCounted, CommandSets
    <3>2. Held = {} => Done \in SUBSET Done'
      BY <1>6 DEF Done
    <3>3. QED
      BY <3>1, <3>2, FS_Subset
  <2>4. RepetitionsPaid'
    <3>1. CASE statusCode = Accepted
      BY <1>3, <1>5, <1>7, <2>1, <2>2, <3>1, DoneIsCounted
      DEF LedgerInv, RepetitionsPaid
    <3>2. CASE statusCode # Accepted
      BY <1>3, <1>5, <1>7, <2>1, <2>3, <3>2, DoneIsCounted
      DEF LedgerInv, RepetitionsPaid
    <3>3. QED
      BY <3>1, <3>2
  <2>5. LocksPaid'
    BY <1>2, <1>3, <1>5, <2>1, <2>2, DoneIsCounted DEF LedgerInv, LocksPaid
  <2>6. QED
    BY <1>3, <1>4, <2>4, <2>5 DEF LedgerInv
<1>10. QED
  BY <1>3, <1>8, <1>9

\* The client: what was handed out pays for its execution.
LEMMA ClientLedger ==
  ASSUME CommandInv, LedgerInv, CallTypeOK, Client
  PROVE  LedgerInv'
<1> USE DEF sketchVars, clientVars, historyVars, hubVars
<1>1. /\ faults' \in Nat /\ faults <= faults' /\ UNCHANGED <<locks, commands, lock>>
      /\ faults \in Nat
  BY DEF Client, DoEvent, DoEventEmpty, EventSent, EventNotSent, DoMessages,
    PollNotAllowed, ReadHeader, NothingToDo, ExecuteCommand, AnswerUnusable,
    AnswerRefused, AcceptMessage, AbandonMessage, PollFails, AcceptEnds, NoFault,
    Fault, LedgerInv
<1>2. Deleted \subseteq Deleted'
  BY <1>1 DEF Deleted
<1>3. CASE DoEvent \/ DoEventEmpty \/ EventSent \/ EventNotSent \/ DoMessages
           \/ PollNotAllowed \/ NothingToDo \/ AbandonMessage
  <2>1. /\ \/ doing \in {"dowork", "event", "messages", "refused"}
           \/ doing = "poll" /\ statusCode # Accepted
        /\ \/ doing' \in {"idle", "event", "messages", "abandon"}
           \/ /\ doing' = "poll" /\ statusCode' = 0
              /\ executed' = 0 /\ etagValue' = {}
        /\ UNCHANGED executedCommands
    <3>1. CASE DoMessages
      BY <3>1 DEF DoMessages, Begin
    <3>2. CASE ~DoMessages
      BY <1>3, <3>2
      DEF DoEvent, DoEventEmpty, EventSent, EventNotSent, PollNotAllowed,
          NothingToDo, AbandonMessage
    <3>3. QED
      BY <3>1, <3>2
  <2>2. Held = {} /\ HandedOut' = 0 /\ RequestInv'
    BY <2>1 DEF Held, HandedOut, RequestInv, Accepted
  <2>3. QED
    BY <1>1, <1>2, <2>1, <2>2, LedgerKept DEF LedgerInv
<1>4. CASE PollFails \/ AcceptEnds \/ AnswerUnusable \/ AnswerRefused
  <2>1. doing' \in {"idle", "refused"} /\ UNCHANGED executedCommands
    BY <1>4 DEF PollFails, AcceptEnds, AnswerUnusable, AnswerRefused
  <2>2. faults' = faults => Held = {}
    <3> SUFFICES ASSUME faults' = faults, Held # {} PROVE FALSE
      OBVIOUS
    <3>1. doing \in {"accept", "abandon"} /\ Return
      BY <1>1, <1>4 DEF PollFails, AcceptEnds, AnswerUnusable, AnswerRefused, Fault
    <3>0. doing = "accept"
      BY <3>1 DEF Held
    <3>2. executed # 0
      BY <3>1 DEF Return, CallTypeOK
    <3>3. statusCode # 0
      BY <3>0, <3>2 DEF LedgerInv, RequestInv
    <3>4. QED
      BY <3>0, <3>3 DEF Held
  <2>3. HandedOut' = 0 /\ RequestInv'
    BY <2>1 DEF HandedOut, RequestInv
  <2>4. QED
    BY <1>1, <1>2, <2>1, <2>2, <2>3, LedgerKept DEF LedgerInv
<1>5. CASE ReadHeader
  <2>1. /\ UNCHANGED <<doing, statusCode, executed, executedCommands>>
        /\ etagValue' = (IF doing = "poll" /\ statusCode = Accepted
                         THEN etagValue \cup {locks} ELSE etagValue)
        /\ executed > 0 /\ executed \in Nat
    BY <1>5 DEF ReadHeader, Gather, CallTypeOK
  <2>2. Held \subseteq Done'
    BY <1>1, <2>1 DEF Held, Done
  <2>3. UNCHANGED HandedOut
    BY <2>1 DEF HandedOut
  <2>4. RequestInv'
    BY <1>1, <2>1 DEF LedgerInv, RequestInv
  <2>5. QED
    BY <1>1, <1>2, <2>1, <2>2, <2>3, <2>4, LedgerKept DEF LedgerInv
<1>6. CASE ExecuteCommand
  <2>1. /\ doing = "poll" /\ statusCode = Accepted /\ Return
        /\ doing' = "callback" /\ UNCHANGED <<etagValue, faults>>
    BY <1>6 DEF ExecuteCommand, NoFault
  <2>2. PICK c \in CommandIds : executedCommands' = Append(executedCommands, c)
    BY <1>6 DEF ExecuteCommand
  <2>3. /\ Len(executedCommands) \in Nat /\ locks \in Nat
        /\ Len(executedCommands') = Len(executedCommands) + 1
    BY <2>2 DEF CommandInv, CommandTypeOK
  <2>4. executed <= 1 => etagValue = {locks}
    <3>1. executed \in Nat \ {0} /\ locks \in etagValue
      BY <2>1 DEF Return, CallTypeOK, CommandInv, AnswerInv
    <3>2. QED
      BY <2>1, <3>1 DEF LedgerInv, RequestInv
  <2>5. Held \subseteq Held'
    BY <1>1, <2>1, <2>4 DEF Held
  <2>6. Cardinality(Done) <= Cardinality(Done')
    <3>1. Done \in SUBSET Done'
      BY <1>2, <2>5 DEF Done
    <3>2. QED
      BY <3>1, DoneIsCounted, CommandSets, FS_Subset
  <2>7. HandedOut = 1 /\ HandedOut' = 0 /\ RequestInv'
    BY <2>1 DEF HandedOut, RequestInv
  <2>8. RepetitionsPaid'
    BY <1>1, <2>1, <2>3, <2>6, <2>7, DoneIsCounted DEF LedgerInv, RepetitionsPaid
  <2>9. LocksPaid'
    BY <1>1, <2>1, <2>3, <2>6, DoneIsCounted DEF LedgerInv, LocksPaid
  <2>10. QED
    BY <1>1, <2>7, <2>8, <2>9 DEF LedgerInv
<1>7. CASE AcceptMessage
  <2>1. /\ doing = "callback" /\ doing' = "accept" /\ statusCode' = 0
        /\ executed' = 0 /\ UNCHANGED <<etagValue, executedCommands>>
    BY <1>7 DEF AcceptMessage, Begin
  <2>2. Held \subseteq Done' /\ HandedOut' = 0 /\ RequestInv'
    BY <1>1, <2>1 DEF Held, Done, HandedOut, RequestInv
  <2>3. QED
    BY <1>1, <1>2, <2>1, <2>2, LedgerKept DEF LedgerInv
<1>8. QED
  BY <1>3, <1>4, <1>5, <1>6, <1>7 DEF Client

\* A lock that expires on a command in hand is a fault, and so is a restart.
LEMMA WorldLedger ==
  ASSUME CommandInv, LedgerInv, World \/ Sketch \/ UNCHANGED vars
  PROVE  LedgerInv'
<1> USE DEF sketchVars, clientVars, historyVars, hubVars, callVars
<1>1. faults' \in Nat /\ faults <= faults' /\ UNCHANGED <<locks, lock, executedCommands>>
  BY SketchSteps
  DEF World, IntervalPasses, SendCommand, LockExpires, Strand, Restart, Forget,
    vars, NoFault, Fault, LedgerInv
<1>2. CASE Restart
  <2>1. doing' = "asleep" /\ faults' = faults + 1 /\ UNCHANGED commands
    BY <1>2 DEF Restart, Forget, Fault
  <2>2. HandedOut' = 0 /\ RequestInv' /\ faults' # faults /\ Deleted \subseteq Deleted'
    BY <2>1 DEF HandedOut, RequestInv, Deleted, LedgerInv
  <2>3. QED
    BY <1>1, <2>2, LedgerKept DEF LedgerInv
<1>3. CASE Sketch \/ Strand
  <2>1. /\ doing \in {"asleep", "block", "idle"} /\ UNCHANGED <<commands, faults>>
        /\ doing' \in {"asleep", "block", "dowork", "stranded"}
    BY <1>3, SketchSteps DEF Strand, NoFault
  <2>2. /\ HandedOut' = 0 /\ RequestInv' /\ Held = {} /\ Deleted \subseteq Deleted'
    BY <2>1 DEF HandedOut, RequestInv, Held, Deleted
  <2>3. QED
    BY <1>1, <2>1, <2>2, LedgerKept DEF LedgerInv
<1>4. CASE ~(Restart \/ Sketch \/ Strand)
  <2>1. /\ UNCHANGED <<doing, statusCode, executed, etagValue>>
        /\ \A c \in CommandIds :
             commands'[c] # commands[c] =>
               \/ commands[c] = "unsent" \/ faults' = faults + 1
               \/ commands[c] = "locked" /\ ~(lock[c] = locks /\ InHand)
        /\ Deleted \subseteq Deleted'
    <3>1. CASE IntervalPasses \/ UNCHANGED vars
      BY <3>1 DEF IntervalPasses, vars, Deleted
    <3>2. CASE SendCommand
      <4>1. PICK c \in CommandIds :
              /\ commands[c] = "unsent"
              /\ commands' = [commands EXCEPT ![c] = "queued"]
        BY <3>2 DEF SendCommand
      <4>2. \A d \in CommandIds \ {c} : commands'[d] = commands[d]
        BY <4>1 DEF CommandInv, CommandTypeOK
      <4>3. QED
        BY <3>2, <4>1, <4>2 DEF SendCommand, Deleted
    <3>3. CASE LockExpires
      <4>1. PICK c \in CommandIds :
              /\ commands[c] = "locked"
              /\ commands' = [commands EXCEPT ![c] = "queued"]
              /\ lock[c] = locks /\ InHand => faults' = faults + 1
        BY <3>3 DEF LockExpires, Fault
      <4>2. \A d \in CommandIds \ {c} : commands'[d] = commands[d]
        BY <4>1 DEF CommandInv, CommandTypeOK
      <4>3. QED
        BY <3>3, <4>1, <4>2 DEF LockExpires, Deleted
    <3>4. QED
      BY <1>4, <3>1, <3>2, <3>3 DEF World
  <2>2. faults' = faults => Held \subseteq Done'
    BY <1>1, <2>1 DEF Held, Done, InHand, LedgerInv
  <2>3. UNCHANGED HandedOut /\ RequestInv'
    BY <1>1, <2>1 DEF HandedOut, LedgerInv, RequestInv
  <2>4. QED
    BY <1>1, <2>1, <2>2, <2>3, LedgerKept DEF LedgerInv
<1>5. QED
  BY <1>2, <1>3, <1>4

LEMMA NextLedger ==
  ASSUME CommandInv, LedgerInv, CallTypeOK, [Next]_vars
  PROVE  LedgerInv'
BY HubAnswersLedger, HandOutLedger, ClientLedger, WorldLedger DEF Next, Hub

LEMMA InitLedger == Init => LedgerInv
<1> SUFFICES ASSUME Init PROVE LedgerInv
  OBVIOUS
<1>1. RequestInv /\ HandedOut = 0
  BY DEF Init, RequestInv, HandedOut
<1>2. /\ locks = 0 /\ faults = 0 /\ Len(executedCommands) = 0
  BY DEF Init
<1>3. QED
  BY <1>1, <1>2, DoneIsCounted DEF LedgerInv, RepetitionsPaid, LocksPaid

LEMMA InitCall == Init => CallTypeOK
<1> SUFFICES ASSUME Init PROVE CallTypeOK
  OBVIOUS
<1>1. calling = FALSE /\ executed = 0 /\ headers = {} /\ result = "none"
  BY DEF Init, CallInit
<1>2. executed \in 0..MaxExecutions /\ headers \subseteq 1..executed
  BY <1>1, ExecutionAssumption
<1>3. QED
  BY <1>1, <1>2 DEF CallTypeOK

\* The ledger balances in every reachable state.
LEMMA LedgerBalances == Spec => [](CommandInv /\ LedgerInv /\ CallTypeOK)
BY InitCall, InitCommands, NextCommands, InitLedger, NextLedger, CallTypes, PTL
DEF Spec

\* A command is executed again only after something failed, one repetition at
\* most for each failure: in every instance, however the failures are arranged.
THEOREM RepetitionsAreCaused == Spec => []RepetitionsHaveCause
<1>1. CommandInv /\ LedgerInv => RepetitionsHaveCause
  <2> SUFFICES ASSUME CommandInv, LedgerInv PROVE RepetitionsHaveCause
    OBVIOUS
  <2> DEFINE Ran == {executedCommands[i] : i \in DOMAIN executedCommands}
  <2>1. Ran \in SUBSET CommandIds /\ Deleted \subseteq Ran
    BY DEF CommandInv, CommandTypeOK, DeletedWasExecuted, Executed, Deleted
  <2>2. /\ faults \in Nat /\ Len(executedCommands) \in Nat
        /\ HandedOut \in {0, 1} /\ (HandedOut = 0 => doing # "poll" \/ statusCode # Accepted)
    BY DEF HandedOut, LedgerInv, CommandInv, CommandTypeOK
  <2>3. Cardinality(Done) <= Cardinality(Ran) + HandedOut
    <3>1. CASE HandedOut = 1
      BY <2>1, <3>1, DoneShrinks
    <3>2. CASE HandedOut = 0
      <4>1. Held \subseteq Ran
        <5> SUFFICES ASSUME NEW c \in Held PROVE c \in Ran
          OBVIOUS
        <5>1. /\ c \in CommandIds /\ lock[c] = locks
              /\ doing \in {"callback", "accept"} /\ etagValue = {locks}
          BY <2>2, <3>2 DEF Held
        <5>2. PICK l \in etagValue : NamesExecuted(l)
          BY <5>1 DEF CommandInv, EtagInv
        <5>3. Executed(c)
          BY <5>1, <5>2 DEF NamesExecuted
        <5>4. QED
          BY <5>3 DEF Executed
      <4>2. Done \in SUBSET Ran
        BY <2>1, <4>1 DEF Done
      <4>3. QED
        BY <2>1, <3>2, <4>2, DoneIsCounted, CommandSets, FS_Subset
    <3>3. QED
      BY <2>2, <3>1, <3>2
  <2>4. Cardinality(Ran) \in Nat /\ Cardinality(Done) \in Nat
    BY <2>1, CommandSets, DoneIsCounted
  <2>5. Len(executedCommands) <= faults + Cardinality(Ran)
    BY <2>2, <2>3, <2>4 DEF LedgerInv, RepetitionsPaid
  <2>6. QED
    BY <2>5 DEF RepetitionsHaveCause
<1>2. QED
  BY <1>1, LedgerBalances, PTL

-----------------------------------------------------------------------------
(* The types: the locks the hub hands out are those the ledger pays for.     *)

ClientTypeOK ==
  /\ doing \in Stages
  /\ messagePending \in BOOLEAN /\ Run_Flag \in {0, 1}
  /\ isFirstPoll \in BOOLEAN /\ pollDue \in BOOLEAN
  /\ statusCode \in {0, Accepted, NoCommand, Refused}
  /\ confirmed \in Seq(Events)
  /\ faults \in 0..MaxFaults
  /\ etagValue \subseteq 1..locks

ClientInv ==
  CallTypeOK /\ OutboxInv /\ CommandInv /\ LedgerInv /\ ClientTypeOK

LEMMA FaultTypes ==
  ASSUME ClientTypeOK, Fault \/ NoFault
  PROVE  faults' \in 0..MaxFaults
BY ClientAssumption DEF ClientTypeOK, Fault, NoFault

LEMMA HubTypes == ClientInv /\ Hub => ClientTypeOK'
<1> SUFFICES ASSUME ClientInv, Hub PROVE ClientTypeOK'
  OBVIOUS
<1>1. PICK answer \in {Accepted, NoCommand, Refused}, refusals \in {0, 1} :
        Executes(answer, refusals)
  BY DEF Hub, HubRefuses, HubTakesEvent, HubHandsOutCommand, HubHasNoCommand,
         HubDeletesCommand, HubUnlocksCommand, HubKnowsNoSuchLock
<1>2. /\ UNCHANGED <<doing, messagePending, Run_Flag, isFirstPoll, pollDue, etagValue, confirmed>>
      /\ statusCode' = answer
  BY <1>1 DEF Executes, sketchVars, clientVars, historyVars
<1>3. faults' \in 0..MaxFaults
  BY <1>1, ClientAssumption DEF Executes, ClientInv, ClientTypeOK
<1>4. locks \in Nat /\ locks' \in {locks, locks + 1}
  BY DEF Hub, HubRefuses, HubTakesEvent, HubHandsOutCommand, HubHasNoCommand,
         HubDeletesCommand, HubUnlocksCommand, HubKnowsNoSuchLock, hubVars,
         ClientInv, CommandInv, CommandTypeOK
<1>5. etagValue' \subseteq 1..locks'
  BY <1>2, <1>4 DEF ClientInv, ClientTypeOK
<1>6. QED
  BY <1>1, <1>2, <1>3, <1>5 DEF ClientInv, ClientTypeOK

LEMMA SketchTypes == ClientInv /\ (Sketch \/ Restart \/ Strand) => ClientTypeOK'
<1> SUFFICES ASSUME ClientInv, Sketch \/ Restart \/ Strand PROVE ClientTypeOK'
  OBVIOUS
<1> USE DEF sketchVars, clientVars, historyVars, hubVars
<1>1. /\ UNCHANGED <<locks, confirmed>>
      /\ Fault \/ UNCHANGED faults
      /\ doing' \in Stages /\ statusCode' \in {statusCode, 0}
      /\ etagValue' \in {etagValue, {}}
  BY SketchSteps DEF Restart, Forget, Strand, NoFault, Stages
<1>2. /\ isFirstPoll' \in {isFirstPoll, TRUE} /\ pollDue' \in {pollDue, TRUE}
      /\ Run_Flag' \in {Run_Flag, 0, 1}
      /\ messagePending' \in {messagePending, TRUE, FALSE}
  BY DEF Sketch, Wake, SendReport, Queue, AwaitReport, NextRound, Sleep, Restart,
    Forget, Strand
<1>3. faults' \in 0..MaxFaults
  BY <1>1, FaultTypes DEF ClientInv, ClientTypeOK, NoFault
<1>4. QED
  BY <1>1, <1>2, <1>3 DEF ClientInv, ClientTypeOK

LEMMA DeviceTypes ==
  ASSUME ClientInv, Client \/ IntervalPasses \/ SendCommand \/ LockExpires
                      \/ UNCHANGED vars
  PROVE  ClientTypeOK'
<1> USE DEF sketchVars, clientVars, historyVars, hubVars
<1> USE DEF Client, DoEvent, DoEventEmpty, EventSent, EventNotSent, DoMessages,
    PollNotAllowed, ReadHeader, NothingToDo, ExecuteCommand, AnswerUnusable,
    AnswerRefused, AcceptMessage, AbandonMessage, PollFails, AcceptEnds,
    IntervalPasses, SendCommand, LockExpires, vars
<1>1. ClientTypeOK /\ (Fault \/ NoFault \/ UNCHANGED faults)
  BY DEF ClientInv
<1>2. faults' \in 0..MaxFaults
  BY <1>1, FaultTypes DEF ClientTypeOK
<1>3. doing' \in Stages
  BY <1>1 DEF ClientTypeOK, Stages
<1>4. isFirstPoll' \in BOOLEAN /\ pollDue' \in BOOLEAN
  BY <1>1 DEF ClientTypeOK, PollAnswered
<1>5. statusCode' \in {0, Accepted, NoCommand, Refused}
  BY <1>1 DEF ClientTypeOK
<1>6. confirmed' \in Seq(Events)
  <2>1. CASE EventSent
    <3>1. waitingToSend \in Seq(Events) /\ waitingToSend # <<>>
      BY <2>1 DEF EventSent, ClientInv, OutboxInv
    <3>2. Head(waitingToSend) \in Events
      BY <3>1
    <3>3. QED
      BY <1>1, <2>1, <3>2 DEF EventSent, ClientTypeOK
  <2>2. CASE ~EventSent
    <3>1. UNCHANGED confirmed
      BY <2>2
    <3>2. QED
      BY <1>1, <3>1 DEF ClientTypeOK
  <2>3. QED
    BY <2>1, <2>2
<1>7. etagValue' \subseteq 1..locks'
  <2>1. UNCHANGED locks
    OBVIOUS
  <2>2. CASE ReadHeader
    <3>1. doing = "poll" /\ statusCode = Accepted => locks \in 1..locks
      BY DEF ClientInv, CommandInv, CommandTypeOK, AnswerInv
    <3>2. QED
      BY <1>1, <2>1, <2>2, <3>1 DEF ClientTypeOK
  <2>3. CASE ~ReadHeader
    <3>1. etagValue' \in {etagValue, {}}
      BY <2>3
    <3>2. QED
      BY <1>1, <2>1, <3>1 DEF ClientTypeOK
  <2>4. QED
    BY <2>2, <2>3
<1>8. Run_Flag' \in {0, 1} /\ messagePending' \in BOOLEAN
  <2>1. UNCHANGED Run_Flag
    OBVIOUS
  <2>2. messagePending' \in {messagePending, TRUE, FALSE}
    BY DEF Queue
  <2>3. QED
    BY <1>1, <2>1, <2>2 DEF ClientTypeOK
<1>9. QED
  BY <1>2, <1>3, <1>4, <1>5, <1>6, <1>7, <1>8 DEF ClientTypeOK

LEMMA InitTypes == Init => ClientTypeOK
<1> SUFFICES ASSUME Init PROVE ClientTypeOK
  OBVIOUS
<1>1. faults \in 0..MaxFaults /\ confirmed \in Seq(Events)
  BY ClientAssumption DEF Init
<1>2. QED
  BY <1>1 DEF Init, ClientTypeOK, Stages

\* Every variable keeps its type; the hub hands out MaxLocks locks at most: one
\* for each command and two for each failure.
THEOREM TypeCorrect == Spec => []TypeOK
<1>1. Init => ClientInv
  BY InitCall, InitTypes, InitOutbox, InitCommands, InitLedger DEF ClientInv
<1>2. ClientInv /\ [Next]_vars => ClientInv'
  <2> SUFFICES ASSUME ClientInv, [Next]_vars PROVE ClientInv'
    OBVIOUS
  <2>1. ClientTypeOK'
    BY HubTypes, SketchTypes, DeviceTypes DEF Next, World
  <2>2. QED
    BY <2>1, CallTypes, NextOutbox, NextCommands, NextLedger DEF ClientInv
<1>3. ClientInv => TypeOK
  <2> SUFFICES ASSUME ClientInv PROVE TypeOK
    OBVIOUS
  <2>1. /\ faults \in 0..MaxFaults /\ MaxFaults \in Nat /\ MaxCommands \in Nat
        /\ locks \in Nat /\ locks <= 2 * faults + Cardinality(Done)
        /\ Cardinality(Done) \in Nat /\ Cardinality(Done) <= MaxCommands
    BY ClientAssumption, DoneIsCounted, CommandSets
    DEF ClientInv, ClientTypeOK, CommandInv, CommandTypeOK, LedgerInv, LocksPaid
  <2>2. locks \in 0..MaxLocks
    BY <2>1 DEF MaxLocks
  <2>3. etagValue \subseteq 1..MaxLocks
    BY <2>1, <2>2 DEF ClientInv, ClientTypeOK, MaxLocks
  <2>4. lock \in [CommandIds -> 0..MaxLocks]
    BY <2>1, <2>2
    DEF ClientInv, CommandInv, CommandTypeOK, LocksInv, MaxLocks
  <2>5. QED
    BY <2>2, <2>3, <2>4
    DEF ClientInv, ClientTypeOK, OutboxInv, CommandInv, CommandTypeOK, TypeOK
<1>4. QED
  BY <1>1, <1>2, <1>3, PTL DEF Spec
=============================================================================
