------------------------------- MODULE Outbox -------------------------------
(***************************************************************************)
(* What the hub client promises the sketch for the messages it queues: they *)
(* reach the hub in the order in which they were queued, each as often as   *)
(* it takes but none out of turn; a message is confirmed once, after it has *)
(* reached the hub; and only a sleep or a restart, which empty RAM, lose one.*)
(***************************************************************************)
EXTENDS Naturals, Sequences

CONSTANT Events   \* the messages, numbered in the order they are queued

VARIABLES pending, received, confirmed

outboxVars == <<pending, received, confirmed>>

OutboxInit == pending = <<>> /\ received = <<>> /\ confirmed = <<>>

Submit == \E e \in Events :
  /\ pending' = Append(pending, e)
  /\ UNCHANGED <<received, confirmed>>

Deliver ==
  /\ pending # <<>>
  /\ received' = Append(received, Head(pending))
  /\ UNCHANGED <<pending, confirmed>>

Confirm ==
  /\ pending # <<>> /\ received # <<>>
  /\ received[Len(received)] = Head(pending)
  /\ confirmed' = Append(confirmed, Head(pending))
  /\ pending' = Tail(pending)
  /\ UNCHANGED received

Lose == pending' = <<>> /\ UNCHANGED <<received, confirmed>>

OutboxNext == Submit \/ Deliver \/ Confirm \/ Lose

OutboxSpec == OutboxInit /\ [][OutboxNext]_outboxVars
=============================================================================
