-------------------------- MODULE RabbitmqProducer --------------------------
(***************************************************************************)
(* shared/rabbitmq_client: the producer of persistent messages with        *)
(* publisher confirms (producer/state_machine.rs, channel_callback.rs),    *)
(* over the connection task of RabbitmqConnection.                         *)
(*                                                                         *)
(* The broker and the AMQP library are external: the broker takes the      *)
(* publishes of a channel in order, acks or nacks each, singly or many at  *)
(* once, and may close the channel; the library hands its confirms to the  *)
(* callback in the order of arrival.  What it has received of a channel is *)
(* taken to reach the callback before the channel is seen closed, and what *)
(* it has received of a connection before the next connection is opened.   *)
(***************************************************************************)
EXTENDS Integers, Sequences, SequencesExt

CONSTANTS
  Messages,         \* what send is called with, each once
  None,
  MaxConnections,   \* bound on the connections ever opened
  MaxThrottles,     \* bound on how often the broker blocks or stops the flow
  MaxChannelCloses, \* bound on the channels the broker closes
  MaxNacks          \* bound on the publishes the broker refuses

ASSUME ProducerAssumption ==
  /\ None \notin Nat
  /\ {MaxConnections, MaxThrottles, MaxChannelCloses, MaxNacks} \subseteq Nat

VARIABLES
  conn_state, opened, link, connection, blocked,  \* see RabbitmqConnection
  state,               \* StateMachine::state, or "Stopped"
  connection_changed,  \* connection_rx has a value that was not looked at
  held,                \* StateMachine::connection
  channel,             \* StateMachine::channel: its connection, its status
  pending,             \* messages_tx and messages_rx, an unbounded queue
  unconfirmed,         \* unconfirmed_messages: <<message_count, message>>
  message_count,
  confirms,            \* confirms_tx and confirms_rx, an unbounded queue
  flow,                \* the value in flow_tx
  log,                 \* publishes the broker receives on the channel, in order
  outcome,             \* what the broker decided for a prefix of them
  settled,             \* the tags of that prefix it has told of
  stored,              \* messages in the broker's queues
  sent,                \* messages given to send
  throttles, closes, nacks   \* what the bounds count

connVars   == <<conn_state, opened, link, connection, blocked>>
taskVars   == <<state, connection_changed, held>>
queues     == <<pending, unconfirmed, message_count, confirms>>
brokerVars == <<log, outcome, settled, stored, closes, nacks>>
vars == <<connVars, taskVars, queues, brokerVars, channel, flow, sent, throttles>>

Connection == INSTANCE RabbitmqConnection

States   == {"Ok", "WaitingForConnection", "ProcessingPendingConfirmations",
             "RecreatingChannel", "RestoringProducer", "Stopped"}
Variants == {"Ack", "Nack"}
Confirm  == [delivery_tag : Nat, multiple : BOOLEAN, variant : Variants]

\* "closing": the broker closed it and this side does not know yet.
Channel == [on : Nat, status : {"open", "closing", "closed"}]

TypeOK ==
  /\ Connection!TypeOK
  /\ state \in States /\ connection_changed \in BOOLEAN /\ held \in Nat
  /\ channel \in Channel
  /\ pending \in Seq(Messages)
  /\ unconfirmed \in Seq(Nat \X Messages)
  /\ message_count \in Nat
  /\ confirms \in Seq(Confirm)
  /\ flow \in BOOLEAN
  /\ log \in Seq(Messages) /\ outcome \in Seq(Variants) /\ settled \in SUBSET Nat
  /\ stored \in SUBSET Messages /\ sent \in SUBSET Messages
  /\ throttles \in Nat /\ closes \in Nat /\ nacks \in Nat

\* RabbitmqProducer::new
Init ==
  /\ Connection!Init
  /\ state = "Ok" /\ connection_changed = FALSE /\ held = 1
  /\ channel = [on |-> 1, status |-> "open"]
  /\ pending = << >> /\ unconfirmed = << >> /\ message_count = 0 /\ confirms = << >>
  /\ flow = TRUE
  /\ log = << >> /\ outcome = << >> /\ settled = {} /\ stored = {}
  /\ sent = {}
  /\ throttles = 0 /\ closes = 0 /\ nacks = 0

-----------------------------------------------------------------------------
(* RabbitmqProducer *)

Send(m) ==
  /\ state # "Stopped" /\ m \notin sent
  /\ sent' = sent \cup {m}
  /\ pending' = Append(pending, m)
  /\ UNCHANGED <<connVars, taskVars, unconfirmed, message_count, confirms, brokerVars,
                 channel, flow, throttles>>

\* close: the task ends and its queues are dropped with it.
Stop ==
  /\ state # "Stopped"
  /\ state' = "Stopped"
  /\ UNCHANGED <<connVars, connection_changed, held, queues, brokerVars, channel, flow,
                 sent, throttles>>

-----------------------------------------------------------------------------
(* StateMachine *)

\* The channel serves as long as neither side closed it and its connection works.
Works == channel.status = "open" /\ channel.on = opened /\ link = "up"

\* Mutant: only the loss of the connection counts as a change.  The receiver
\* sees the last value alone, so a quick replacement goes unnoticed.
ConnectionChanged_OnlyLost ==
  /\ state \in {"Ok", "RecreatingChannel", "RestoringProducer"} /\ connection_changed
  /\ connection_changed' = FALSE
  /\ state' = IF connection = None THEN "WaitingForConnection" ELSE state
  /\ UNCHANGED <<connVars, held, queues, brokerVars, channel, flow, sent, throttles>>

\* connection_rx.changed() comes first in the select! of these three states.
ConnectionChanged ==
  /\ state \in {"Ok", "RecreatingChannel", "RestoringProducer"} /\ connection_changed
  /\ connection_changed' = FALSE
  /\ state' = "WaitingForConnection"
  /\ UNCHANGED <<connVars, held, queues, brokerVars, channel, flow, sent, throttles>>

\* Mutant: takes what the watch holds without looking whether it is Some.
WaitingForConnection_Unchecked ==
  /\ state = "WaitingForConnection"
  /\ held' = connection
  /\ connection_changed' = FALSE
  /\ state' = "ProcessingPendingConfirmations"
  /\ UNCHANGED <<connVars, queues, brokerVars, channel, flow, sent, throttles>>

WaitingForConnection ==
  /\ state = "WaitingForConnection" /\ connection # None
  /\ held' = connection
  /\ connection_changed' = FALSE
  /\ state' = "ProcessingPendingConfirmations"
  /\ UNCHANGED <<connVars, queues, brokerVars, channel, flow, sent, throttles>>

\* Mutant: a multiple confirm takes every message that waits.
Covered_Beyond(c) ==
  {k \in DOMAIN unconfirmed :
     IF c.multiple THEN k = 1 ELSE unconfirmed[k][1] = c.delivery_tag}

\* The entry process_confirm removes next, if any: a multiple confirm looks at
\* the front of the queue again and again.
Covered(c) ==
  {k \in DOMAIN unconfirmed :
     IF c.multiple THEN k = 1 /\ unconfirmed[k][1] <= c.delivery_tag
                   ELSE unconfirmed[k][1] = c.delivery_tag}

\* process_confirm, in Ok or for what is left when the channel is given up; a
\* message that is refused goes back to the queue others send to.
ProcessConfirm ==
  /\ \/ state = "Ok" /\ ~connection_changed
     \/ state = "ProcessingPendingConfirmations"
  /\ confirms # << >>
  /\ LET c == Head(confirms)
     IN  /\ IF Covered(c) = {} THEN UNCHANGED <<unconfirmed, pending>>
            ELSE \E k \in Covered(c) :
                   /\ unconfirmed' = RemoveAt(unconfirmed, k)
                   /\ pending' = IF c.variant = "Ack" THEN pending
                                 ELSE Append(pending, unconfirmed[k][2])
         /\ confirms' = IF c.multiple /\ Covered(c) # {} THEN confirms ELSE Tail(confirms)
  /\ UNCHANGED <<connVars, taskVars, message_count, brokerVars, channel, flow, sent,
                 throttles>>

\* The branch of messages_rx is the last one of the select!: nothing else is ready.
CanPublish ==
  /\ state = "Ok" /\ ~connection_changed /\ confirms = << >>
  /\ pending # << >> /\ flow /\ ~blocked

\* basic_publish returned Ok; the broker receives the message if the channel works.
Publish ==
  /\ CanPublish /\ channel.status # "closed"
  /\ message_count' = message_count + 1
  /\ unconfirmed' = Append(unconfirmed, <<message_count + 1, Head(pending)>>)
  /\ pending' = Tail(pending)
  /\ log' = IF Works THEN Append(log, Head(pending)) ELSE log
  /\ UNCHANGED <<connVars, taskVars, confirms, outcome, settled, stored, closes, nacks,
                 channel, flow, sent, throttles>>

\* Mutant: a message that could not be published is not put back.
PublishFails_Dropped ==
  /\ CanPublish /\ (channel.status = "closed" \/ link = "down")
  /\ message_count' = message_count + 1
  /\ pending' = Tail(pending)
  /\ state' = "ProcessingPendingConfirmations"
  /\ UNCHANGED <<connVars, connection_changed, held, unconfirmed, confirms, brokerVars,
                 channel, flow, sent, throttles>>

PublishFails ==
  /\ CanPublish /\ (channel.status = "closed" \/ link = "down")
  /\ message_count' = message_count + 1
  /\ pending' = Append(Tail(pending), Head(pending))
  /\ state' = "ProcessingPendingConfirmations"
  /\ UNCHANGED <<connVars, connection_changed, held, unconfirmed, confirms, brokerVars,
                 channel, flow, sent, throttles>>

\* Every message still unconfirmed goes back to the queue, one by one.
RequeueUnconfirmed ==
  /\ state = "ProcessingPendingConfirmations" /\ confirms = << >> /\ unconfirmed # << >>
  /\ pending' = Append(pending, Head(unconfirmed)[2])
  /\ unconfirmed' = Tail(unconfirmed)
  /\ UNCHANGED <<connVars, taskVars, message_count, confirms, brokerVars, channel, flow,
                 sent, throttles>>

PendingProcessed ==
  /\ state = "ProcessingPendingConfirmations" /\ confirms = << >> /\ unconfirmed = << >>
  /\ state' = "RecreatingChannel"
  /\ UNCHANGED <<connVars, connection_changed, held, queues, brokerVars, channel, flow,
                 sent, throttles>>

\* The attempt to open a channel that succeeds.  That its callback is registered belongs to
\* the step: attempts to register repeat until one succeeds or the connection is lost.
RecreatingChannel ==
  /\ state = "RecreatingChannel" /\ ~connection_changed
  /\ held = opened /\ link = "up"
  /\ channel' = [on |-> held, status |-> "open"]
  /\ flow' = TRUE
  /\ state' = "RestoringProducer"
  /\ log' = << >> /\ outcome' = << >> /\ settled' = {}
  /\ UNCHANGED <<connVars, connection_changed, held, queues, stored, closes, nacks, sent,
                 throttles>>

\* Mutant: the counter goes on where the previous channel stopped.
RestoringProducer_NoReset ==
  /\ state = "RestoringProducer" /\ ~connection_changed
  /\ state' = IF Works THEN "Ok" ELSE "RecreatingChannel"
  /\ UNCHANGED <<connVars, connection_changed, held, queues, brokerVars, channel, flow,
                 sent, throttles>>

\* Declaring the exchange and enabling confirms; ok_state starts the counter.
RestoringProducer ==
  /\ state = "RestoringProducer" /\ ~connection_changed
  /\ IF Works THEN state' = "Ok" /\ message_count' = 0
              ELSE state' = "RecreatingChannel" /\ UNCHANGED message_count
  /\ UNCHANGED <<connVars, connection_changed, held, pending, unconfirmed, confirms,
                 brokerVars, channel, flow, sent, throttles>>

-----------------------------------------------------------------------------
(* The broker, and the library that calls the callback *)

\* What was received of the channel can be handed over until it is seen closed
\* or another connection is open.
Listening == channel.status # "closed" /\ channel.on = opened /\ state # "Stopped"

\* The broker takes the next publish, or refuses it.
Decide(v) ==
  /\ Listening /\ channel.status = "open" /\ Len(outcome) < Len(log)
  /\ v = "Nack" => nacks < MaxNacks
  /\ outcome' = Append(outcome, v)
  /\ stored' = IF v = "Ack" THEN stored \cup {log[Len(outcome) + 1]} ELSE stored
  /\ nacks' = IF v = "Nack" THEN nacks + 1 ELSE nacks
  /\ UNCHANGED <<connVars, taskVars, queues, log, settled, closes, channel, flow, sent,
                 throttles>>

\* publish_ack and publish_nack: one tag, or all up to it that are not settled.
PublisherConfirm(tag, multiple) ==
  LET tags == IF multiple THEN (1 .. tag) \ settled ELSE {tag}
  IN /\ Listening /\ tag \in DOMAIN outcome \ settled
     /\ \A t \in tags : outcome[t] = outcome[tag]
     /\ confirms' = Append(confirms, [delivery_tag |-> tag, multiple |-> multiple,
                                      variant |-> outcome[tag]])
     /\ settled' = settled \cup tags
     /\ UNCHANGED <<connVars, taskVars, pending, unconfirmed, message_count, log, outcome,
                    stored, closes, nacks, channel, flow, sent, throttles>>

\* channel.flow
Flow(active) ==
  /\ Works /\ state # "Stopped" /\ flow # active
  /\ active \/ throttles < MaxThrottles
  /\ flow' = active
  /\ throttles' = IF active THEN throttles ELSE throttles + 1
  /\ UNCHANGED <<connVars, taskVars, queues, brokerVars, channel, sent>>

\* channel.close from the broker; the callback only logs it, and the library
\* refuses to publish once it has seen it.
CloseChannel ==
  /\ Works /\ closes < MaxChannelCloses
  /\ channel' = [channel EXCEPT !.status = "closing"]
  /\ closes' = closes + 1
  /\ UNCHANGED <<connVars, taskVars, queues, log, outcome, settled, stored, nacks, flow,
                 sent, throttles>>

SeeClosed ==
  /\ channel.status = "closing"
  /\ channel' = [channel EXCEPT !.status = "closed"]
  /\ UNCHANGED <<connVars, taskVars, queues, brokerVars, flow, sent, throttles>>

\* A step of the connection; the application closes it after the producer.
ConnectionStep ==
  /\ \/ Connection!Fail
     \/ Connection!Step
     \/ \E b \in BOOLEAN : (b => throttles < MaxThrottles) /\ Connection!Block(b)
     \/ state = "Stopped" /\ Connection!Stop
  /\ connection_changed' = (connection_changed \/ Connection!Told)
  /\ throttles' = IF blocked' /\ ~blocked THEN throttles + 1 ELSE throttles
  /\ UNCHANGED <<state, held, queues, brokerVars, channel, flow, sent>>

Task ==
  \/ ConnectionChanged \/ WaitingForConnection
  \/ ProcessConfirm \/ Publish \/ PublishFails
  \/ RequeueUnconfirmed \/ PendingProcessed
  \/ RecreatingChannel \/ RestoringProducer

Broker ==
  \/ \E v \in Variants : Decide(v)
  \/ \E tag \in DOMAIN outcome, multiple \in BOOLEAN : PublisherConfirm(tag, multiple)
  \/ \E active \in BOOLEAN : Flow(active)
  \/ CloseChannel \/ SeeClosed

Next ==
  \/ \E m \in Messages : Send(m)
  \/ Stop \/ Task \/ Broker \/ ConnectionStep

Spec == Init /\ [][Next]_vars

\* Both tasks are scheduled; the network comes back, and the broker decides
\* every publish, tells of it, and lifts what it throttles.
Fairness ==
  /\ WF_vars(Task)
  /\ WF_vars(Connection!Step /\ ConnectionStep)
  /\ WF_vars(Decide("Ack"))
  /\ WF_vars(\E tag \in DOMAIN outcome : PublisherConfirm(tag, FALSE))
  /\ WF_vars(Flow(TRUE))
  /\ WF_vars(Connection!Block(FALSE) /\ ConnectionStep)
  /\ WF_vars(SeeClosed)

FairSpec == Spec /\ Fairness
-----------------------------------------------------------------------------
(* Properties *)

InHand == ToSet(pending) \cup {unconfirmed[k][2] : k \in DOMAIN unconfirmed}

\* A message given to send is in one of the queues or with the broker, whatever
\* connections, channels and publishes fail and however confirms arrive.
NothingLost == state # "Stopped" => sent \subseteq InHand \cup stored

\* The counter is the delivery tag the broker gives the next publish, and each
\* unconfirmed message waits for the confirm of its own publish.
TagsAgree ==
  /\ state = "Ok" /\ Works => message_count = Len(log)
  /\ \A k \in DOMAIN unconfirmed :
       unconfirmed[k][1] \in DOMAIN log => log[unconfirmed[k][1]] = unconfirmed[k][2]

\* A message is never queued twice by the producer itself: it is not requeued
\* both for a nack and for a lost channel.
QueuedOnce ==
  /\ \A j, k \in DOMAIN pending : pending[j] = pending[k] => j = k
  /\ \A j, k \in DOMAIN unconfirmed : unconfirmed[j][2] = unconfirmed[k][2] => j = k
  /\ \A k \in DOMAIN unconfirmed : unconfirmed[k][2] \notin ToSet(pending)

\* Whatever fails between its send and its confirm, a message is in hand or
\* stored, and in hand only once.
KeptOnce == NothingLost /\ QueuedOnce

\* A task that holds another connection than the one handed out has been told
\* so and will act on it: no failure leaves it on a connection that is gone.
HeldIsCurrent ==
  state \notin {"WaitingForConnection", "Stopped"} /\ held # connection =>
    connection_changed

\* The connection handed out is never one that another has replaced.
ConnectionNeverStale == Connection!NeverStale

\* No failure, however many of them a task sleeps through, leaves the task or
\* the holder on a connection that is gone.
OnCurrentConnection == HeldIsCurrent /\ ConnectionNeverStale

Reliable == INSTANCE AtLeastOnce
              WITH waiting <- IF state = "Stopped" THEN {} ELSE InHand \ stored,
                   closed  <- state = "Stopped"

\* The producer implements AtLeastOnce: what leaves its hands was stored.
ReliableSpec == Reliable!Spec

\* A channel the broker closed while the task was idle: the library knows, the
\* task does not.
Unnoticed == channel.status = "closed" /\ state = "Ok"

\* Every message is stored unless the producer is closed first, whatever fails,
\* is throttled or refused; only a closed channel that is never noticed, because
\* nothing else is published and the connection stays, can prevent it.
EventuallyStored ==
  \A m \in Messages :
    <>[]Unnoticed \/ (m \in sent ~> m \in stored \/ state = "Stopped")
=============================================================================
