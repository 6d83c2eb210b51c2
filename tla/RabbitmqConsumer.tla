-------------------------- MODULE RabbitmqConsumer --------------------------
(***************************************************************************)
(* shared/rabbitmq_client: the consumer of one queue                       *)
(* (consumer/state_machine.rs, channel_callback.rs), the tasks that        *)
(* process its deliveries and answer them (async_consumer.rs), over the    *)
(* connection task of RabbitmqConnection.                                  *)
(*                                                                         *)
(* The broker and the AMQP library are external: the broker delivers what  *)
(* is in the queue, may cancel a consumer or close a channel, and queues   *)
(* again what a channel leaves unanswered.  A cancelled consumer is taken  *)
(* to live in the library until its channel ends, as the comment in        *)
(* ProcessingTask::run says.  The queue survives its connections, like     *)
(* that of the confirmations; the answers of one channel may be handled in *)
(* any order, as each names one delivery.                                  *)
(***************************************************************************)
EXTENDS Integers, Sequences

CONSTANTS
  Messages,
  None,
  MaxConnections,   \* bound on the connections ever opened
  MaxCancels,       \* bound on the consumers the broker cancels
  MaxChannelCloses, \* bound on the channels the broker closes
  MaxRequeues       \* bound on the executions that fail for a while

ASSUME ConsumerAssumption ==
  /\ None \notin Nat \cup {"Done", "Requeue"}
  /\ {MaxConnections, MaxCancels, MaxChannelCloses, MaxRequeues} \subseteq Nat

VARIABLES
  conn_state, opened, link, connection, blocked,  \* see RabbitmqConnection
  state,               \* StateMachine::state, or "Stopped"
  status,              \* the last status the status callback was given
  connection_changed,  \* connection_rx has a value that was not looked at
  held,                \* StateMachine::connection
  channel,             \* StateMachine::channel: its number, connection, status
  consumer_cancelled,  \* whether the Notify holds a permit
  consumers,           \* consumers the broker has on the channel
  queue,               \* messages the broker may deliver
  delivered,           \* deliveries of the channel; their tags are 1, 2, ...
  unacked,             \* the tags that were not answered
  tasks,               \* ProcessingTask and the answer it leaves
  concluded,           \* history: messages whose execution asked for no retry
  cancels, closes, requeues   \* what the bounds count

connVars   == <<conn_state, opened, link, connection, blocked>>
taskVars   == <<state, status, connection_changed, held, consumer_cancelled>>
brokerVars == <<channel, consumers, queue, delivered, unacked>>
workVars   == <<tasks, concluded, requeues>>
vars == <<connVars, taskVars, brokerVars, workVars, cancels, closes>>

Connection == INSTANCE RabbitmqConnection

States    == {"Ok", "WaitingForConnection", "RecreatingChannel", "RestoringConsumer", "Stopped"}
Statuses  == {"Consuming", "Recovering"}
Responses == {"Done", "Requeue"}  \* an Ack, or a Nack for good; a Nack with requeue
Channel   == [id : Nat, on : Nat, status : {"open", "closed"}]
Task      == [channel : Nat, tag : Nat, message : Messages, response : Responses \cup {None}]

TypeOK ==
  /\ Connection!TypeOK
  /\ state \in States /\ status \in Statuses /\ connection_changed \in BOOLEAN
  /\ held \in Nat /\ consumer_cancelled \in BOOLEAN
  /\ channel \in Channel /\ consumers \in Nat
  /\ queue \in SUBSET Messages
  /\ delivered \in Seq(Messages) /\ unacked \in SUBSET (DOMAIN delivered)
  /\ tasks \in SUBSET Task /\ concluded \in SUBSET Messages
  /\ cancels \in Nat /\ closes \in Nat /\ requeues \in Nat

\* RabbitmqConsumer::new has the consumer in place before the task starts.
Init ==
  /\ Connection!Init
  /\ state = "Ok" /\ status = "Recovering" /\ connection_changed = FALSE /\ held = 1
  /\ consumer_cancelled = FALSE
  /\ channel = [id |-> 1, on |-> 1, status |-> "open"] /\ consumers = 1
  /\ queue = Messages /\ delivered = << >> /\ unacked = {}
  /\ tasks = {} /\ concluded = {}
  /\ cancels = 0 /\ closes = 0 /\ requeues = 0

\* The channel serves as long as nobody closed it and its connection works.
Works == channel.status = "open" /\ channel.on = opened /\ link = "up"

\* What the broker queues again when the channel ends.
Unanswered == {delivered[t] : t \in unacked}

-----------------------------------------------------------------------------
(* StateMachine *)

\* ok_state tells the status at its start and at its end, in between it waits.
TellStatus ==
  /\ \/ state = "Ok" /\ status = "Recovering" /\ status' = "Consuming"
     \/ state \in {"WaitingForConnection", "RestoringConsumer"} /\ status = "Consuming"
        /\ status' = "Recovering"
  /\ UNCHANGED <<connVars, state, connection_changed, held, consumer_cancelled, brokerVars,
                 workVars, cancels, closes>>

Listens == \/ state = "Ok" /\ status = "Consuming"
           \/ state \in {"RecreatingChannel", "RestoringConsumer"} /\ status = "Recovering"

\* Mutant: only the loss of the connection counts as a change.  The receiver
\* sees the last value alone, so a quick replacement goes unnoticed.
ConnectionChanged_OnlyLost ==
  /\ Listens /\ connection_changed
  /\ connection_changed' = FALSE
  /\ state' = IF connection = None THEN "WaitingForConnection" ELSE state
  /\ UNCHANGED <<connVars, status, held, consumer_cancelled, brokerVars, workVars, cancels,
                 closes>>

\* connection_rx.changed() comes first in the select! of these three states.
ConnectionChanged ==
  /\ Listens /\ connection_changed
  /\ connection_changed' = FALSE
  /\ state' = "WaitingForConnection"
  /\ UNCHANGED <<connVars, status, held, consumer_cancelled, brokerVars, workVars, cancels,
                 closes>>

ConsumerCancelled ==
  /\ state = "Ok" /\ status = "Consuming" /\ ~connection_changed
  /\ consumer_cancelled
  /\ consumer_cancelled' = FALSE
  /\ state' = "RestoringConsumer"
  /\ UNCHANGED <<connVars, status, connection_changed, held, brokerVars, workVars, cancels,
                 closes>>

\* Mutant: takes what the watch holds without looking whether it is Some.
WaitingForConnection_Unchecked ==
  /\ state = "WaitingForConnection" /\ status = "Recovering"
  /\ held' = connection
  /\ connection_changed' = FALSE
  /\ state' = "RecreatingChannel"
  /\ UNCHANGED <<connVars, status, consumer_cancelled, brokerVars, workVars, cancels, closes>>

WaitingForConnection ==
  /\ state = "WaitingForConnection" /\ status = "Recovering" /\ connection # None
  /\ held' = connection
  /\ connection_changed' = FALSE
  /\ state' = "RecreatingChannel"
  /\ UNCHANGED <<connVars, status, consumer_cancelled, brokerVars, workVars, cancels, closes>>

\* Mutant: the Notify of the previous channel stays in use.
RecreatingChannel_KeepsNotify ==
  /\ state = "RecreatingChannel" /\ ~connection_changed
  /\ held = opened /\ link = "up"
  /\ queue' = queue \cup Unanswered /\ unacked' = {} /\ delivered' = << >>
  /\ channel' = [id |-> channel.id + 1, on |-> held, status |-> "open"]
  /\ consumers' = 0
  /\ state' = "RestoringConsumer"
  /\ UNCHANGED <<connVars, status, connection_changed, held, consumer_cancelled, workVars,
                 cancels, closes>>

\* Closes the old channel, then the attempt to open one that succeeds, with a
\* Notify and a callback of its own, which is registered in the same step.
RecreatingChannel ==
  /\ state = "RecreatingChannel" /\ ~connection_changed
  /\ held = opened /\ link = "up"
  /\ queue' = queue \cup Unanswered /\ unacked' = {} /\ delivered' = << >>
  /\ channel' = [id |-> channel.id + 1, on |-> held, status |-> "open"]
  /\ consumers' = 0
  /\ consumer_cancelled' = FALSE
  /\ state' = "RestoringConsumer"
  /\ UNCHANGED <<connVars, status, connection_changed, held, workVars, cancels, closes>>

\* Declares exchange, queue and bindings, and consumes.
RestoringConsumer ==
  /\ state = "RestoringConsumer" /\ status = "Recovering" /\ ~connection_changed
  /\ IF Works THEN state' = "Ok" /\ consumers' = consumers + 1
              ELSE state' = "RecreatingChannel" /\ UNCHANGED consumers
  /\ UNCHANGED <<connVars, status, connection_changed, held, consumer_cancelled, channel,
                 queue, delivered, unacked, workVars, cancels, closes>>

\* RabbitmqConsumer::close: whatever the task was doing is dropped.
Stop ==
  /\ state # "Stopped"
  /\ state' = "Stopped"
  /\ channel' = [channel EXCEPT !.status = "closed"] /\ consumers' = 0
  /\ queue' = queue \cup Unanswered /\ unacked' = {}
  /\ UNCHANGED <<connVars, status, connection_changed, held, consumer_cancelled, delivered,
                 workVars, cancels, closes>>

-----------------------------------------------------------------------------
(* AsyncConsumer, ProcessingTask, ResponseTask *)

\* A delivery arrives and consume spawns its task.
Consume(m) ==
  LET tag == Len(delivered) + 1
  IN /\ Works /\ consumers > 0 /\ m \in queue
     /\ queue' = queue \ {m}
     /\ delivered' = Append(delivered, m)
     /\ unacked' = unacked \cup {tag}
     /\ tasks' = tasks \cup
          {[channel |-> channel.id, tag |-> tag, message |-> m, response |-> None]}
     /\ UNCHANGED <<connVars, taskVars, channel, consumers, concluded, requeues, cancels,
                    closes>>

\* DeliveryCallback::execute ends: done, refused for good, or to be retried.
Process(t, r) ==
  /\ t \in tasks /\ t.response = None
  /\ r = "Requeue" => requeues < MaxRequeues
  /\ tasks' = (tasks \ {t}) \cup {[t EXCEPT !.response = r]}
  /\ IF r = "Requeue"
     THEN requeues' = requeues + 1 /\ UNCHANGED concluded
     ELSE concluded' = concluded \cup {t.message} /\ UNCHANGED requeues
  /\ UNCHANGED <<connVars, taskVars, brokerVars, cancels, closes>>

\* Mutant: answers go to the channel of the day.
Respond_CurrentChannel(t) ==
  /\ t \in tasks /\ t.response # None
  /\ tasks' = tasks \ {t}
  /\ IF Works /\ t.tag \in unacked
     THEN /\ unacked' = unacked \ {t.tag}
          /\ queue' = IF t.response = "Requeue" THEN queue \cup {t.message} ELSE queue
     ELSE UNCHANGED <<unacked, queue>>
  /\ UNCHANGED <<connVars, taskVars, channel, consumers, delivered, concluded, requeues,
                 cancels, closes>>

\* The response task answers on the channel of the delivery; when that is gone
\* the answer is dropped.
Respond(t) ==
  /\ t \in tasks /\ t.response # None
  /\ tasks' = tasks \ {t}
  /\ IF Works /\ t.channel = channel.id
     THEN /\ unacked' = unacked \ {t.tag}
          /\ queue' = IF t.response = "Requeue" THEN queue \cup {t.message} ELSE queue
     ELSE UNCHANGED <<unacked, queue>>
  /\ UNCHANGED <<connVars, taskVars, channel, consumers, delivered, concluded, requeues,
                 cancels, closes>>

-----------------------------------------------------------------------------
(* The broker, and the library that calls the callback *)

\* Mutant: notify_waiters, which leaves no permit when nobody waits.
Cancel_NotifyWaiters ==
  /\ Works /\ consumers > 0 /\ cancels < MaxCancels
  /\ consumers' = 0
  /\ consumer_cancelled' = (state = "Ok" /\ status = "Consuming")
  /\ cancels' = cancels + 1
  /\ UNCHANGED <<connVars, state, status, connection_changed, held, channel, queue, delivered,
                 unacked, workVars, closes>>

\* basic.cancel from the broker; notify_one leaves a permit.
Cancel ==
  /\ Works /\ consumers > 0 /\ cancels < MaxCancels
  /\ consumers' = 0
  /\ consumer_cancelled' = TRUE
  /\ cancels' = cancels + 1
  /\ UNCHANGED <<connVars, state, status, connection_changed, held, channel, queue, delivered,
                 unacked, workVars, closes>>

\* channel.close from the broker; the callback only logs it.
CloseChannel ==
  /\ Works /\ closes < MaxChannelCloses
  /\ channel' = [channel EXCEPT !.status = "closed"]
  /\ consumers' = 0
  /\ queue' = queue \cup Unanswered /\ unacked' = {}
  /\ closes' = closes + 1
  /\ UNCHANGED <<connVars, taskVars, delivered, workVars, cancels>>

\* A step of the connection; the application closes it after the consumer.
ConnectionStep ==
  /\ \/ Connection!Fail \/ Connection!Step
     \/ state = "Stopped" /\ Connection!Stop
  /\ connection_changed' = (connection_changed \/ Connection!Told)
  /\ UNCHANGED <<state, status, held, consumer_cancelled, brokerVars, workVars, cancels,
                 closes>>

Machine ==
  \/ TellStatus \/ ConnectionChanged \/ ConsumerCancelled
  \/ WaitingForConnection \/ RecreatingChannel \/ RestoringConsumer

Next ==
  \/ Machine \/ Stop
  \/ \E m \in Messages : Consume(m)
  \/ \E t \in tasks : Respond(t) \/ \E r \in Responses : Process(t, r)
  \/ Cancel \/ CloseChannel \/ ConnectionStep

Spec == Init /\ [][Next]_vars

\* The tasks are scheduled, executions end, the network comes back, and the
\* broker delivers what it may.
Fairness ==
  /\ WF_vars(Machine)
  /\ WF_vars(Connection!Step /\ ConnectionStep)
  /\ \A m \in Messages : WF_vars(Consume(m))
  /\ WF_vars(\E t \in tasks : Process(t, "Done"))
  /\ WF_vars(\E t \in tasks : Respond(t))

FairSpec == Spec /\ Fairness
-----------------------------------------------------------------------------
(* Properties *)

\* A message leaves the broker only when an execution concluded it: an answer
\* that outlives its channel does not acknowledge another delivery.
NothingLost == Messages \subseteq queue \cup Unanswered \cup concluded

\* As long as the channel works, every delivery that waits for an answer has a
\* task that will give it.
NoneForgotten ==
  Works => \A tag \in unacked :
             \E t \in tasks : /\ t.channel = channel.id /\ t.tag = tag
                              /\ t.message = delivered[tag]

\* A delivery is concluded, queued again or about to be answered, and its answer
\* goes to it alone, though tasks outlive their channels.
AnsweredOrKept == NothingLost /\ NoneForgotten

\* The queue is never consumed twice on a channel: a cancellation that was
\* overtaken by a lost connection is not acted on after the reconnection.
OneConsumer == consumers <= 1

\* When clients are told that the network is fine, the broker has the consumer,
\* or the task has been told otherwise and will act on it; or the broker closed
\* the channel.
ConsumingIsTrue ==
  state = "Ok" /\ status = "Consuming" =>
    \/ Works /\ consumers = 1
    \/ connection_changed \/ consumer_cancelled
    \/ link = "down" \/ channel.status = "closed"

\* Seen by who is told the status: the consumer is never replaced before the clients were
\* told that it was lost, nor are they told that it was lost when it was not, however
\* connections, channels and cancellations follow each other.
Promise == INSTANCE Subscription WITH
  bound  <- Works /\ consumers > 0,
  status <- IF state = "Ok" /\ status = "Recovering" THEN "Restored" ELSE status

SubscriptionSpec == Promise!Spec

\* A channel the broker closed while the task waits in Ok: nothing wakes it.
Unnoticed == channel.status = "closed" /\ state = "Ok"

\* state_machine.rs: "Infinite loop that keeps consumer alive".  Every message
\* is processed unless the consumer is closed first, whatever fails, is cancelled
\* or has to be retried; only a closed channel that is never noticed, because the
\* connection stays, can prevent it.
EventuallyConcluded ==
  \A m \in Messages : <>[]Unnoticed \/ <>(m \in concluded \/ state = "Stopped")

-----------------------------------------------------------------------------
(* What documentation says and the code does not do *)

\* README.md: "can detect issues related to RabbitMQ connection. Whenever they
\* happen all connected users are informed": consumption that ended is reported.
IssuesDetected ==
  channel.status = "closed" ~> status = "Recovering" \/ state = "Stopped"
=============================================================================
