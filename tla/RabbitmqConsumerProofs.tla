----------------------- MODULE RabbitmqConsumerProofs -----------------------
(***************************************************************************)
(* The consumer, for any number of messages, connections, cancellations,   *)
(* closed channels and retries: no message is lost and no delivery         *)
(* forgotten, the queue has one consumer at most, and the clients are told *)
(* that the network is fine only if the consumer is there or the task will *)
(* act.  To the clients it is a Subscription: no loss goes untold.         *)
(*                                                                         *)
(* That an answer acknowledges its own delivery needs that a task of the   *)
(* present channel carries the tag the broker gave it; that nobody wakes   *)
(* on an old permit needs that a permit means that the consumer is gone;   *)
(* that Ok means consuming needs that a task which holds another connection*)
(* than the one handed out was told so.                                    *)
(***************************************************************************)
EXTENDS RabbitmqConsumer, TLAPS

-----------------------------------------------------------------------------
(* The inductive invariant *)

\* A connection is replaced only when it failed, and older ones stay dead.
ConnectionInv ==
  /\ Connection!NeverStale
  /\ conn_state \in {"ClosingConnection", "RestoringConnection"} => link = "down"
  /\ channel.on <= opened

\* A task of the present channel answers the delivery it was spawned for.
TasksMatch ==
  \A t \in tasks :
    /\ t.channel <= channel.id
    /\ t.channel = channel.id => t.tag \in DOMAIN delivered /\ delivered[t.tag] = t.message
    /\ t.response = "Done" => t.message \in concluded

\* A permit of the Notify means that the consumer is gone, and so does the
\* state that creates one.
PermitMeansGone ==
  /\ consumer_cancelled => consumers = 0
  /\ state = "RestoringConsumer" => consumers = 0 /\ ~consumer_cancelled

\* No replacement of the connection goes unnoticed.
HeldIsCurrent ==
  state \notin {"WaitingForConnection", "Stopped"} /\ held # connection => connection_changed

OkHasConsumer ==
  /\ state \in {"Ok", "RestoringConsumer"} => channel.on = held
  /\ state = "Ok" => consumers = 1 \/ consumer_cancelled \/ channel.status = "closed"

\* The parts about the channel, the consumer and what the task holds.
Control == ConnectionInv /\ OneConsumer /\ PermitMeansGone /\ HeldIsCurrent /\ OkHasConsumer

\* The parts about deliveries.
Work == TasksMatch /\ NothingLost /\ NoneForgotten

\* What every step of the consumer, the broker and the connection preserves.
IInv == TypeOK /\ Control /\ Work

-----------------------------------------------------------------------------
(* The connection *)

LEMMA ConnectionTypes ==
  ASSUME Connection!TypeOK, ConnectionStep
  PROVE  Connection!TypeOK'
<1>1. \/ Connection!Fail \/ Connection!NoticeFailure \/ Connection!ClosingConnection
      \/ Connection!RestoringConnection \/ Connection!RestoringCallback \/ Connection!Stop
  BY DEF ConnectionStep, Connection!Step
<1> USE DEF Connection!TypeOK, Connection!ConnStates
<1>2. CASE Connection!Fail
  BY <1>2 DEF Connection!Fail
<1>3. CASE Connection!NoticeFailure
  BY <1>3 DEF Connection!NoticeFailure
<1>4. CASE Connection!ClosingConnection
  BY <1>4 DEF Connection!ClosingConnection
<1>5. CASE Connection!RestoringConnection
  <2>1. opened' \in Nat \ {0}
    BY <1>5 DEF Connection!RestoringConnection
  <2> QED  BY <1>5, <2>1 DEF Connection!RestoringConnection
<1>6. CASE Connection!RestoringCallback
  BY <1>6 DEF Connection!RestoringCallback
<1>7. CASE Connection!Stop
  BY <1>7 DEF Connection!Stop
<1> QED  BY <1>1, <1>2, <1>3, <1>4, <1>5, <1>6, <1>7

\* A step of the connection: another connection is opened only when the last one
\* failed, and whoever holds one is told when it is taken away or replaced.
LEMMA ConnectionMoves ==
  ASSUME TypeOK, ConnectionInv, ConnectionStep
  PROVE  /\ ConnectionInv'
         /\ Works' => Works
         /\ connection' # connection => connection_changed'
         /\ connection_changed => connection_changed'
<1> USE DEF ConnectionStep, Connection!TypeOK, Connection!Fail, Connection!Step,
       Connection!NoticeFailure, Connection!ClosingConnection,
       Connection!RestoringConnection, Connection!RestoringCallback, Connection!Stop,
       Connection!Told, TypeOK, Channel, brokerVars
<1>1. ConnectionInv'
  BY ConsumerAssumption DEF ConnectionInv, Connection!NeverStale
<1>2. Works' => Works
  BY DEF Works, ConnectionInv
<1>3. /\ connection' # connection => connection_changed'
      /\ connection_changed => connection_changed'
  OBVIOUS
<1> QED  BY <1>1, <1>2, <1>3

-----------------------------------------------------------------------------
(* Type correctness *)

LEMMA TypeOKInit == Init => TypeOK
<1> SUFFICES ASSUME Init PROVE TypeOK
  OBVIOUS
<1>1. Connection!TypeOK
  <2>1. opened \in Nat \ {0} /\ connection \in Nat
    BY DEF Init, Connection!Init
  <2> QED  BY <2>1 DEF Init, Connection!Init, Connection!TypeOK, Connection!ConnStates
<1>2. << >> \in Seq(Messages) /\ DOMAIN << >> = {}
  OBVIOUS
<1> QED  BY <1>1, <1>2 DEF Init, TypeOK, States, Statuses, Channel, Task

LEMMA TypeOKStep == TypeOK /\ [Next]_vars => TypeOK'
<1> SUFFICES ASSUME TypeOK, [Next]_vars PROVE TypeOK'
  OBVIOUS
<1> USE DEF connVars, taskVars, brokerVars, workVars
<1>1. CASE TellStatus
  BY <1>1 DEF TellStatus, TypeOK, Statuses, Connection!TypeOK
<1>2. CASE ConnectionChanged
  BY <1>2 DEF ConnectionChanged, TypeOK, States, Connection!TypeOK
<1>3. CASE ConsumerCancelled
  BY <1>3 DEF ConsumerCancelled, TypeOK, States, Connection!TypeOK
<1>4. CASE WaitingForConnection
  BY <1>4 DEF WaitingForConnection, TypeOK, States, Connection!TypeOK
<1>5. CASE RecreatingChannel
  <2>1. queue' \in SUBSET Messages
    BY <1>5 DEF RecreatingChannel, TypeOK, Unanswered
  <2>2. delivered' \in Seq(Messages) /\ unacked' \in SUBSET DOMAIN delivered'
    BY <1>5 DEF RecreatingChannel
  <2>3. channel' \in Channel
    BY <1>5 DEF RecreatingChannel, TypeOK, Channel
  <2> QED  BY <1>5, <2>1, <2>2, <2>3 DEF RecreatingChannel, TypeOK, States, Connection!TypeOK
<1>6. CASE RestoringConsumer
  BY <1>6 DEF RestoringConsumer, TypeOK, States, Connection!TypeOK
<1>7. CASE Stop
  <2>1. queue' \in SUBSET Messages
    BY <1>7 DEF Stop, TypeOK, Unanswered
  <2> QED  BY <1>7, <2>1 DEF Stop, TypeOK, States, Channel, Connection!TypeOK
<1>8. ASSUME NEW m \in Messages, Consume(m) PROVE TypeOK'
  <2>1. /\ delivered' \in Seq(Messages)
        /\ Len(delivered') = Len(delivered) + 1 /\ Len(delivered) \in Nat
    BY <1>8 DEF Consume, TypeOK
  <2>2. unacked' \in SUBSET DOMAIN delivered'
    BY <1>8, <2>1 DEF Consume, TypeOK
  <2>3. tasks' \in SUBSET Task
    BY <1>8, <2>1 DEF Consume, TypeOK, Task, Channel
  <2> QED  BY <1>8, <2>1, <2>2, <2>3 DEF Consume, TypeOK, Connection!TypeOK
<1>9. ASSUME NEW t \in tasks, NEW r \in Responses, Process(t, r) PROVE TypeOK'
  <2>1. t \in Task
    BY DEF TypeOK
  <2>2. tasks' \in SUBSET Task
    BY <1>9, <2>1 DEF Process, TypeOK, Task
  <2>3. concluded' \in SUBSET Messages /\ requeues' \in Nat
    BY <1>9, <2>1 DEF Process, TypeOK, Task
  <2> QED  BY <1>9, <2>2, <2>3 DEF Process, TypeOK, Connection!TypeOK
<1>10. ASSUME NEW t \in tasks, Respond(t) PROVE TypeOK'
  <2>1. t.message \in Messages
    BY DEF TypeOK, Task
  <2> QED  BY <1>10, <2>1 DEF Respond, TypeOK, Connection!TypeOK
<1>11. CASE Cancel
  BY <1>11 DEF Cancel, TypeOK, Connection!TypeOK
<1>12. CASE CloseChannel
  <2>1. queue' \in SUBSET Messages
    BY <1>12 DEF CloseChannel, TypeOK, Unanswered
  <2> QED  BY <1>12, <2>1 DEF CloseChannel, TypeOK, Channel, Connection!TypeOK
<1>13. CASE ConnectionStep
  <2>1. Connection!TypeOK'
    BY <1>13, ConnectionTypes DEF TypeOK
  <2> QED  BY <1>13, <2>1 DEF ConnectionStep, TypeOK
<1>14. CASE UNCHANGED vars
  BY <1>14 DEF vars, TypeOK, Connection!TypeOK
<1> QED  BY <1>1, <1>2, <1>3, <1>4, <1>5, <1>6, <1>7, <1>8, <1>9, <1>10, <1>11, <1>12,
            <1>13, <1>14 DEF Next, Machine

-----------------------------------------------------------------------------
(* The channel and the consumer *)

LEMMA ControlInit == Init => Control
<1> SUFFICES ASSUME Init PROVE Control
  OBVIOUS
<1>1. ConnectionInv
  BY DEF Init, Connection!Init, ConnectionInv, Connection!NeverStale
<1> QED  BY <1>1 DEF Init, Connection!Init, Control, OneConsumer, PermitMeansGone,
           HeldIsCurrent, OkHasConsumer

\* A channel that is open on the connection in force: the task has just opened it.
LEMMA HeldIsOpened ==
  ASSUME TypeOK, Control, ~connection_changed,
         state \notin {"WaitingForConnection", "Stopped"}
  PROVE  held = opened
<1>1. held = connection
  BY DEF Control, HeldIsCurrent
<1>2. connection # None
  BY <1>1, ConsumerAssumption DEF TypeOK
<1> QED  BY <1>1, <1>2 DEF Control, ConnectionInv, Connection!NeverStale

LEMMA ControlStep == TypeOK /\ Control /\ [Next]_vars => Control'
<1> SUFFICES ASSUME TypeOK, Control, [Next]_vars PROVE Control'
  OBVIOUS
<1>1. \* Steps that leave the connection, and what the task holds, as they are.
      ASSUME UNCHANGED connVars, channel'.on = channel.on
      PROVE  ConnectionInv'
  BY <1>1 DEF connVars, Control, ConnectionInv, Connection!NeverStale
<1>2. \* Steps that change neither.
      ASSUME UNCHANGED <<connVars, channel, consumers, taskVars>>
      PROVE  Control'
  BY <1>1, <1>2 DEF connVars, taskVars, Control, OneConsumer, PermitMeansGone, HeldIsCurrent,
                    OkHasConsumer
<1> USE DEF taskVars, brokerVars, workVars
<1>3. CASE TellStatus
  BY <1>1, <1>3 DEF TellStatus, connVars, Control, OneConsumer, PermitMeansGone,
                    HeldIsCurrent, OkHasConsumer
<1>4. CASE ConnectionChanged
  BY <1>1, <1>4 DEF ConnectionChanged, connVars, Control, OneConsumer, PermitMeansGone,
                    HeldIsCurrent, OkHasConsumer
<1>5. CASE ConsumerCancelled
  BY <1>1, <1>5 DEF ConsumerCancelled, connVars, Control, OneConsumer, PermitMeansGone,
                    HeldIsCurrent, OkHasConsumer
<1>6. CASE WaitingForConnection
  BY <1>1, <1>6 DEF WaitingForConnection, connVars, Control, OneConsumer, PermitMeansGone,
                    HeldIsCurrent, OkHasConsumer
<1>7. CASE RecreatingChannel
  <2>1. channel'.on = held /\ channel'.status = "open"
    BY <1>7 DEF RecreatingChannel
  <2>2. ConnectionInv'
    BY <1>7, <2>1 DEF RecreatingChannel, connVars, Control, ConnectionInv,
                      Connection!NeverStale, TypeOK
  <2> QED  BY <1>7, <2>1, <2>2 DEF RecreatingChannel, connVars, Control, OneConsumer,
             PermitMeansGone, HeldIsCurrent, OkHasConsumer
<1>8. CASE RestoringConsumer
  <2>1. consumers = 0 /\ ~consumer_cancelled /\ channel.on = held
    BY <1>8 DEF RestoringConsumer, Control, PermitMeansGone, OkHasConsumer
  <2>2. CASE Works
    BY <1>1, <1>8, <2>1, <2>2 DEF RestoringConsumer, connVars, Control, OneConsumer,
       PermitMeansGone, HeldIsCurrent, OkHasConsumer
  <2>3. CASE ~Works
    BY <1>1, <1>8, <2>1, <2>3 DEF RestoringConsumer, connVars, Control, OneConsumer,
       PermitMeansGone, HeldIsCurrent, OkHasConsumer
  <2> QED  BY <2>2, <2>3
<1>9. CASE Stop
  <2>1. channel'.on = channel.on
    BY <1>9 DEF Stop, TypeOK, Channel
  <2> QED  BY <1>1, <1>9, <2>1 DEF Stop, connVars, Control, OneConsumer, PermitMeansGone,
             HeldIsCurrent, OkHasConsumer
<1>10. ASSUME NEW m \in Messages, Consume(m) PROVE Control'
  BY <1>2, <1>10 DEF Consume
<1>11. ASSUME NEW t \in tasks, NEW r \in Responses, Process(t, r) PROVE Control'
  BY <1>2, <1>11 DEF Process
<1>12. ASSUME NEW t \in tasks, Respond(t) PROVE Control'
  BY <1>2, <1>12 DEF Respond
<1>13. CASE Cancel
  <2>1. state # "RestoringConsumer"
    BY <1>13 DEF Cancel, Control, PermitMeansGone
  <2> QED  BY <1>1, <1>13, <2>1 DEF Cancel, connVars, Control, OneConsumer,
             PermitMeansGone, HeldIsCurrent, OkHasConsumer
<1>14. CASE CloseChannel
  <2>1. channel'.on = channel.on /\ channel'.status = "closed"
    BY <1>14 DEF CloseChannel, TypeOK, Channel
  <2> QED  BY <1>1, <1>14, <2>1 DEF CloseChannel, connVars, Control, OneConsumer,
             PermitMeansGone, HeldIsCurrent, OkHasConsumer
<1>15. CASE ConnectionStep
  <2>1. /\ ConnectionInv'
        /\ connection' # connection => connection_changed'
        /\ connection_changed => connection_changed'
    BY <1>15, ConnectionMoves DEF Control
  <2> QED  BY <1>15, <2>1 DEF ConnectionStep, Control, OneConsumer, PermitMeansGone,
             HeldIsCurrent, OkHasConsumer
<1>16. CASE UNCHANGED vars
  BY <1>2, <1>16 DEF vars
<1> QED  BY <1>3, <1>4, <1>5, <1>6, <1>7, <1>8, <1>9, <1>10, <1>11, <1>12, <1>13, <1>14,
            <1>15, <1>16 DEF Next, Machine

\* What the task tells the clients when it tells them that it consumes.
LEMMA ConsumingImplied == TypeOK /\ Control => ConsumingIsTrue
<1> SUFFICES ASSUME TypeOK, Control, state = "Ok", ~connection_changed, ~consumer_cancelled,
                    link # "down", channel.status # "closed"
             PROVE  Works /\ consumers = 1
  BY DEF ConsumingIsTrue
<1>1. held = opened
  BY HeldIsOpened
<1> QED  BY <1>1 DEF Works, Control, OkHasConsumer, TypeOK, Channel, Connection!TypeOK

-----------------------------------------------------------------------------
(* The deliveries *)

LEMMA WorkInit == Init => Work
BY DEF Init, Work, TasksMatch, NothingLost, NoneForgotten, Unanswered

\* The channel ends: what was not answered is in the queue again.
LEMMA ChannelEnds ==
  ASSUME NothingLost, queue' = queue \cup Unanswered, concluded' = concluded
  PROVE  NothingLost'
BY DEF NothingLost

\* Neither the deliveries nor the tasks change, and the channel does not revive.
LEMMA WorkKept ==
  ASSUME Work, UNCHANGED <<workVars, queue, delivered, unacked>>, channel'.id = channel.id,
         Works' => Works
  PROVE  Work'
<1>1. tasks' = tasks /\ concluded' = concluded /\ Unanswered' = Unanswered
  BY DEF workVars, Unanswered
<1> QED  BY <1>1 DEF Work, TasksMatch, NothingLost, NoneForgotten

LEMMA ConsumeWork ==
  ASSUME TypeOK, Work, NEW m \in Messages, Consume(m)
  PROVE  Work'
<1> DEFINE tag == Len(delivered) + 1
           new == [channel |-> channel.id, tag |-> tag, message |-> m, response |-> None]
<1>1. /\ queue' = queue \ {m} /\ delivered' = Append(delivered, m)
      /\ unacked' = unacked \cup {tag} /\ tasks' = tasks \cup {new}
      /\ channel' = channel /\ concluded' = concluded
  BY DEF Consume
<1>2. /\ DOMAIN delivered = 1 .. Len(delivered) /\ Len(delivered) \in Nat
      /\ DOMAIN delivered' = 1 .. tag
      /\ delivered'[tag] = m
      /\ \A k \in DOMAIN delivered : delivered'[k] = delivered[k]
      /\ unacked \subseteq DOMAIN delivered
  BY <1>1 DEF TypeOK
<1>3. /\ new.channel = channel.id /\ new.tag = tag /\ new.message = m /\ new.response = None
      /\ channel.id \in Nat
  BY DEF TypeOK, Channel
<1> HIDE DEF new
<1>4. TasksMatch'
  <2> SUFFICES ASSUME NEW t \in tasks'
               PROVE  /\ t.channel <= channel'.id
                      /\ t.channel = channel'.id => /\ t.tag \in DOMAIN delivered'
                                                    /\ delivered'[t.tag] = t.message
                      /\ t.response = "Done" => t.message \in concluded'
    BY DEF TasksMatch
  <2>1. CASE t = new
    BY <1>1, <1>2, <1>3, <2>1, ConsumerAssumption
  <2>2. CASE t \in tasks
    <3>1. /\ t.channel <= channel.id
          /\ t.channel = channel.id => t.tag \in DOMAIN delivered /\ delivered[t.tag] = t.message
          /\ t.response = "Done" => t.message \in concluded
      BY <2>2 DEF Work, TasksMatch
    <3>2. DOMAIN delivered \subseteq DOMAIN delivered'
      BY <1>2
    <3> QED  BY <1>1, <1>2, <3>1, <3>2
  <2> QED  BY <1>1, <2>1, <2>2
<1>5. NothingLost'
  <2>1. Unanswered \cup {m} \subseteq Unanswered'
    BY <1>1, <1>2 DEF Unanswered
  <2> QED  BY <1>1, <2>1 DEF Work, NothingLost
<1>6. NoneForgotten'
  <2> SUFFICES ASSUME NEW k \in unacked'
               PROVE  \E t \in tasks' : /\ t.channel = channel'.id /\ t.tag = k
                                        /\ t.message = delivered'[k]
    BY DEF NoneForgotten
  <2>1. CASE k = tag
    BY <1>1, <1>2, <1>3, <2>1
  <2>2. CASE k \in unacked
    <3>1. PICK t \in tasks : /\ t.channel = channel.id /\ t.tag = k
                             /\ t.message = delivered[k]
      BY <2>2 DEF Work, NoneForgotten, Consume
    <3> QED  BY <1>1, <1>2, <2>2, <3>1
  <2> QED  BY <1>1, <2>1, <2>2
<1> QED  BY <1>4, <1>5, <1>6 DEF Work

LEMMA ProcessWork ==
  ASSUME TypeOK, Work, NEW t \in tasks, NEW r \in Responses, Process(t, r)
  PROVE  Work'
<1> DEFINE done == [t EXCEPT !.response = r]
<1>1. /\ tasks' = (tasks \ {t}) \cup {done}
      /\ UNCHANGED <<channel, queue, delivered, unacked>>
      /\ concluded \subseteq concluded'
      /\ r = "Done" => t.message \in concluded'
      /\ Works' = Works
  BY DEF Process, brokerVars, connVars, Works
<1>2. /\ done.channel = t.channel /\ done.tag = t.tag /\ done.message = t.message
      /\ done.response = r
  BY DEF TypeOK, Task
<1> HIDE DEF done
<1>3. TasksMatch'
  BY <1>1, <1>2 DEF Work, TasksMatch
<1>4. NothingLost'
  BY <1>1 DEF Work, NothingLost, Unanswered
<1>5. NoneForgotten'
  <2> SUFFICES ASSUME Works, NEW k \in unacked
               PROVE  \E s \in tasks' : /\ s.channel = channel.id /\ s.tag = k
                                        /\ s.message = delivered[k]
    BY <1>1 DEF NoneForgotten
  <2>1. PICK s \in tasks : s.channel = channel.id /\ s.tag = k /\ s.message = delivered[k]
    BY DEF Work, NoneForgotten
  <2> QED  BY <1>1, <1>2, <2>1
<1> QED  BY <1>3, <1>4, <1>5 DEF Work

LEMMA RespondWork ==
  ASSUME TypeOK, Work, NEW t \in tasks, Respond(t)
  PROVE  Work'
<1>1. /\ tasks' = tasks \ {t}
      /\ UNCHANGED <<channel, delivered, concluded>>
      /\ Works' = Works
  BY DEF Respond, connVars, workVars, Works
<1>2. TasksMatch'
  BY <1>1 DEF Work, TasksMatch
<1>3. CASE Works /\ t.channel = channel.id
  <2>1. /\ unacked' = unacked \ {t.tag}
        /\ queue' = IF t.response = "Requeue" THEN queue \cup {t.message} ELSE queue
    BY <1>3 DEF Respond
  <2>2. delivered[t.tag] = t.message
    BY <1>3 DEF Work, TasksMatch
  <2>3. t.message \in queue' \cup concluded'
    <3>1. t.response \in Responses
      BY DEF Respond, TypeOK, Task
    <3>2. t.response = "Done" => t.message \in concluded
      BY DEF Work, TasksMatch
    <3> QED  BY <1>1, <2>1, <3>1, <3>2 DEF Responses
  <2>4. NothingLost'
    <3>1. Unanswered \subseteq Unanswered' \cup {t.message}
      BY <1>1, <2>1, <2>2 DEF Unanswered
    <3> QED  BY <1>1, <2>1, <2>3, <3>1 DEF Work, NothingLost
  <2>5. NoneForgotten'
    <3> SUFFICES ASSUME NEW k \in unacked'
                 PROVE  \E s \in tasks' : /\ s.channel = channel.id /\ s.tag = k
                                          /\ s.message = delivered[k]
      BY <1>1 DEF NoneForgotten
    <3>1. PICK s \in tasks : s.channel = channel.id /\ s.tag = k /\ s.message = delivered[k]
      BY <1>3, <2>1 DEF Work, NoneForgotten
    <3> QED  BY <1>1, <2>1, <3>1
  <2> QED  BY <1>2, <2>4, <2>5 DEF Work
<1>4. CASE ~(Works /\ t.channel = channel.id)
  <2>1. UNCHANGED <<unacked, queue>>
    BY <1>4 DEF Respond
  <2>2. NothingLost'
    BY <1>1, <2>1 DEF Work, NothingLost, Unanswered
  <2>3. NoneForgotten'
    BY <1>1, <1>4, <2>1 DEF Work, NoneForgotten
  <2> QED  BY <1>2, <2>2, <2>3 DEF Work
<1> QED  BY <1>3, <1>4

LEMMA WorkStep == TypeOK /\ Control /\ Work /\ [Next]_vars => Work'
<1> SUFFICES ASSUME TypeOK, Control, Work, [Next]_vars PROVE Work'
  OBVIOUS
<1>1. \* The channel is closed: its deliveries are in the queue again.
      ASSUME queue' = queue \cup Unanswered, unacked' = {}, delivered' = delivered,
             UNCHANGED workVars, channel'.id = channel.id
      PROVE  Work'
  <2>1. TasksMatch'
    BY <1>1 DEF workVars, Work, TasksMatch
  <2>2. NothingLost'
    BY <1>1, ChannelEnds DEF workVars, Work
  <2>3. NoneForgotten'
    BY <1>1 DEF NoneForgotten
  <2> QED  BY <2>1, <2>2, <2>3 DEF Work
<1>2. \* Steps of the machine that leave the broker alone.
      ASSUME UNCHANGED <<connVars, channel, queue, delivered, unacked, workVars>>
      PROVE  Work'
  BY <1>2, WorkKept DEF connVars, Works
<1>3. CASE TellStatus \/ ConnectionChanged \/ ConsumerCancelled \/ WaitingForConnection
           \/ RestoringConsumer \/ Cancel
  BY <1>2, <1>3 DEF TellStatus, ConnectionChanged, ConsumerCancelled, WaitingForConnection,
                    RestoringConsumer, Cancel, brokerVars
<1>4. CASE RecreatingChannel
  <2>1. /\ queue' = queue \cup Unanswered /\ unacked' = {} /\ channel'.id = channel.id + 1
        /\ UNCHANGED workVars
    BY <1>4 DEF RecreatingChannel
  <2>2. TasksMatch'
    BY <2>1 DEF workVars, Work, TasksMatch, TypeOK, Channel, Task
  <2>3. NothingLost'
    BY <2>1, ChannelEnds DEF workVars, Work
  <2>4. NoneForgotten'
    BY <2>1 DEF NoneForgotten
  <2> QED  BY <2>2, <2>3, <2>4 DEF Work
<1>5. CASE Stop
  <2>1. channel'.id = channel.id
    BY <1>5 DEF Stop, TypeOK, Channel
  <2> QED  BY <1>1, <1>5, <2>1 DEF Stop
<1>6. ASSUME NEW m \in Messages, Consume(m) PROVE Work'
  BY <1>6, ConsumeWork
<1>7. ASSUME NEW t \in tasks, NEW r \in Responses, Process(t, r) PROVE Work'
  BY <1>7, ProcessWork
<1>8. ASSUME NEW t \in tasks, Respond(t) PROVE Work'
  BY <1>8, RespondWork
<1>9. CASE CloseChannel
  <2>1. channel'.id = channel.id
    BY <1>9 DEF CloseChannel, TypeOK, Channel
  <2> QED  BY <1>1, <1>9, <2>1 DEF CloseChannel
<1>10. CASE ConnectionStep
  <2>1. Works' => Works
    BY <1>10, ConnectionMoves DEF Control
  <2> QED  BY <1>10, <2>1, WorkKept DEF ConnectionStep, brokerVars
<1>11. CASE UNCHANGED vars
  BY <1>2, <1>11 DEF vars, brokerVars
<1> QED  BY <1>3, <1>4, <1>5, <1>6, <1>7, <1>8, <1>9, <1>10, <1>11 DEF Next, Machine

-----------------------------------------------------------------------------
(* The theorems *)

\* The invariant holds in every reachable state of the consumer.
THEOREM Inductive == Spec => []IInv
<1>1. Init => IInv
  BY TypeOKInit, ControlInit, WorkInit DEF IInv
<1>2. IInv /\ [Next]_vars => IInv'
  BY TypeOKStep, ControlStep, WorkStep DEF IInv
<1> QED  BY <1>1, <1>2, PTL DEF Spec

\* The task, the channel and the deliveries keep their types.
THEOREM ConsumerTypes == Spec => []TypeOK
<1>1. IInv => TypeOK
  BY DEF IInv
<1> QED  BY <1>1, Inductive, PTL

\* AsyncConsumer and its tasks: a delivery is concluded, queued again or about
\* to be answered, whatever channels and connections end before the answer.
THEOREM DeliveriesAnswered == Spec => []AnsweredOrKept
<1>1. IInv => AnsweredOrKept
  BY DEF IInv, Work, AnsweredOrKept
<1> QED  BY <1>1, Inductive, PTL

\* restoring_consumer_state never consumes twice on a channel.
THEOREM AtMostOneConsumer == Spec => []OneConsumer
<1>1. IInv => OneConsumer
  BY DEF IInv, Control
<1> QED  BY <1>1, Inductive, PTL

\* ok_state tells the clients that the network is fine only when the consumer is
\* there or what ends it is known or closed the channel.
THEOREM ConsumingIsReal == Spec => []ConsumingIsTrue
<1>1. IInv => ConsumingIsTrue
  BY ConsumingImplied DEF IInv
<1> QED  BY <1>1, Inductive, PTL

-----------------------------------------------------------------------------
(* The consumer is a subscription *)

\* The channel is no longer that of a working connection once the task is told of a
\* change, and the task holds no connection before it is handed out.
ChangeMeansGone ==
  /\ held <= opened
  /\ conn_state = "RestoringCallback" => channel.on < opened /\ held < opened
  /\ connection_changed \/ state = "WaitingForConnection" => link = "down" \/ channel.on < opened

LEMMA ChangeInit == Init => ChangeMeansGone
BY DEF Init, Connection!Init, ChangeMeansGone

LEMMA ChangeStep == TypeOK /\ Control /\ ChangeMeansGone /\ [Next]_vars => ChangeMeansGone'
<1> SUFFICES ASSUME TypeOK, Control, ChangeMeansGone, [Next]_vars PROVE ChangeMeansGone'
  OBVIOUS
<1> USE DEF taskVars, brokerVars, connVars
<1>1. opened \in Nat /\ held \in Nat /\ channel.on \in Nat
  BY DEF TypeOK, Connection!TypeOK, Channel
<1>2. ASSUME UNCHANGED <<conn_state, opened, link, held, channel>>,
             connection_changed' \/ state' = "WaitingForConnection" =>
               connection_changed \/ state = "WaitingForConnection"
      PROVE  ChangeMeansGone'
  BY <1>2 DEF ChangeMeansGone
<1>3. CASE TellStatus \/ ConnectionChanged \/ ConsumerCancelled \/ RestoringConsumer
  BY <1>2, <1>3 DEF TellStatus, ConnectionChanged, ConsumerCancelled, RestoringConsumer
<1>4. CASE WaitingForConnection
  <2>1. held' = opened /\ conn_state # "RestoringCallback"
    BY <1>4 DEF WaitingForConnection, Control, ConnectionInv, Connection!NeverStale
  <2> QED  BY <1>1, <1>4, <2>1 DEF WaitingForConnection, ChangeMeansGone
<1>5. CASE RecreatingChannel
  <2>1. conn_state # "RestoringCallback"
    BY <1>1, <1>5 DEF RecreatingChannel, ChangeMeansGone
  <2> QED  BY <1>1, <1>5, <2>1 DEF RecreatingChannel, ChangeMeansGone
<1>6. CASE Stop \/ CloseChannel
  <2>1. channel'.on = channel.on
    BY <1>6 DEF Stop, CloseChannel, TypeOK, Channel
  <2> QED  BY <1>6, <2>1 DEF Stop, CloseChannel, ChangeMeansGone
<1>7. ASSUME NEW m \in Messages, Consume(m) PROVE ChangeMeansGone'
  BY <1>2, <1>7 DEF Consume
<1>8. ASSUME NEW t \in tasks, Respond(t) \/ \E r \in Responses : Process(t, r)
      PROVE  ChangeMeansGone'
  BY <1>2, <1>8 DEF Respond, Process
<1>9. CASE Cancel
  BY <1>2, <1>9 DEF Cancel
<1>10. CASE ConnectionStep
  <2>1. UNCHANGED <<state, held, channel>>
        /\ connection_changed' = (connection_changed \/ Connection!Told)
    BY <1>10 DEF ConnectionStep
  <2>2. channel.on <= opened
    BY DEF Control, ConnectionInv
  <2>3. CASE Connection!RestoringConnection
    BY <1>1, <2>1, <2>2, <2>3 DEF Connection!RestoringConnection, Connection!Told,
       Connection!ClosingConnection, Connection!RestoringCallback, ChangeMeansGone
  <2>4. CASE Connection!RestoringCallback
    BY <2>1, <2>4 DEF Connection!RestoringCallback, ChangeMeansGone
  <2>5. CASE Connection!ClosingConnection
    BY <2>1, <2>5 DEF Connection!ClosingConnection, Control, ConnectionInv, ChangeMeansGone
  <2>6. CASE Connection!Fail \/ Connection!NoticeFailure \/ Connection!Stop
    BY <2>1, <2>6 DEF Connection!Fail, Connection!NoticeFailure, Connection!Stop,
       ChangeMeansGone
  <2> QED  BY <1>10, <2>3, <2>4, <2>5, <2>6 DEF ConnectionStep, Connection!Step
<1>11. CASE UNCHANGED vars
  BY <1>2, <1>11 DEF vars
<1> QED  BY <1>3, <1>4, <1>5, <1>6, <1>7, <1>8, <1>9, <1>10, <1>11 DEF Next, Machine

\* What its watcher sees of the consumer.
Bound == Works /\ consumers > 0
Seen  == IF state = "Ok" /\ status = "Recovering" THEN "Restored" ELSE status

LEMMA PromiseGives ==
  /\ Promise!Init <=> Bound = TRUE /\ Seen \in {"Consuming", "Restored"}
  /\ UNCHANGED <<Bound, Seen>> => UNCHANGED Promise!vars
  /\ Bound' = FALSE /\ (Seen' = Seen \/ (Seen = "Restored" /\ Seen' = "Recovering"))
       => Promise!Next
  /\ Seen = "Consuming" /\ ~Bound /\ Seen' = "Recovering" /\ UNCHANGED Bound => Promise!Next
  /\ Seen = "Recovering" /\ ~Bound /\ Bound' = TRUE /\ Seen' = "Restored" => Promise!Next
  /\ Seen = "Restored" /\ Seen' = "Consuming" /\ UNCHANGED Bound => Promise!Next
BY DEF Bound, Seen, Promise!Init, Promise!vars, Promise!Next, Promise!Lose,
       Promise!TellRecovering, Promise!Restore, Promise!TellConsuming

LEMMA StepSubscribes ==
  TypeOK /\ Control /\ ChangeMeansGone /\ [Next]_vars => [Promise!Next]_(Promise!vars)
<1> SUFFICES ASSUME TypeOK, Control, ChangeMeansGone, [Next]_vars
             PROVE  [Promise!Next]_(Promise!vars)
  OBVIOUS
<1> USE DEF taskVars, brokerVars, connVars
<1>1. /\ opened \in Nat /\ held \in Nat /\ channel.on \in Nat /\ consumers \in Nat
      /\ state \in States /\ status \in Statuses
  BY DEF TypeOK, Connection!TypeOK, Channel
<1>2. ASSUME UNCHANGED <<opened, link, channel, consumers, state, status>>
      PROVE  UNCHANGED Promise!vars
  <2>1. UNCHANGED <<Bound, Seen>>
    BY <1>2 DEF Bound, Seen, Works
  <2> QED  BY <2>1, PromiseGives
<1>3. CASE TellStatus
  <2>1. Bound' = Bound
    BY <1>3 DEF TellStatus, Bound, Works
  <2>2. CASE state = "Ok"
    <3>1. Seen = "Restored" /\ Seen' = "Consuming"
      BY <1>3, <2>2 DEF TellStatus, Seen
    <3> QED  BY <2>1, <3>1, PromiseGives
  <2>3. CASE state # "Ok"
    <3>1. Seen = "Consuming" /\ Seen' = "Recovering"
      BY <1>3, <2>3 DEF TellStatus, Seen
    <3>2. CASE state = "RestoringConsumer"
      <4>1. ~Bound
        BY <3>2 DEF Control, PermitMeansGone, Bound
      <4> QED  BY <2>1, <3>1, <4>1, PromiseGives
    <3>3. CASE state = "WaitingForConnection"
      <4>1. ~Bound
        BY <1>1, <3>3 DEF ChangeMeansGone, Bound, Works
      <4> QED  BY <2>1, <3>1, <4>1, PromiseGives
    <3> QED  BY <1>3, <2>3, <3>2, <3>3 DEF TellStatus
  <2> QED  BY <2>2, <2>3
<1>4. CASE ConnectionChanged \/ ConsumerCancelled \/ WaitingForConnection
  <2>1. Bound' = Bound
    BY <1>4 DEF ConnectionChanged, ConsumerCancelled, WaitingForConnection, Bound, Works
  <2>2. Seen' = Seen
    BY <1>4 DEF ConnectionChanged, Listens, ConsumerCancelled, WaitingForConnection, Seen
  <2> QED  BY <2>1, <2>2, PromiseGives
<1>5. CASE RecreatingChannel
  <2>1. Bound' = FALSE /\ Seen' = Seen
    BY <1>5 DEF RecreatingChannel, Bound, Seen
  <2> QED  BY <2>1, PromiseGives
<1>6. CASE RestoringConsumer
  <2>1. /\ state = "RestoringConsumer" /\ status = "Recovering" /\ status' = status
        /\ consumers = 0 /\ UNCHANGED <<opened, link, channel>>
    BY <1>6 DEF RestoringConsumer, Control, PermitMeansGone
  <2>2. Seen = "Recovering" /\ ~Bound /\ Works' = Works
    BY <2>1 DEF Seen, Bound, Works
  <2>3. CASE Works
    <3>1. state' = "Ok" /\ consumers' = 1
      BY <1>6, <2>1, <2>3 DEF RestoringConsumer
    <3>2. Seen' = "Restored" /\ Bound' = TRUE
      BY <2>1, <2>2, <2>3, <3>1 DEF Seen, Bound
    <3> QED  BY <2>2, <3>2, PromiseGives
  <2>4. CASE ~Works
    <3>1. Seen' = "Recovering" /\ Bound' = FALSE
      BY <1>6, <2>1, <2>2, <2>4 DEF RestoringConsumer, Seen, Bound
    <3> QED  BY <2>2, <3>1, PromiseGives
  <2> QED  BY <2>3, <2>4
<1>7. CASE Stop
  <2>1. Bound' = FALSE
    BY <1>7 DEF Stop, Bound
  <2>2. Seen' = Seen \/ (Seen = "Restored" /\ Seen' = "Recovering")
    BY <1>7 DEF Stop, Seen
  <2> QED  BY <2>1, <2>2, PromiseGives
<1>8. CASE Cancel \/ CloseChannel
  <2>1. Bound' = FALSE /\ Seen' = Seen
    BY <1>8 DEF Cancel, CloseChannel, Bound, Seen
  <2> QED  BY <2>1, PromiseGives
<1>9. ASSUME NEW m \in Messages, Consume(m) PROVE UNCHANGED Promise!vars
  BY <1>2, <1>9 DEF Consume
<1>10. ASSUME NEW t \in tasks, Respond(t) \/ \E r \in Responses : Process(t, r)
       PROVE  UNCHANGED Promise!vars
  BY <1>2, <1>10 DEF Respond, Process
<1>11. CASE ConnectionStep
  <2>1. UNCHANGED <<state, status, consumers>> /\ (Works' => Works)
    BY <1>11, ConnectionMoves DEF ConnectionStep, Control
  <2>2. Seen' = Seen /\ (Bound' = FALSE \/ Bound' = Bound)
    BY <2>1 DEF Seen, Bound
  <2> QED  BY <2>2, PromiseGives
<1>12. CASE UNCHANGED vars
  BY <1>2, <1>12 DEF vars
<1> QED  BY <1>3, <1>4, <1>5, <1>6, <1>7, <1>8, <1>9, <1>10, <1>11, <1>12 DEF Next, Machine

\* The consumer implements Subscription: the state machine never replaces a consumer
\* before its status callback was told that it was lost, and tells no loss that did not
\* happen, however connections, channels and cancellations follow each other.
THEOREM ConsumerSubscribes == Spec => SubscriptionSpec
<1>1. Init => Promise!Init
  <2> SUFFICES ASSUME Init PROVE Promise!Init
    OBVIOUS
  <2>1. Bound = TRUE /\ Seen = "Restored"
    BY DEF Init, Connection!Init, Bound, Seen, Works
  <2> QED  BY <2>1, PromiseGives
<1>2. IInv /\ ChangeMeansGone /\ [Next]_vars => [Promise!Next]_(Promise!vars)
  BY StepSubscribes DEF IInv
<1>3. IInv /\ ChangeMeansGone /\ [Next]_vars => ChangeMeansGone'
  BY ChangeStep DEF IInv
<1> QED  BY <1>1, <1>2, <1>3, ChangeInit, Inductive, PTL DEF Spec, SubscriptionSpec, Promise!Spec

=============================================================================
