----------------------- MODULE RabbitmqProducerProofs -----------------------
(***************************************************************************)
(* The producer, for any number of messages, connections, channels and     *)
(* refusals: a message given to send is in its hands, once, or with the    *)
(* broker, and the producer implements AtLeastOnce.                        *)
(*                                                                         *)
(* What has to be shown is that an ack never removes a message the broker  *)
(* refused.  A multiple ack covers tags that were settled before it, some  *)
(* by a nack; but the confirm that settled a tag is still in the queue     *)
(* before it, or was processed and the message is gone.  That tags name    *)
(* publishes needs the counter to agree with the broker, which it does as  *)
(* long as the channel works; after that it can only be ahead.             *)
(***************************************************************************)
EXTENDS RabbitmqProducer, SequenceTheorems, TLAPS

-----------------------------------------------------------------------------
(* The inductive invariant *)

\* A connection is replaced only when it failed, and older ones stay dead.
ConnectionInv ==
  /\ Connection!NeverStale
  /\ conn_state \in {"ClosingConnection", "RestoringConnection"} => link = "down"
  /\ channel.on <= opened

Control == ConnectionInv /\ HeldIsCurrent

\* The broker settles what it decided, and stores what it acks.
BrokerInv ==
  /\ Len(outcome) <= Len(log) /\ settled \subseteq DOMAIN outcome
  /\ \A t \in DOMAIN outcome : outcome[t] = "Ack" => log[t] \in stored

\* unconfirmed_messages is in the order of the publishes, whose number is known.
Numbered ==
  /\ \A j, k \in DOMAIN unconfirmed : j < k => unconfirmed[j][1] < unconfirmed[k][1]
  /\ \A k \in DOMAIN unconfirmed : unconfirmed[k][1] \in 1 .. message_count

\* The counter falls behind the broker never, and agrees while the channel works.
CountAgrees ==
  state = "Ok" => Len(log) <= message_count /\ (Works => message_count = Len(log))

OwnPublish ==
  \A k \in DOMAIN unconfirmed :
    unconfirmed[k][1] \in DOMAIN log => log[unconfirmed[k][1]] = unconfirmed[k][2]

\* A new channel starts with nothing unconfirmed.
GivenUp ==
  /\ state \in {"RecreatingChannel", "RestoringProducer"} => unconfirmed = << >>
  /\ state = "RestoringProducer" => log = << >>

\* What a confirm settles.
Covers(c, tag) == IF c.multiple THEN tag <= c.delivery_tag ELSE tag = c.delivery_tag

\* What was settled of what is unconfirmed waits for a confirm in the queue.
SettledCovered ==
  \A k \in DOMAIN unconfirmed : unconfirmed[k][1] \in settled =>
    \E i \in DOMAIN confirms : Covers(confirms[i], unconfirmed[k][1])

\* The first of the confirms that cover a message tells what the broker decided.
FirstDecides ==
  \A k \in DOMAIN unconfirmed, i \in DOMAIN confirms :
    /\ Covers(confirms[i], unconfirmed[k][1])
    /\ \A j \in DOMAIN confirms : j < i => ~Covers(confirms[j], unconfirmed[k][1])
    => confirms[i].variant = outcome[unconfirmed[k][1]]

\* Confirms of a channel that was given up find nothing unconfirmed.
ConfirmsDecided ==
  unconfirmed # << >> => \A i \in DOMAIN confirms : confirms[i].delivery_tag \in DOMAIN outcome

Tags == /\ BrokerInv /\ Numbered /\ CountAgrees /\ OwnPublish /\ GivenUp
        /\ SettledCovered /\ FirstDecides /\ ConfirmsDecided

\* What is somewhere was sent.
OnlySent == InHand \cup stored \cup ToSet(log) \subseteq sent

Hands == NothingLost /\ QueuedOnce /\ OnlySent

\* What every step of the producer, the broker and the connection preserves.
IInv == TypeOK /\ Control /\ Tags /\ Hands

-----------------------------------------------------------------------------
(* The queues *)

\* RemoveAt closes the gap.
LEMMA RemoveAtGives ==
  ASSUME NEW S, NEW s \in Seq(S), NEW k \in DOMAIN s
  PROVE  /\ RemoveAt(s, k) \in Seq(S)
         /\ Len(RemoveAt(s, k)) = Len(s) - 1
         /\ DOMAIN RemoveAt(s, k) = 1 .. Len(s) - 1
         /\ \A j \in 1 .. Len(s) - 1 :
              RemoveAt(s, k)[j] = s[IF j < k THEN j ELSE j + 1]
<1> DEFINE a == SubSeq(s, 1, k - 1)
           b == SubSeq(s, k + 1, Len(s))
           r == a \o b
<1>1. Len(s) \in Nat /\ k \in 1 .. Len(s) /\ k \in Int
  OBVIOUS
<1>2. /\ a \in Seq(S) /\ Len(a) = k - 1
      /\ \A j \in 1 .. k - 1 : a[j] = s[j]
  BY <1>1
<1>3. /\ b \in Seq(S) /\ Len(b) = Len(s) - k
      /\ \A j \in 1 .. Len(s) - k : b[j] = s[j + k]
  BY <1>1
<1> HIDE DEF a, b
<1>4. /\ r \in Seq(S) /\ Len(r) = Len(a) + Len(b)
      /\ \A j \in 1 .. Len(a) + Len(b) : r[j] = IF j <= Len(a) THEN a[j] ELSE b[j - Len(a)]
  BY <1>2, <1>3, ConcatProperties
<1> HIDE DEF r
<1>5. Len(r) = Len(s) - 1 /\ DOMAIN r = 1 .. Len(s) - 1
  BY <1>1, <1>2, <1>3, <1>4
<1>6. ASSUME NEW j \in 1 .. Len(s) - 1
      PROVE  r[j] = s[IF j < k THEN j ELSE j + 1]
  <2>1. j \in 1 .. Len(a) + Len(b) /\ Len(a) = k - 1
    BY <1>1, <1>2, <1>3
  <2>2. r[j] = IF j <= k - 1 THEN a[j] ELSE b[j - (k - 1)]
    BY <1>4, <2>1
  <2>3. CASE j < k
    <3>1. j \in 1 .. k - 1
      BY <1>1, <2>3
    <3> QED  BY <1>2, <2>2, <2>3, <3>1
  <2>4. CASE ~(j < k)
    <3>1. r[j] = b[j - (k - 1)]
      <4>1. ~(j <= k - 1)
        BY <1>1, <2>4
      <4> QED  BY <2>2, <4>1
    <3>2. j - (k - 1) \in 1 .. Len(s) - k /\ (j - (k - 1)) + k = j + 1
      BY <1>1, <2>4
    <3> QED  BY <1>3, <2>4, <3>1, <3>2
  <2> QED  BY <2>3, <2>4
<1>7. RemoveAt(s, k) = r
  BY DEF RemoveAt, r, a, b
<1> QED  BY <1>4, <1>5, <1>6, <1>7

\* What is behind the front moves up.
LEMMA TailGives ==
  ASSUME NEW S, NEW s \in Seq(S), s # << >>
  PROVE  /\ Tail(s) \in Seq(S) /\ Head(s) = s[1] /\ Len(s) \in Nat \ {0}
         /\ Len(Tail(s)) = Len(s) - 1 /\ DOMAIN Tail(s) = 1 .. Len(s) - 1
         /\ \A j \in 1 .. Len(s) - 1 : Tail(s)[j] = s[j + 1]
OBVIOUS

LEMMA AppendGives ==
  ASSUME NEW S, NEW s \in Seq(S), NEW e \in S
  PROVE  /\ Append(s, e) \in Seq(S) /\ Len(s) \in Nat
         /\ DOMAIN s = 1 .. Len(s)
         /\ Len(Append(s, e)) = Len(s) + 1 /\ DOMAIN Append(s, e) = 1 .. Len(s) + 1
         /\ Append(s, e)[Len(s) + 1] = e
         /\ \A j \in DOMAIN s : Append(s, e)[j] = s[j]
OBVIOUS

LEMMA AppendElements ==
  ASSUME NEW S, NEW s \in Seq(S), NEW e \in S
  PROVE  ToSet(Append(s, e)) = ToSet(s) \cup {e}
<1> DEFINE r == Append(s, e)
<1>1. /\ DOMAIN s = 1 .. Len(s) /\ Len(s) \in Nat /\ DOMAIN r = 1 .. Len(s) + 1
      /\ r[Len(s) + 1] = e /\ \A j \in DOMAIN s : r[j] = s[j]
  BY AppendGives
<1> HIDE DEF r
<1> QED  BY <1>1 DEF ToSet, r

LEMMA TailElements ==
  ASSUME NEW S, NEW s \in Seq(S), s # << >>
  PROVE  ToSet(s) = {Head(s)} \cup ToSet(Tail(s))
<1> DEFINE r == Tail(s)
<1>1. /\ DOMAIN s = 1 .. Len(s) /\ Len(s) \in Nat \ {0} /\ DOMAIN r = 1 .. Len(s) - 1
      /\ Head(s) = s[1] /\ \A j \in DOMAIN r : r[j] = s[j + 1]
  BY TailGives
<1> HIDE DEF r
<1>2. \A j \in DOMAIN s : j = 1 \/ (j - 1 \in DOMAIN r /\ s[j] = r[j - 1])
  BY <1>1
<1>3. ToSet(s) \subseteq {Head(s)} \cup ToSet(r)
  BY <1>1, <1>2 DEF ToSet
<1>4. {Head(s)} \cup ToSet(r) \subseteq ToSet(s)
  BY <1>1 DEF ToSet
<1> QED  BY <1>3, <1>4 DEF r

\* A queue that has each of its elements once.
Once(s) == \A j, k \in DOMAIN s : s[j] = s[k] => j = k

LEMMA AppendOnce ==
  ASSUME NEW S, NEW s \in Seq(S), NEW e \in S, Once(s), e \notin ToSet(s)
  PROVE  Once(Append(s, e))
<1> DEFINE r == Append(s, e)
<1>1. /\ DOMAIN s = 1 .. Len(s) /\ Len(s) \in Nat /\ DOMAIN r = 1 .. Len(s) + 1
      /\ r[Len(s) + 1] = e /\ \A j \in DOMAIN s : r[j] = s[j]
  BY AppendGives
<1> HIDE DEF r
<1>2. \A j \in DOMAIN s : s[j] # e
  BY DEF ToSet
<1> QED  BY <1>1, <1>2 DEF Once, r

LEMMA TailOnce ==
  ASSUME NEW S, NEW s \in Seq(S), s # << >>, Once(s)
  PROVE  Once(Tail(s)) /\ Head(s) \notin ToSet(Tail(s))
<1> DEFINE r == Tail(s)
<1>1. /\ DOMAIN s = 1 .. Len(s) /\ Len(s) \in Nat \ {0} /\ DOMAIN r = 1 .. Len(s) - 1
      /\ Head(s) = s[1] /\ \A j \in DOMAIN r : r[j] = s[j + 1]
  BY TailGives
<1> HIDE DEF r
<1> QED  BY <1>1 DEF Once, ToSet, r

-----------------------------------------------------------------------------
(* The connection *)

LEMMA ConnectionTypes ==
  ASSUME Connection!TypeOK, ConnectionStep
  PROVE  Connection!TypeOK'
<1>1. \/ Connection!Fail \/ Connection!NoticeFailure \/ Connection!ClosingConnection
      \/ Connection!RestoringConnection \/ Connection!RestoringCallback \/ Connection!Stop
      \/ \E b \in BOOLEAN : Connection!Block(b)
  BY DEF ConnectionStep, Connection!Step
<1> USE DEF Connection!TypeOK, Connection!ConnStates
<1>2. CASE Connection!Fail
  BY <1>2 DEF Connection!Fail
<1>3. CASE Connection!NoticeFailure
  BY <1>3 DEF Connection!NoticeFailure
<1>4. CASE Connection!ClosingConnection
  BY <1>4 DEF Connection!ClosingConnection
<1>5. CASE Connection!RestoringConnection
  <2>1. opened' \in Nat \ {0}
    BY <1>5 DEF Connection!RestoringConnection
  <2> QED  BY <1>5, <2>1 DEF Connection!RestoringConnection
<1>6. CASE Connection!RestoringCallback
  BY <1>6 DEF Connection!RestoringCallback
<1>7. CASE Connection!Stop
  BY <1>7 DEF Connection!Stop
<1>8. CASE \E b \in BOOLEAN : Connection!Block(b)
  BY <1>8 DEF Connection!Block
<1> QED  BY <1>1, <1>2, <1>3, <1>4, <1>5, <1>6, <1>7, <1>8

\* A step of the connection: another connection is opened only when the last one
\* failed, and whoever holds one is told when it is taken away or replaced.
LEMMA ConnectionMoves ==
  ASSUME TypeOK, ConnectionInv, ConnectionStep
  PROVE  /\ ConnectionInv'
         /\ Works' => Works
         /\ connection' # connection => connection_changed'
         /\ connection_changed => connection_changed'
<1> USE DEF ConnectionStep, Connection!TypeOK, Connection!Fail, Connection!Step,
       Connection!NoticeFailure, Connection!ClosingConnection, Connection!Block,
       Connection!RestoringConnection, Connection!RestoringCallback, Connection!Stop,
       Connection!Told, TypeOK, Channel
<1>1. ConnectionInv'
  BY ProducerAssumption DEF ConnectionInv, Connection!NeverStale
<1>2. Works' => Works
  BY DEF Works, ConnectionInv
<1>3. /\ connection' # connection => connection_changed'
      /\ connection_changed => connection_changed'
  OBVIOUS
<1> QED  BY <1>1, <1>2, <1>3

LEMMA ControlInit == Init => Control
BY DEF Init, Connection!Init, Control, ConnectionInv, Connection!NeverStale, HeldIsCurrent

LEMMA ControlStep == TypeOK /\ Control /\ [Next]_vars => Control'
<1> SUFFICES ASSUME TypeOK, Control, [Next]_vars PROVE Control'
  OBVIOUS
<1> USE DEF taskVars, queues, brokerVars
<1>1. ASSUME UNCHANGED connVars, channel'.on = channel.on
      PROVE  ConnectionInv'
  BY <1>1 DEF connVars, Control, ConnectionInv, Connection!NeverStale
<1>2. \* Steps of the broker and of the queues.
      ASSUME UNCHANGED <<connVars, taskVars>>, channel'.on = channel.on
      PROVE  Control'
  BY <1>1, <1>2 DEF connVars, Control, HeldIsCurrent
<1>3. \* Steps of the task that end in a state that holds the same connection.
      ASSUME UNCHANGED <<connVars, connection_changed, held, channel>>,
             state \in {"WaitingForConnection", "Stopped"} =>
               state' \in {"WaitingForConnection", "Stopped"}
      PROVE  Control'
  BY <1>1, <1>3 DEF connVars, Control, HeldIsCurrent
<1>4. CASE (\E m \in Messages : Send(m)) \/ ProcessConfirm \/ Publish
  BY <1>2, <1>4 DEF Send, ProcessConfirm, Publish
<1>5. CASE Stop \/ PublishFails \/ PendingProcessed \/ RestoringProducer \/ RequeueUnconfirmed
  BY <1>3, <1>5 DEF Stop, PublishFails, PendingProcessed, RestoringProducer, CanPublish,
                    RequeueUnconfirmed
<1>6. CASE ConnectionChanged
  BY <1>1, <1>6 DEF ConnectionChanged, Control, HeldIsCurrent
<1>7. CASE WaitingForConnection
  BY <1>1, <1>7 DEF WaitingForConnection, connVars, Control, HeldIsCurrent
<1>8. CASE RecreatingChannel
  <2>1. channel'.on = held
    BY <1>8 DEF RecreatingChannel
  <2>2. ConnectionInv'
    BY <1>8, <2>1 DEF RecreatingChannel, connVars, Control, ConnectionInv,
                      Connection!NeverStale, TypeOK
  <2> QED  BY <1>8, <2>2 DEF RecreatingChannel, connVars, Control, HeldIsCurrent
<1>9. CASE CloseChannel \/ SeeClosed
  <2>1. channel'.on = channel.on
    BY <1>9 DEF CloseChannel, SeeClosed, TypeOK, Channel
  <2> QED  BY <1>2, <1>9, <2>1 DEF CloseChannel, SeeClosed
<1>10. ASSUME NEW v, Decide(v) PROVE Control'
  BY <1>2, <1>10 DEF Decide
<1>11. ASSUME NEW tag, NEW multiple, PublisherConfirm(tag, multiple) PROVE Control'
  BY <1>2, <1>11 DEF PublisherConfirm
<1>12. ASSUME NEW active, Flow(active) PROVE Control'
  BY <1>2, <1>12 DEF Flow
<1>13. CASE ConnectionStep
  BY <1>13, ConnectionMoves DEF ConnectionStep, Control, HeldIsCurrent
<1>14. CASE UNCHANGED vars
  BY <1>2, <1>14 DEF vars
<1> QED  BY <1>4, <1>5, <1>6, <1>7, <1>8, <1>9, <1>10, <1>11, <1>12, <1>13, <1>14
         DEF Next, Task, Broker

-----------------------------------------------------------------------------
(* Type correctness *)

LEMMA TypeOKInit == Init => TypeOK
<1> SUFFICES ASSUME Init PROVE TypeOK
  OBVIOUS
<1>1. Connection!TypeOK
  <2>1. opened \in Nat \ {0} /\ connection \in Nat
    BY DEF Init, Connection!Init
  <2> QED  BY <2>1 DEF Init, Connection!Init, Connection!TypeOK, Connection!ConnStates
<1>2. channel \in Channel
  BY DEF Init, Channel
<1>3. /\ << >> \in Seq(Messages) /\ << >> \in Seq(Nat \X Messages)
      /\ << >> \in Seq(Confirm) /\ << >> \in Seq(Variants)
  BY EmptySeq
<1> QED  BY <1>1, <1>2, <1>3 DEF Init, TypeOK, States

\* The steps that leave the broker and the queues alone.
LEMMA TypeOKKept ==
  ASSUME TypeOK, UNCHANGED <<queues, brokerVars>>, Connection!TypeOK',
         state' \in States, connection_changed' \in BOOLEAN, held' \in Nat,
         channel' \in Channel, flow' \in BOOLEAN, sent' = sent, throttles' \in Nat
  PROVE  TypeOK'
BY DEF TypeOK, queues, brokerVars

LEMMA TypeOKStep == TypeOK /\ [Next]_vars => TypeOK'
<1> SUFFICES ASSUME TypeOK, [Next]_vars PROVE TypeOK'
  OBVIOUS
<1> USE DEF taskVars
<1>1. ASSUME UNCHANGED connVars PROVE Connection!TypeOK'
  BY <1>1 DEF connVars, TypeOK, Connection!TypeOK
<1>2. \* Steps on the queues.
      ASSUME UNCHANGED <<connVars, connection_changed, held, brokerVars, channel, flow,
                         throttles>>,
             state' \in States, pending' \in Seq(Messages),
             unconfirmed' \in Seq(Nat \X Messages), message_count' \in Nat,
             confirms' \in Seq(Confirm), sent' \in SUBSET Messages
      PROVE  TypeOK'
  BY <1>1, <1>2 DEF TypeOK, brokerVars
<1>3. /\ pending # << >> => Head(pending) \in Messages /\ Tail(pending) \in Seq(Messages)
      /\ confirms # << >> => Head(confirms) \in Confirm /\ Tail(confirms) \in Seq(Confirm)
      /\ unconfirmed # << >> => /\ Head(unconfirmed) \in Nat \X Messages
                                /\ Tail(unconfirmed) \in Seq(Nat \X Messages)
  BY DEF TypeOK
<1>4. ASSUME NEW m \in Messages, Send(m) PROVE TypeOK'
  <2>1. pending' \in Seq(Messages)
    BY <1>4 DEF Send, TypeOK
  <2>2. sent' \in SUBSET Messages
    BY <1>4 DEF Send, TypeOK
  <2> QED  BY <1>2, <1>4, <2>1, <2>2 DEF Send, TypeOK
<1>5. CASE Stop
  BY <1>1, <1>5, TypeOKKept DEF Stop, TypeOK, States
<1>6. CASE ConnectionChanged
  BY <1>1, <1>6, TypeOKKept DEF ConnectionChanged, TypeOK, States
<1>7. CASE WaitingForConnection
  <2>1. held' \in Nat
    BY <1>7 DEF WaitingForConnection, TypeOK, Connection!TypeOK
  <2> QED  BY <1>1, <1>7, <2>1, TypeOKKept DEF WaitingForConnection, TypeOK, States
<1>8. CASE ProcessConfirm
  <2>1. confirms' \in Seq(Confirm)
    BY <1>3, <1>8 DEF ProcessConfirm, TypeOK
  <2>2. unconfirmed' \in Seq(Nat \X Messages) /\ pending' \in Seq(Messages)
    <3>1. CASE Covered(Head(confirms)) = {}
      BY <1>8, <3>1 DEF ProcessConfirm, TypeOK
    <3>2. CASE Covered(Head(confirms)) # {}
      <4>1. PICK k \in Covered(Head(confirms)) :
              /\ unconfirmed' = RemoveAt(unconfirmed, k)
              /\ pending' = IF Head(confirms).variant = "Ack" THEN pending
                            ELSE Append(pending, unconfirmed[k][2])
        BY <1>8, <3>2 DEF ProcessConfirm
      <4>2. k \in DOMAIN unconfirmed /\ unconfirmed \in Seq(Nat \X Messages)
        BY DEF Covered, TypeOK
      <4>3. unconfirmed[k] \in Nat \X Messages
        BY <4>2
      <4>4. unconfirmed[k][2] \in Messages
        BY <4>3
      <4>5. unconfirmed' \in Seq(Nat \X Messages)
        BY <4>1, <4>2, RemoveAtGives
      <4> QED  BY <4>1, <4>4, <4>5 DEF TypeOK
    <3> QED  BY <3>1, <3>2
  <2> QED  BY <1>2, <1>8, <2>1, <2>2 DEF ProcessConfirm, TypeOK
<1>9. CASE Publish
  <2>1. Head(pending) \in Messages /\ pending' \in Seq(Messages)
    BY <1>3, <1>9 DEF Publish, CanPublish
  <2>2. message_count' \in Nat /\ <<message_count + 1, Head(pending)>> \in Nat \X Messages
    BY <1>9, <2>1 DEF Publish, TypeOK
  <2>3. unconfirmed' \in Seq(Nat \X Messages)
    BY <1>9, <2>2 DEF Publish, TypeOK
  <2>4. log' \in Seq(Messages)
    BY <1>9, <2>1 DEF Publish, TypeOK
  <2> QED  BY <1>1, <1>9, <2>1, <2>2, <2>3, <2>4 DEF Publish, TypeOK
<1>10. CASE PublishFails
  <2>1. pending' \in Seq(Messages)
    BY <1>3, <1>10 DEF PublishFails, CanPublish
  <2>2. message_count' \in Nat
    BY <1>10 DEF PublishFails, TypeOK
  <2> QED  BY <1>2, <1>10, <2>1, <2>2 DEF PublishFails, TypeOK, States
<1>11. CASE RequeueUnconfirmed
  <2>1. Head(unconfirmed)[2] \in Messages
    BY <1>3, <1>11 DEF RequeueUnconfirmed
  <2>2. pending' \in Seq(Messages) /\ unconfirmed' \in Seq(Nat \X Messages)
    BY <1>3, <1>11, <2>1 DEF RequeueUnconfirmed, TypeOK
  <2> QED  BY <1>2, <1>11, <2>2 DEF RequeueUnconfirmed, TypeOK
<1>12. CASE PendingProcessed
  BY <1>1, <1>12, TypeOKKept DEF PendingProcessed, TypeOK, States
<1>13. CASE RecreatingChannel
  <2>1. channel' \in Channel
    BY <1>13 DEF RecreatingChannel, TypeOK, Channel
  <2>2. log' \in Seq(Messages) /\ outcome' \in Seq(Variants) /\ settled' \in SUBSET Nat
    BY <1>13 DEF RecreatingChannel
  <2> QED  BY <1>1, <1>13, <2>1, <2>2 DEF RecreatingChannel, TypeOK, States, queues
<1>14. CASE RestoringProducer
  BY <1>2, <1>14 DEF RestoringProducer, TypeOK, States
<1>15. ASSUME NEW v \in Variants, Decide(v) PROVE TypeOK'
  <2>1. Len(outcome) + 1 \in DOMAIN log
    BY <1>15 DEF Decide, TypeOK
  <2>2. log[Len(outcome) + 1] \in Messages
    BY <2>1 DEF TypeOK
  <2>3. stored' \in SUBSET Messages
    BY <1>15, <2>2 DEF Decide, TypeOK
  <2>4. outcome' \in Seq(Variants) /\ nacks' \in Nat
    BY <1>15 DEF Decide, TypeOK
  <2> QED  BY <1>1, <1>15, <2>3, <2>4 DEF Decide, TypeOK, queues
<1>16. ASSUME NEW tag \in DOMAIN outcome, NEW multiple \in BOOLEAN,
              PublisherConfirm(tag, multiple)
       PROVE  TypeOK'
  <2>1. tag \in Nat /\ outcome[tag] \in Variants
    BY DEF TypeOK
  <2>2. [delivery_tag |-> tag, multiple |-> multiple, variant |-> outcome[tag]] \in Confirm
    BY <2>1 DEF Confirm
  <2>3. confirms' \in Seq(Confirm)
    BY <1>16, <2>2 DEF PublisherConfirm, TypeOK
  <2>4. settled' \in SUBSET Nat
    <3>1. 1 .. tag \subseteq Nat
      BY <2>1
    <3>2. settled' = settled \cup (IF multiple THEN (1 .. tag) \ settled ELSE {tag})
      BY <1>16 DEF PublisherConfirm
    <3> QED  BY <2>1, <3>1, <3>2 DEF TypeOK
  <2> QED  BY <1>1, <1>16, <2>3, <2>4 DEF PublisherConfirm, TypeOK
<1>17. ASSUME NEW active \in BOOLEAN, Flow(active) PROVE TypeOK'
  BY <1>1, <1>17, TypeOKKept DEF Flow, TypeOK
<1>18. CASE CloseChannel
  <2>1. channel' \in Channel
    BY <1>18 DEF CloseChannel, TypeOK, Channel
  <2> QED  BY <1>1, <1>18, <2>1 DEF CloseChannel, TypeOK, queues
<1>19. CASE SeeClosed
  <2>1. channel' \in Channel
    BY <1>19 DEF SeeClosed, TypeOK, Channel
  <2> QED  BY <1>1, <1>19, <2>1, TypeOKKept DEF SeeClosed, TypeOK
<1>20. CASE ConnectionStep
  <2>1. connection_changed' \in BOOLEAN
    BY <1>20 DEF ConnectionStep
  <2>2. throttles' \in Nat
    BY <1>20 DEF ConnectionStep, TypeOK
  <2>3. Connection!TypeOK'
    BY <1>20, ConnectionTypes DEF TypeOK
  <2> QED  BY <1>20, <2>1, <2>2, <2>3, TypeOKKept DEF ConnectionStep, TypeOK
<1>21. CASE UNCHANGED vars
  BY <1>1, <1>21, TypeOKKept DEF vars, TypeOK
<1> QED  BY <1>4, <1>5, <1>6, <1>7, <1>8, <1>9, <1>10, <1>11, <1>12, <1>13, <1>14, <1>15,
            <1>16, <1>17, <1>18, <1>19, <1>20, <1>21 DEF Next, Task, Broker

-----------------------------------------------------------------------------
(* The tags *)

\* w is s without its k-th element.
Without(s, k, w) ==
  /\ \A i \in DOMAIN w : \E p \in DOMAIN s \ {k} : w[i] = s[p]
  /\ \A p \in DOMAIN s \ {k} : \E i \in DOMAIN w : w[i] = s[p]
  /\ \A i, j \in DOMAIN w : i < j => \E p, q \in DOMAIN s \ {k} : p < q /\ w[i] = s[p] /\ w[j] = s[q]

LEMMA RemoveAtWithout ==
  ASSUME NEW S, NEW s \in Seq(S), NEW k \in DOMAIN s
  PROVE  Without(s, k, RemoveAt(s, k))
<1> DEFINE w == RemoveAt(s, k)
<1>1. /\ DOMAIN w = 1 .. Len(s) - 1
      /\ \A j \in 1 .. Len(s) - 1 : w[j] = s[IF j < k THEN j ELSE j + 1]
  BY RemoveAtGives
<1>2. DOMAIN s = 1 .. Len(s) /\ Len(s) \in Nat /\ k \in 1 .. Len(s)
  OBVIOUS
<1> HIDE DEF w
<1>3. /\ DOMAIN s = 1 .. Len(s) /\ Len(s) \in Nat /\ k \in 1 .. Len(s)
      /\ DOMAIN w = 1 .. Len(s) - 1
      /\ \A j \in DOMAIN w : w[j] = s[IF j < k THEN j ELSE j + 1]
  BY <1>1, <1>2
<1>4. \A i \in DOMAIN w : (IF i < k THEN i ELSE i + 1) \in DOMAIN s \ {k}
  BY <1>3
<1>5. \A i, j \in DOMAIN w : i < j => (IF i < k THEN i ELSE i + 1) < (IF j < k THEN j ELSE j + 1)
  BY <1>3
<1>6. ASSUME NEW p \in DOMAIN s \ {k} PROVE \E i \in DOMAIN w : w[i] = s[p]
  <2>1. CASE p < k
    BY <1>3, <2>1
  <2>2. CASE p > k
    <3>1. p - 1 \in DOMAIN w /\ ~(p - 1 < k) /\ (p - 1) + 1 = p
      BY <1>3, <2>2
    <3> QED  BY <1>3, <3>1
  <2> QED  BY <1>3, <2>1, <2>2
<1>7. \A i \in DOMAIN w : \E p \in DOMAIN s \ {k} : w[i] = s[p]
  BY <1>3, <1>4
<1>8. \A i, j \in DOMAIN w : i < j => \E p, q \in DOMAIN s \ {k} : p < q /\ w[i] = s[p] /\ w[j] = s[q]
  BY <1>3, <1>4, <1>5
<1> QED  BY <1>6, <1>7, <1>8 DEF Without, w

LEMMA TailWithout ==
  ASSUME NEW S, NEW s \in Seq(S), s # << >>
  PROVE  Without(s, 1, Tail(s)) /\ 1 \in DOMAIN s
<1> DEFINE w == Tail(s)
<1>1. /\ DOMAIN s = 1 .. Len(s) /\ Len(s) \in Nat \ {0} /\ DOMAIN w = 1 .. Len(s) - 1
      /\ \A j \in DOMAIN w : w[j] = s[j + 1]
  BY TailGives
<1> HIDE DEF w
<1>2. \A i \in DOMAIN w : i + 1 \in DOMAIN s \ {1}
  BY <1>1
<1>3. \A p \in DOMAIN s \ {1} : p - 1 \in DOMAIN w /\ w[p - 1] = s[p]
  BY <1>1
<1>4. \A i, j \in DOMAIN w : i < j => i + 1 < j + 1
  BY <1>1
<1>5. \A i, j \in DOMAIN w : i < j => \E p, q \in DOMAIN s \ {1} : p < q /\ w[i] = s[p] /\ w[j] = s[q]
  BY <1>1, <1>2, <1>4
<1> QED  BY <1>1, <1>2, <1>3, <1>5 DEF Without, w

LEMMA TagsInit == Init => Tags
BY DEF Init, Tags, BrokerInv, Numbered, CountAgrees, OwnPublish, GivenUp, SettledCovered,
       FirstDecides, ConfirmsDecided, Works

\* Steps that leave the tags, and what is behind them, as they are.
LEMMA TagsKept ==
  ASSUME Tags, Works' => Works,
         UNCHANGED <<unconfirmed, message_count, confirms, log, outcome, settled, stored>>,
         state' \in {"Ok", "RecreatingChannel", "RestoringProducer"} => state' = state
  PROVE  Tags'
BY DEF Tags, BrokerInv, Numbered, CountAgrees, OwnPublish, GivenUp, SettledCovered,
       FirstDecides, ConfirmsDecided

\* A message leaves the unconfirmed ones, or a confirm the queue that covers none
\* of those left.
LEMMA TagsFewer ==
  ASSUME TypeOK, Tags, TypeOK', Works' = Works, state' = state,
         UNCHANGED <<message_count, log, outcome, settled, stored>>,
         unconfirmed' = unconfirmed \/ \E k : Without(unconfirmed, k, unconfirmed'),
         \/ confirms' = confirms
         \/ /\ confirms # << >> /\ confirms' = Tail(confirms)
            /\ \A i \in DOMAIN unconfirmed' : ~Covers(Head(confirms), unconfirmed'[i][1])
  PROVE  Tags'
<1>1. \A i \in DOMAIN unconfirmed' : \E p \in DOMAIN unconfirmed : unconfirmed'[i] = unconfirmed[p]
  BY DEF Without
<1>2. \A i, j \in DOMAIN unconfirmed' : i < j =>
        \E p, q \in DOMAIN unconfirmed : /\ p < q /\ unconfirmed'[i] = unconfirmed[p]
                                         /\ unconfirmed'[j] = unconfirmed[q]
  BY DEF Without
<1>3. unconfirmed = << >> => unconfirmed' = << >>
  <2> SUFFICES ASSUME unconfirmed = << >> PROVE DOMAIN unconfirmed' = {}
    BY DEF TypeOK
  <2>1. DOMAIN unconfirmed = {}
    OBVIOUS
  <2> QED  BY <1>1, <2>1
<1>4. Numbered'
  BY <1>1, <1>2 DEF Tags, Numbered
<1>5. BrokerInv' /\ CountAgrees' /\ GivenUp'
  BY <1>3 DEF Tags, BrokerInv, CountAgrees, GivenUp
<1>6. OwnPublish'
  BY <1>1 DEF Tags, OwnPublish
<1>7. CASE confirms' = confirms
  <2>1. SettledCovered' /\ FirstDecides'
    BY <1>1, <1>7 DEF Tags, SettledCovered, FirstDecides
  <2>2. ConfirmsDecided'
    BY <1>3, <1>7 DEF Tags, ConfirmsDecided
  <2> QED  BY <1>4, <1>5, <1>6, <2>1, <2>2 DEF Tags
<1>8. CASE /\ confirms # << >> /\ confirms' = Tail(confirms)
           /\ \A i \in DOMAIN unconfirmed' : ~Covers(Head(confirms), unconfirmed'[i][1])
  <2>1. /\ DOMAIN confirms = 1 .. Len(confirms) /\ Len(confirms) \in Nat \ {0}
        /\ DOMAIN confirms' = 1 .. Len(confirms) - 1 /\ Head(confirms) = confirms[1]
        /\ \A i \in DOMAIN confirms' : confirms'[i] = confirms[i + 1]
    BY <1>8, TailGives DEF TypeOK
  <2>2. \A i \in DOMAIN confirms' : i + 1 \in DOMAIN confirms
    BY <2>1
  <2>3. \A i \in DOMAIN confirms : i = 1 \/ (i - 1 \in DOMAIN confirms' /\ confirms'[i - 1] = confirms[i])
    BY <2>1
  <2>4. SettledCovered'
    <3> SUFFICES ASSUME NEW k \in DOMAIN unconfirmed', unconfirmed'[k][1] \in settled
                 PROVE  \E i \in DOMAIN confirms' : Covers(confirms'[i], unconfirmed'[k][1])
      BY DEF SettledCovered, Covers
    <3>1. PICK p \in DOMAIN unconfirmed : unconfirmed'[k] = unconfirmed[p]
      BY <1>1
    <3>2. PICK i \in DOMAIN confirms : Covers(confirms[i], unconfirmed[p][1])
      BY <3>1 DEF Tags, SettledCovered
    <3>3. i # 1
      BY <1>8, <2>1, <3>1, <3>2
    <3> QED  BY <2>3, <3>1, <3>2, <3>3
  <2>5. FirstDecides'
    <3> SUFFICES ASSUME NEW k \in DOMAIN unconfirmed', NEW i \in DOMAIN confirms',
                        Covers(confirms'[i], unconfirmed'[k][1]),
                        \A j \in DOMAIN confirms' :
                          j < i => ~Covers(confirms'[j], unconfirmed'[k][1])
                 PROVE  confirms'[i].variant = outcome[unconfirmed'[k][1]]
      BY DEF FirstDecides, Covers
    <3>1. PICK p \in DOMAIN unconfirmed : unconfirmed'[k] = unconfirmed[p]
      BY <1>1
    <3>2. i + 1 \in DOMAIN confirms /\ confirms'[i] = confirms[i + 1]
      BY <2>1, <2>2
    <3>3. ASSUME NEW j \in DOMAIN confirms, j < i + 1
          PROVE  ~Covers(confirms[j], unconfirmed[p][1])
      <4>1. CASE j = 1
        BY <1>8, <2>1, <3>1, <4>1
      <4>2. CASE j # 1
        <5>1. j - 1 \in DOMAIN confirms' /\ confirms'[j - 1] = confirms[j] /\ j - 1 < i
          BY <2>1, <2>3, <3>3, <4>2
        <5> QED  BY <3>1, <5>1
      <4> QED  BY <4>1, <4>2
    <3>4. confirms[i + 1].variant = outcome[unconfirmed[p][1]]
      BY <3>1, <3>2, <3>3 DEF Tags, FirstDecides
    <3> QED  BY <3>1, <3>2, <3>4
  <2>6. ConfirmsDecided'
    BY <1>3, <2>1, <2>2 DEF Tags, ConfirmsDecided
  <2> QED  BY <1>4, <1>5, <1>6, <2>4, <2>5, <2>6 DEF Tags
<1> QED  BY <1>7, <1>8

\* The front has the least of the tags, and each has its own.
LEMMA TagsDiffer ==
  ASSUME TypeOK, Numbered, NEW p \in DOMAIN unconfirmed, NEW q \in DOMAIN unconfirmed
  PROVE  /\ p # q => unconfirmed[p][1] # unconfirmed[q][1]
         /\ unconfirmed[1][1] <= unconfirmed[q][1]
<1>1. DOMAIN unconfirmed = 1 .. Len(unconfirmed) /\ Len(unconfirmed) \in Nat
  BY DEF TypeOK
<1>2. \A k \in DOMAIN unconfirmed : unconfirmed[k][1] \in Nat
  BY <1>1 DEF TypeOK
<1>3. 1 \in DOMAIN unconfirmed /\ (q = 1 \/ 1 < q)
  BY <1>1
<1>4. p # q => p < q \/ q < p
  BY <1>1
<1> QED  BY <1>1, <1>2, <1>3, <1>4 DEF Numbered

\* What process_confirm did: it removed a message the confirm covers, or found none.
LEMMA ProcessConfirmDoes ==
  ASSUME TypeOK, Numbered, ProcessConfirm
  PROVE  /\ confirms # << >>
         /\ \/ /\ unconfirmed' = unconfirmed /\ pending' = pending
               /\ confirms' = Tail(confirms)
               /\ \A q \in DOMAIN unconfirmed : ~Covers(Head(confirms), unconfirmed[q][1])
            \/ \E k \in DOMAIN unconfirmed :
                 /\ Covers(Head(confirms), unconfirmed[k][1])
                 /\ unconfirmed' = RemoveAt(unconfirmed, k)
                 /\ pending' = IF Head(confirms).variant = "Ack" THEN pending
                               ELSE Append(pending, unconfirmed[k][2])
                 /\ \/ confirms' = confirms
                    \/ /\ confirms' = Tail(confirms)
                       /\ \A q \in DOMAIN unconfirmed \ {k} :
                            ~Covers(Head(confirms), unconfirmed[q][1])
<1> DEFINE c == Head(confirms)
<1>1. confirms # << >> /\ c \in Confirm
  BY DEF ProcessConfirm, TypeOK
<1>2. c.multiple \in BOOLEAN /\ c.delivery_tag \in Nat
  BY <1>1 DEF Confirm
<1>3. \A q \in DOMAIN unconfirmed : unconfirmed[q][1] \in Nat /\ 1 \in DOMAIN unconfirmed
  BY DEF TypeOK
<1> HIDE DEF c
<1>4. CASE Covered(c) = {}
  <2>1. unconfirmed' = unconfirmed /\ pending' = pending /\ confirms' = Tail(confirms)
    BY <1>4 DEF ProcessConfirm, c
  <2>2. ASSUME NEW q \in DOMAIN unconfirmed PROVE ~Covers(c, unconfirmed[q][1])
    <3>1. CASE c.multiple
      <4>1. ~(unconfirmed[1][1] <= c.delivery_tag)
        BY <1>3, <1>4, <3>1 DEF Covered
      <4>2. unconfirmed[1][1] <= unconfirmed[q][1]
        BY TagsDiffer
      <4> QED  BY <1>2, <1>3, <3>1, <4>1, <4>2 DEF Covers
    <3>2. CASE ~c.multiple
      BY <1>4, <3>2 DEF Covered, Covers
    <3> QED  BY <3>1, <3>2
  <2> QED  BY <1>1, <2>1, <2>2 DEF c
<1>5. CASE Covered(c) # {}
  <2>1. PICK k \in Covered(c) :
          /\ unconfirmed' = RemoveAt(unconfirmed, k)
          /\ pending' = IF c.variant = "Ack" THEN pending
                        ELSE Append(pending, unconfirmed[k][2])
    BY <1>5 DEF ProcessConfirm, c
  <2>2. k \in DOMAIN unconfirmed /\ Covers(c, unconfirmed[k][1])
    BY DEF Covered, Covers
  <2>3. CASE c.multiple
    BY <1>1, <1>5, <2>1, <2>2, <2>3 DEF ProcessConfirm, c
  <2>4. CASE ~c.multiple
    <3>1. confirms' = Tail(confirms)
      BY <2>4 DEF ProcessConfirm, c
    <3>2. \A q \in DOMAIN unconfirmed \ {k} : ~Covers(c, unconfirmed[q][1])
      BY <2>2, <2>4, TagsDiffer DEF Covers
    <3> QED  BY <1>1, <2>1, <2>2, <3>1, <3>2 DEF c
  <2> QED  BY <2>3, <2>4
<1> QED  BY <1>4, <1>5

LEMMA ProcessConfirmTags ==
  ASSUME TypeOK, TypeOK', Tags, ProcessConfirm
  PROVE  Tags'
<1>1. /\ Works' = Works /\ state' = state
      /\ UNCHANGED <<message_count, log, outcome, settled, stored>>
  BY DEF ProcessConfirm, connVars, taskVars, brokerVars, Works
<1>2. Numbered
  BY DEF Tags
<1>3. CASE /\ unconfirmed' = unconfirmed /\ confirms # << >> /\ confirms' = Tail(confirms)
           /\ \A q \in DOMAIN unconfirmed : ~Covers(Head(confirms), unconfirmed[q][1])
  BY <1>1, <1>3, TagsFewer
<1>4. ASSUME NEW k \in DOMAIN unconfirmed, confirms # << >>,
             unconfirmed' = RemoveAt(unconfirmed, k),
             \/ confirms' = confirms
             \/ /\ confirms' = Tail(confirms)
                /\ \A q \in DOMAIN unconfirmed \ {k} : ~Covers(Head(confirms), unconfirmed[q][1])
      PROVE  Tags'
  <2>1. Without(unconfirmed, k, unconfirmed')
    BY <1>4, RemoveAtWithout DEF TypeOK
  <2>2. \/ confirms' = confirms
        \/ /\ confirms' = Tail(confirms)
           /\ \A i \in DOMAIN unconfirmed' : ~Covers(Head(confirms), unconfirmed'[i][1])
    BY <1>4, <2>1 DEF Without
  <2> QED  BY <1>1, <1>4, <2>1, <2>2, TagsFewer
<1> QED  BY <1>2, <1>3, <1>4, ProcessConfirmDoes

\* A publish gets the next number, which is the broker's if it receives it.
LEMMA PublishTags ==
  ASSUME TypeOK, TypeOK', Tags, Publish
  PROVE  Tags'
<1> DEFINE tag == message_count + 1
           n == Len(unconfirmed) + 1
<1>1. /\ state = "Ok" /\ state' = "Ok" /\ confirms = << >> /\ confirms' = << >>
      /\ message_count' = tag /\ message_count \in Nat /\ pending # << >>
      /\ UNCHANGED <<outcome, settled, stored>> /\ Works' = Works
  BY DEF Publish, CanPublish, connVars, taskVars, Works, TypeOK
<1>2. Head(pending) \in Messages
  BY <1>1 DEF TypeOK
<1>3. message_count \in Nat
  BY DEF TypeOK
<1>4. /\ DOMAIN unconfirmed = 1 .. Len(unconfirmed) /\ Len(unconfirmed) \in Nat
      /\ DOMAIN unconfirmed' = 1 .. n
      /\ unconfirmed'[n] = <<tag, Head(pending)>>
      /\ \A k \in DOMAIN unconfirmed : unconfirmed'[k] = unconfirmed[k]
  <2> DEFINE e == <<tag, Head(pending)>>
  <2>1. e \in Nat \X Messages /\ unconfirmed \in Seq(Nat \X Messages)
    BY <1>1, <1>2 DEF TypeOK
  <2>2. unconfirmed' = Append(unconfirmed, e)
    BY DEF Publish
  <2> HIDE DEF e
  <2>3. /\ DOMAIN unconfirmed = 1 .. Len(unconfirmed) /\ Len(unconfirmed) \in Nat
        /\ DOMAIN unconfirmed' = 1 .. n
        /\ unconfirmed'[n] = e
        /\ \A k \in DOMAIN unconfirmed : unconfirmed'[k] = unconfirmed[k]
    BY <2>1, <2>2, AppendGives
  <2> QED  BY <2>3 DEF e
<1>5. \A k \in DOMAIN unconfirmed' : k = n \/ k \in DOMAIN unconfirmed
  BY <1>4
<1>6. \A k \in DOMAIN unconfirmed : unconfirmed[k][1] \in 1 .. message_count
  BY DEF Tags, Numbered
<1>7. /\ DOMAIN log = 1 .. Len(log) /\ Len(log) \in Nat /\ Len(log) <= message_count
  BY <1>1 DEF TypeOK, Tags, CountAgrees
<1>8. Works => message_count = Len(log)
  BY <1>1 DEF Tags, CountAgrees
<1>9. DOMAIN log = 1 .. Len(log) /\ Len(log) \in Nat /\ Len(log) < tag /\ tag \in Nat
  BY <1>3, <1>7
<1> HIDE DEF tag
<1>10. /\ Len(log) <= Len(log') /\ Len(log') \in Nat /\ DOMAIN log' = 1 .. Len(log')
       /\ \A t \in DOMAIN log : log'[t] = log[t]
       /\ Len(log') <= tag
       /\ tag \in DOMAIN log' => log'[tag] = Head(pending)
  <2>1. CASE Works
    <3>1. log' = Append(log, Head(pending))
      BY <2>1 DEF Publish
    <3>2. /\ Len(log') = Len(log) + 1 /\ DOMAIN log' = 1 .. Len(log) + 1
          /\ log'[Len(log) + 1] = Head(pending)
          /\ \A t \in DOMAIN log : log'[t] = log[t]
      <4>1. log \in Seq(Messages)
        BY DEF TypeOK
      <4> QED  BY <1>2, <3>1, <4>1, AppendGives
    <3>3. Len(log') = tag /\ Len(log) + 1 = tag
      BY <1>8, <2>1, <3>2 DEF tag
    <3>4. Len(log) <= Len(log') /\ Len(log') \in Nat /\ Len(log') <= tag
      BY <1>9, <3>3
    <3>5. DOMAIN log' = 1 .. Len(log')
      BY <3>2
    <3>6. log'[tag] = Head(pending) /\ \A t \in DOMAIN log : log'[t] = log[t]
      BY <3>2, <3>3
    <3> QED  BY <3>4, <3>5, <3>6
  <2>2. CASE ~Works
    <3>1. log' = log
      BY <2>2 DEF Publish
    <3>2. tag \notin DOMAIN log
      BY <1>9
    <3> QED  BY <1>9, <3>1, <3>2
  <2> QED  BY <2>1, <2>2
<1>11. Works => Len(log') = tag
  <2> SUFFICES ASSUME Works PROVE Len(log') = tag
    OBVIOUS
  <2>1. log' = Append(log, Head(pending))
    BY DEF Publish
  <2>2. Len(log') = Len(log) + 1
    BY <1>2, <2>1, AppendGives DEF TypeOK
  <2> QED  BY <1>8, <2>2 DEF tag
<1>12. tag \notin settled
  <2>1. settled \subseteq 1 .. Len(outcome) /\ Len(outcome) \in Nat
    BY DEF Tags, BrokerInv, TypeOK
  <2>2. Len(outcome) <= Len(log)
    BY DEF Tags, BrokerInv
  <2>3. \A t \in settled : t <= Len(log)
    BY <1>9, <2>1, <2>2
  <2> QED  BY <1>9, <2>3
<1>13. BrokerInv'
  <2>1. /\ DOMAIN outcome = 1 .. Len(outcome) /\ Len(outcome) \in Nat
        /\ Len(outcome) <= Len(log) /\ settled \subseteq DOMAIN outcome
    BY DEF Tags, BrokerInv, TypeOK
  <2>2. Len(outcome) <= Len(log') /\ \A t \in DOMAIN outcome : t \in DOMAIN log
    BY <1>7, <1>10, <2>1
  <2> QED  BY <1>1, <1>10, <2>1, <2>2 DEF Tags, BrokerInv
<1>14. Numbered'
  <2>1. tag \in Nat /\ message_count < tag
    BY <1>1 DEF tag
  <2>2. ASSUME NEW j \in DOMAIN unconfirmed', NEW k \in DOMAIN unconfirmed', j < k
        PROVE  unconfirmed'[j][1] < unconfirmed'[k][1]
    <3>1. j \in DOMAIN unconfirmed
      BY <1>4, <2>2
    <3>2. CASE k \in DOMAIN unconfirmed
      BY <1>4, <2>2, <3>1, <3>2 DEF Tags, Numbered
    <3>3. CASE k = n
      <4>1. unconfirmed'[k][1] = tag
        BY <1>4, <3>3
      <4>2. unconfirmed'[j][1] \in 1 .. message_count
        BY <1>4, <1>6, <3>1
      <4> QED  BY <1>1, <2>1, <4>1, <4>2
    <3> QED  BY <1>5, <3>2, <3>3
  <2>3. ASSUME NEW k \in DOMAIN unconfirmed'
        PROVE  unconfirmed'[k][1] \in 1 .. tag
    <3>1. CASE k \in DOMAIN unconfirmed
      <4>1. unconfirmed'[k][1] \in 1 .. message_count
        BY <1>4, <1>6, <3>1
      <4> QED  BY <1>3, <2>1, <4>1
    <3>2. CASE k = n
      BY <1>3, <1>4, <2>1, <3>2
    <3> QED  BY <1>5, <3>1, <3>2
  <2> QED  BY <1>1, <2>2, <2>3 DEF Numbered
<1>15. CountAgrees' /\ GivenUp' /\ ConfirmsDecided'
  BY <1>1, <1>10, <1>11 DEF CountAgrees, GivenUp, ConfirmsDecided
<1>16. OwnPublish'
  <2> SUFFICES ASSUME NEW k \in DOMAIN unconfirmed', unconfirmed'[k][1] \in DOMAIN log'
               PROVE  log'[unconfirmed'[k][1]] = unconfirmed'[k][2]
    BY DEF OwnPublish
  <2>1. CASE k = n
    BY <1>4, <1>10, <2>1
  <2>2. CASE k \in DOMAIN unconfirmed
    <3>1. unconfirmed'[k] = unconfirmed[k]
      BY <1>4, <2>2
    <3>2. CASE unconfirmed[k][1] \in DOMAIN log
      BY <1>10, <2>2, <3>1, <3>2 DEF Tags, OwnPublish
    <3>3. CASE unconfirmed[k][1] \notin DOMAIN log
      \* then the channel does not work, and the broker receives nothing
      <4>1. ~Works
        BY <1>3, <1>8, <1>6, <1>7, <2>2, <3>3
      <4>2. log' = log
        BY <4>1 DEF Publish
      <4> QED  BY <3>1, <3>3, <4>2
    <3> QED  BY <3>2, <3>3
  <2> QED  BY <1>5, <2>1, <2>2
<1>17. SettledCovered'
  <2>1. \A k \in DOMAIN unconfirmed : unconfirmed[k][1] \notin settled
    BY <1>1 DEF Tags, SettledCovered
  <2> QED  BY <1>1, <1>4, <1>5, <1>12, <2>1 DEF SettledCovered
<1>18. FirstDecides'
  BY <1>1 DEF FirstDecides
<1> QED  BY <1>13, <1>14, <1>15, <1>16, <1>17, <1>18 DEF Tags

\* The broker decides the next of what it received.
LEMMA DecideTags ==
  ASSUME TypeOK, Tags, NEW v \in Variants, Decide(v)
  PROVE  Tags'
<1> DEFINE n == Len(outcome) + 1
<1>1. /\ UNCHANGED <<unconfirmed, message_count, confirms, log, settled, state>> /\ Works' = Works
      /\ Len(outcome) < Len(log) /\ outcome' = Append(outcome, v)
      /\ stored' = IF v = "Ack" THEN stored \cup {log[n]} ELSE stored
  BY DEF Decide, queues, taskVars, connVars, Works
<1>2. /\ DOMAIN outcome = 1 .. Len(outcome) /\ Len(outcome) \in Nat /\ Len(log) \in Nat
      /\ Len(outcome') = n /\ DOMAIN outcome' = 1 .. n
      /\ outcome'[n] = v /\ \A t \in DOMAIN outcome : outcome'[t] = outcome[t]
  BY <1>1, AppendGives DEF TypeOK
<1>3. \A t \in DOMAIN outcome' : t = n \/ t \in DOMAIN outcome
  BY <1>2
<1>4. DOMAIN outcome \subseteq DOMAIN outcome' /\ Len(outcome') <= Len(log)
  BY <1>1, <1>2
<1> HIDE DEF n
<1>5. BrokerInv'
  BY <1>1, <1>2, <1>3, <1>4 DEF Tags, BrokerInv
<1>6. Numbered' /\ CountAgrees' /\ OwnPublish' /\ GivenUp' /\ SettledCovered'
  BY <1>1 DEF Tags, Numbered, CountAgrees, OwnPublish, GivenUp, SettledCovered
<1>7. ConfirmsDecided'
  BY <1>1, <1>4 DEF Tags, ConfirmsDecided
<1>8. FirstDecides'
  <2> SUFFICES ASSUME NEW k \in DOMAIN unconfirmed, NEW i \in DOMAIN confirms,
                      Covers(confirms[i], unconfirmed[k][1])
               PROVE  outcome'[unconfirmed[k][1]] = outcome[unconfirmed[k][1]]
    BY <1>1 DEF Tags, FirstDecides
  <2>1. confirms[i].delivery_tag \in 1 .. Len(outcome)
    BY <1>2 DEF Tags, ConfirmsDecided
  <2>2. unconfirmed[k][1] \in 1 .. message_count /\ message_count \in Nat
    BY DEF Tags, Numbered, TypeOK
  <2>3. unconfirmed[k][1] <= confirms[i].delivery_tag
    BY <2>1, <2>2 DEF Covers
  <2>4. unconfirmed[k][1] \in DOMAIN outcome
    BY <1>2, <2>1, <2>2, <2>3
  <2> QED  BY <1>2, <2>4
<1> QED  BY <1>5, <1>6, <1>7, <1>8 DEF Tags

\* The broker tells what it decided of a tag, or of all up to it.
LEMMA PublisherConfirmTags ==
  ASSUME TypeOK, Tags, NEW tag \in DOMAIN outcome, NEW multiple \in BOOLEAN,
         PublisherConfirm(tag, multiple)
  PROVE  Tags'
<1> DEFINE c == [delivery_tag |-> tag, multiple |-> multiple, variant |-> outcome[tag]]
           tags == IF multiple THEN (1 .. tag) \ settled ELSE {tag}
           n == Len(confirms) + 1
<1>1. /\ UNCHANGED <<unconfirmed, message_count, log, outcome, stored, state>> /\ Works' = Works
      /\ tag \in DOMAIN outcome \ settled /\ \A t \in tags : outcome[t] = outcome[tag]
      /\ confirms' = Append(confirms, c) /\ settled' = settled \cup tags
  BY DEF PublisherConfirm, taskVars, connVars, Works
<1>2. /\ DOMAIN outcome = 1 .. Len(outcome) /\ Len(outcome) \in Nat /\ tag \in Nat
      /\ outcome[tag] \in Variants
  BY DEF TypeOK
<1>3. c \in Confirm
  BY <1>2 DEF Confirm
<1>4. c.delivery_tag = tag /\ c.multiple = multiple /\ c.variant = outcome[tag]
  OBVIOUS
<1> HIDE DEF c
<1>5. /\ DOMAIN confirms = 1 .. Len(confirms) /\ Len(confirms) \in Nat
      /\ DOMAIN confirms' = 1 .. n /\ confirms'[n] = c
      /\ \A i \in DOMAIN confirms : confirms'[i] = confirms[i]
  BY <1>1, <1>3, AppendGives DEF TypeOK
<1>6. /\ \A i \in DOMAIN confirms' : i = n \/ i \in DOMAIN confirms
      /\ \A i \in DOMAIN confirms : i \in DOMAIN confirms' /\ i < n
  BY <1>5
<1>7. \A k \in DOMAIN unconfirmed : unconfirmed[k][1] \in Nat \ {0}
  BY DEF Tags, Numbered, TypeOK
<1>8. \A k \in DOMAIN unconfirmed :
        Covers(c, unconfirmed[k][1]) => unconfirmed[k][1] \in tags \cup settled
  BY <1>2, <1>4, <1>7 DEF Covers
<1>9. \A k \in DOMAIN unconfirmed : unconfirmed[k][1] \in tags => Covers(c, unconfirmed[k][1])
  BY <1>2, <1>4, <1>7 DEF Covers
<1>10. BrokerInv'
  <2>1. tags \subseteq DOMAIN outcome
    BY <1>2
  <2> QED  BY <1>1, <2>1 DEF Tags, BrokerInv
<1> HIDE DEF tags, n
<1>11. Numbered' /\ CountAgrees' /\ OwnPublish' /\ GivenUp'
  BY <1>1 DEF Tags, Numbered, CountAgrees, OwnPublish, GivenUp
<1>12. ConfirmsDecided'
  BY <1>1, <1>4, <1>5, <1>6 DEF Tags, ConfirmsDecided
<1>13. SettledCovered'
  <2> SUFFICES ASSUME NEW k \in DOMAIN unconfirmed, unconfirmed[k][1] \in settled'
               PROVE  \E i \in DOMAIN confirms' : Covers(confirms'[i], unconfirmed[k][1])
    BY <1>1 DEF SettledCovered
  <2>1. CASE unconfirmed[k][1] \in tags
    <3>1. n \in DOMAIN confirms'
      BY <1>5 DEF n
    <3> QED  BY <1>5, <1>9, <2>1, <3>1
  <2>2. CASE unconfirmed[k][1] \in settled
    BY <1>5, <1>6, <2>2 DEF Tags, SettledCovered
  <2> QED  BY <1>1, <2>1, <2>2
<1>14. FirstDecides'
  <2> SUFFICES ASSUME NEW k \in DOMAIN unconfirmed, NEW i \in DOMAIN confirms',
                      Covers(confirms'[i], unconfirmed[k][1]),
                      \A j \in DOMAIN confirms' :
                        j < i => ~Covers(confirms'[j], unconfirmed[k][1])
               PROVE  confirms'[i].variant = outcome[unconfirmed[k][1]]
    BY <1>1 DEF FirstDecides
  <2>1. CASE i \in DOMAIN confirms
    BY <1>5, <1>6, <2>1 DEF Tags, FirstDecides
  <2>2. CASE i = n
    <3>1. \A j \in DOMAIN confirms : ~Covers(confirms[j], unconfirmed[k][1])
      BY <1>5, <1>6, <2>2
    <3>2. unconfirmed[k][1] \notin settled
      BY <3>1 DEF Tags, SettledCovered
    <3>3. unconfirmed[k][1] \in tags
      BY <1>5, <1>8, <2>2, <3>2
    <3> QED  BY <1>1, <1>4, <1>5, <2>2, <3>3
  <2> QED  BY <1>6, <2>1, <2>2
<1> QED  BY <1>10, <1>11, <1>12, <1>13, <1>14 DEF Tags

LEMMA TagsStep == TypeOK /\ TypeOK' /\ Control /\ Tags /\ [Next]_vars => Tags'
<1> SUFFICES ASSUME TypeOK, TypeOK', Control, Tags, [Next]_vars PROVE Tags'
  OBVIOUS
<1> USE DEF taskVars, queues, brokerVars
<1>1. ASSUME UNCHANGED <<connVars, channel>> PROVE Works' = Works
  BY <1>1 DEF connVars, Works
<1>2. ASSUME NEW m \in Messages, Send(m) PROVE Tags'
  BY <1>1, <1>2, TagsKept DEF Send
<1>3. CASE Stop \/ ConnectionChanged \/ WaitingForConnection
  BY <1>1, <1>3, TagsKept DEF Stop, ConnectionChanged, WaitingForConnection
<1>4. CASE ProcessConfirm
  BY <1>4, ProcessConfirmTags
<1>5. CASE Publish
  BY <1>5, PublishTags
<1>6. CASE PublishFails
  <2>1. /\ message_count' = message_count + 1 /\ message_count \in Nat
        /\ state' = "ProcessingPendingConfirmations"
        /\ UNCHANGED <<unconfirmed, confirms, log, outcome, settled, stored>>
    BY <1>6 DEF PublishFails, TypeOK
  <2>2. Numbered'
    BY <2>1 DEF Tags, Numbered
  <2> QED  BY <2>1, <2>2 DEF Tags, BrokerInv, CountAgrees, OwnPublish, GivenUp,
             SettledCovered, FirstDecides, ConfirmsDecided
<1>7. CASE RequeueUnconfirmed
  <2>1. Without(unconfirmed, 1, unconfirmed')
    BY <1>7, TailWithout DEF RequeueUnconfirmed, TypeOK
  <2>2. Works' = Works
    BY <1>1, <1>7 DEF RequeueUnconfirmed
  <2> QED  BY <1>7, <2>1, <2>2, TagsFewer DEF RequeueUnconfirmed
<1>8. CASE PendingProcessed
  <2>1. /\ unconfirmed = << >> /\ state' = "RecreatingChannel"
        /\ UNCHANGED <<unconfirmed, message_count, confirms, log, outcome, settled, stored>>
    BY <1>8 DEF PendingProcessed
  <2> QED  BY <2>1 DEF Tags, BrokerInv, Numbered, CountAgrees, OwnPublish, GivenUp,
             SettledCovered, FirstDecides, ConfirmsDecided
<1>9. CASE RecreatingChannel
  <2>1. /\ unconfirmed = << >> /\ unconfirmed' = << >> /\ state' = "RestoringProducer"
        /\ log' = << >> /\ outcome' = << >> /\ settled' = {}
    BY <1>9 DEF RecreatingChannel, Tags, GivenUp
  <2> QED  BY <2>1 DEF Tags, BrokerInv, Numbered, CountAgrees, OwnPublish, GivenUp,
             SettledCovered, FirstDecides, ConfirmsDecided
<1>10. CASE RestoringProducer
  <2>1. /\ unconfirmed = << >> /\ unconfirmed' = << >> /\ log = << >> /\ log' = << >>
        /\ UNCHANGED <<outcome, settled, stored>>
        /\ \/ state' = "Ok" /\ message_count' = 0
           \/ state' = "RecreatingChannel"
    BY <1>10 DEF RestoringProducer, Tags, GivenUp
  <2> QED  BY <2>1 DEF Tags, BrokerInv, Numbered, CountAgrees, OwnPublish, GivenUp,
             SettledCovered, FirstDecides, ConfirmsDecided
<1>11. ASSUME NEW v \in Variants, Decide(v) PROVE Tags'
  BY <1>11, DecideTags
<1>12. ASSUME NEW tag \in DOMAIN outcome, NEW multiple \in BOOLEAN,
              PublisherConfirm(tag, multiple)
       PROVE  Tags'
  BY <1>12, PublisherConfirmTags
<1>13. ASSUME NEW active \in BOOLEAN, Flow(active) PROVE Tags'
  BY <1>1, <1>13, TagsKept DEF Flow
<1>14. CASE CloseChannel \/ SeeClosed
  <2>1. ~Works'
    BY <1>14 DEF CloseChannel, SeeClosed, TypeOK, Channel, Works
  <2> QED  BY <1>14, <2>1, TagsKept DEF CloseChannel, SeeClosed
<1>15. CASE ConnectionStep
  <2>1. Works' => Works
    BY <1>15, ConnectionMoves DEF Control
  <2> QED  BY <1>15, <2>1, TagsKept DEF ConnectionStep
<1>16. CASE UNCHANGED vars
  BY <1>1, <1>16, TagsKept DEF vars
<1> QED  BY <1>2, <1>3, <1>4, <1>5, <1>6, <1>7, <1>8, <1>9, <1>10, <1>11, <1>12, <1>13,
            <1>14, <1>15, <1>16 DEF Next, Task, Broker

-----------------------------------------------------------------------------
(* The hands *)

MessagesOf(u) == {u[k][2] : k \in DOMAIN u}
OnceIn(u) == \A j, k \in DOMAIN u : u[j][2] = u[k][2] => j = k

\* Hands in terms of the two queues.
HandsForm ==
  /\ InHand = ToSet(pending) \cup MessagesOf(unconfirmed)
  /\ QueuedOnce <=> /\ Once(pending) /\ OnceIn(unconfirmed)
                    /\ ToSet(pending) \cap MessagesOf(unconfirmed) = {}

LEMMA HandsAre == HandsForm /\ HandsForm'
BY DEF HandsForm, InHand, QueuedOnce, Once, OnceIn, MessagesOf

LEMMA WithoutOnce ==
  ASSUME NEW u \in Seq(Nat \X Messages), NEW k \in DOMAIN u, OnceIn(u),
         NEW w \in Seq(Nat \X Messages), Without(u, k, w)
  PROVE  OnceIn(w) /\ MessagesOf(w) = MessagesOf(u) \ {u[k][2]}
<1>1. \A i, j \in DOMAIN w : i < j \/ j < i \/ i = j
  OBVIOUS
<1>2. \A p, q \in DOMAIN u : p < q => p # q
  OBVIOUS
<1>3. ASSUME NEW i \in DOMAIN w, NEW j \in DOMAIN w, i < j PROVE w[i][2] # w[j][2]
  <2>1. PICK p \in DOMAIN u, q \in DOMAIN u : p < q /\ w[i] = u[p] /\ w[j] = u[q]
    BY <1>3 DEF Without
  <2> QED  BY <1>2, <2>1 DEF OnceIn
<1>4. OnceIn(w)
  BY <1>1, <1>3 DEF OnceIn
<1>5. MessagesOf(w) \subseteq MessagesOf(u) \ {u[k][2]}
  BY DEF Without, OnceIn, MessagesOf
<1>6. MessagesOf(u) \ {u[k][2]} \subseteq MessagesOf(w)
  BY DEF Without, MessagesOf
<1> QED  BY <1>4, <1>5, <1>6

LEMMA AppendOnceIn ==
  ASSUME NEW u \in Seq(Nat \X Messages), NEW e \in Nat \X Messages, OnceIn(u),
         e[2] \notin MessagesOf(u)
  PROVE  OnceIn(Append(u, e)) /\ MessagesOf(Append(u, e)) = MessagesOf(u) \cup {e[2]}
<1> DEFINE w == Append(u, e)
           n == Len(u) + 1
<1>1. /\ DOMAIN u = 1 .. Len(u) /\ Len(u) \in Nat /\ DOMAIN w = 1 .. n
      /\ w[n] = e /\ \A j \in DOMAIN u : w[j] = u[j]
  BY AppendGives
<1>2. /\ \A j \in DOMAIN w : j = n \/ j \in DOMAIN u
      /\ n \in DOMAIN w /\ DOMAIN u \subseteq DOMAIN w
  BY <1>1
<1> HIDE DEF w, n
<1>3. \A j \in DOMAIN u : u[j][2] # e[2]
  BY DEF MessagesOf
<1>4. OnceIn(w)
  BY <1>1, <1>2, <1>3 DEF OnceIn
<1>5. MessagesOf(w) = MessagesOf(u) \cup {e[2]}
  BY <1>1, <1>2 DEF MessagesOf
<1> QED  BY <1>4, <1>5 DEF w

LEMMA HandsInit == Init => Hands
<1> SUFFICES ASSUME Init PROVE Hands
  OBVIOUS
<1>1. /\ pending = << >> /\ unconfirmed = << >> /\ log = << >> /\ stored = {} /\ sent = {}
  BY DEF Init
<1>2. ToSet(pending) = {} /\ ToSet(log) = {} /\ InHand = {}
  BY <1>1 DEF ToSet, InHand
<1> QED  BY <1>1, <1>2 DEF Hands, NothingLost, QueuedOnce, OnlySent

\* Steps that leave the queues alone and store what was sent.
LEMMA HandsKept ==
  ASSUME Hands, UNCHANGED <<pending, unconfirmed, sent>>,
         log' = log \/ log' = << >>,
         stored \subseteq stored', stored' \subseteq stored \cup ToSet(log),
         state = "Stopped" => state' = "Stopped"
  PROVE  Hands'
<1>1. InHand' = InHand /\ ToSet(pending)' = ToSet(pending)
  BY DEF InHand
<1>2. ToSet(log)' \subseteq ToSet(log)
  BY DEF ToSet
<1>3. OnlySent'
  BY <1>1, <1>2 DEF Hands, OnlySent
<1>4. QueuedOnce'
  BY <1>1 DEF Hands, QueuedOnce
<1>5. NothingLost'
  BY <1>1 DEF Hands, NothingLost
<1> QED  BY <1>3, <1>4, <1>5 DEF Hands

LEMMA SendHands ==
  ASSUME TypeOK, TypeOK', Hands, NEW m \in Messages, Send(m)
  PROVE  Hands'
<1>1. /\ pending' = Append(pending, m) /\ sent' = sent \cup {m} /\ m \notin sent
      /\ UNCHANGED <<unconfirmed, log, stored, state>>
  BY DEF Send, taskVars, brokerVars
<1>2. m \notin InHand
  BY <1>1 DEF Hands, OnlySent
<1>3. m \notin ToSet(pending) /\ m \notin MessagesOf(unconfirmed)
  BY <1>2, HandsAre DEF HandsForm
<1>4. Once(pending) /\ OnceIn(unconfirmed) /\ ToSet(pending) \cap MessagesOf(unconfirmed) = {}
  BY HandsAre DEF Hands, HandsForm
<1>5. Once(pending') /\ ToSet(pending') = ToSet(pending) \cup {m}
  BY <1>1, <1>3, <1>4, AppendOnce, AppendElements DEF TypeOK
<1>6. InHand' = InHand \cup {m} /\ QueuedOnce'
  BY <1>1, <1>3, <1>4, <1>5, HandsAre DEF HandsForm
<1> QED  BY <1>1, <1>6 DEF Hands, NothingLost, OnlySent

\* The message at the front leaves the queue and is unconfirmed.
LEMMA PublishHands ==
  ASSUME TypeOK, Hands, Publish
  PROVE  Hands'
<1> DEFINE m == Head(pending)
           e == <<message_count + 1, m>>
<1>1. /\ pending # << >> /\ pending' = Tail(pending) /\ unconfirmed' = Append(unconfirmed, e)
      /\ log' = Append(log, m) \/ log' = log
      /\ UNCHANGED <<stored, sent, state>>
  BY DEF Publish, CanPublish, taskVars
<1>2. m \in Messages /\ e \in Nat \X Messages /\ e[2] = m
  BY <1>1 DEF TypeOK
<1> HIDE DEF e, m
<1>3. Once(pending) /\ OnceIn(unconfirmed) /\ ToSet(pending) \cap MessagesOf(unconfirmed) = {}
  BY HandsAre DEF Hands, HandsForm
<1>4. /\ ToSet(pending) = {m} \cup ToSet(pending') /\ Once(pending') /\ m \notin ToSet(pending')
  BY <1>1, <1>3, TailElements, TailOnce DEF TypeOK, m
<1>5. m \notin MessagesOf(unconfirmed)
  BY <1>3, <1>4
<1>6. OnceIn(unconfirmed') /\ MessagesOf(unconfirmed') = MessagesOf(unconfirmed) \cup {m}
  BY <1>1, <1>2, <1>5, <1>3, AppendOnceIn DEF TypeOK
<1>7. QueuedOnce'
  BY <1>3, <1>4, <1>6, HandsAre DEF HandsForm
<1>8. InHand' = InHand /\ m \in InHand
  BY <1>4, <1>6, HandsAre DEF HandsForm
<1>9. ToSet(log') \subseteq ToSet(log) \cup {m}
  <2>1. ToSet(Append(log, m)) = ToSet(log) \cup {m}
    BY <1>2, AppendElements DEF TypeOK
  <2> QED  BY <1>1, <2>1
<1> QED  BY <1>1, <1>7, <1>8, <1>9 DEF Hands, NothingLost, OnlySent

\* The message at the front goes to the end of the queue.
LEMMA PublishFailsHands ==
  ASSUME TypeOK, Hands, PublishFails
  PROVE  Hands'
<1> DEFINE m == Head(pending)
           t == Tail(pending)
<1>1. /\ pending # << >> /\ pending' = Append(t, m)
      /\ state # "Stopped" /\ UNCHANGED <<unconfirmed, log, stored, sent>>
  BY DEF PublishFails, CanPublish, brokerVars
<1>2. m \in Messages /\ t \in Seq(Messages)
  BY <1>1 DEF TypeOK
<1>3. Once(pending) /\ OnceIn(unconfirmed) /\ ToSet(pending) \cap MessagesOf(unconfirmed) = {}
  BY HandsAre DEF Hands, HandsForm
<1>4. ToSet(pending) = {m} \cup ToSet(t) /\ Once(t) /\ m \notin ToSet(t)
  BY <1>1, <1>3, TailElements, TailOnce DEF TypeOK
<1> HIDE DEF m, t
<1>5. ToSet(pending') = ToSet(pending) /\ Once(pending')
  BY <1>1, <1>2, <1>4, AppendElements, AppendOnce
<1>6. InHand' = InHand /\ QueuedOnce'
  BY <1>1, <1>3, <1>5, HandsAre DEF HandsForm
<1> QED  BY <1>1, <1>6 DEF Hands, NothingLost, OnlySent

\* An unconfirmed message goes back to the queue.
LEMMA Requeued ==
  ASSUME TypeOK, TypeOK', Hands, NEW k \in DOMAIN unconfirmed, state # "Stopped",
         Without(unconfirmed, k, unconfirmed'),
         pending' = Append(pending, unconfirmed[k][2]),
         UNCHANGED <<log, stored, sent>>
  PROVE  Hands'
<1> DEFINE m == unconfirmed[k][2]
<1>1. m \in Messages /\ m \in MessagesOf(unconfirmed)
  <2>1. unconfirmed \in Seq(Nat \X Messages)
    BY DEF TypeOK
  <2>2. unconfirmed[k] \in Nat \X Messages
    BY <2>1
  <2> QED  BY <2>2 DEF MessagesOf
<1>2. pending' = Append(pending, m)
  OBVIOUS
<1>3. Once(pending) /\ OnceIn(unconfirmed) /\ ToSet(pending) \cap MessagesOf(unconfirmed) = {}
  BY HandsAre DEF Hands, HandsForm
<1>4. OnceIn(unconfirmed') /\ MessagesOf(unconfirmed') = MessagesOf(unconfirmed) \ {m}
  BY <1>3, WithoutOnce DEF TypeOK
<1> HIDE DEF m
<1>5. m \notin ToSet(pending)
  BY <1>1, <1>3
<1>6. ToSet(pending') = ToSet(pending) \cup {m} /\ Once(pending')
  BY <1>1, <1>2, <1>3, <1>5, AppendElements, AppendOnce DEF TypeOK
<1>7. QueuedOnce' /\ InHand' = InHand
  BY <1>1, <1>3, <1>4, <1>6, HandsAre DEF HandsForm
<1> QED  BY <1>7 DEF Hands, NothingLost, OnlySent

\* An ack takes what the broker has.
LEMMA AckedIsStored ==
  ASSUME TypeOK, Tags, confirms # << >>, Head(confirms).variant = "Ack",
         NEW k \in DOMAIN unconfirmed, Covers(Head(confirms), unconfirmed[k][1])
  PROVE  unconfirmed[k][2] \in stored
<1> DEFINE tag == unconfirmed[k][1]
           c == Head(confirms)
<1>1. c = confirms[1] /\ 1 \in DOMAIN confirms /\ \A j \in DOMAIN confirms : ~(j < 1)
  <2>1. DOMAIN confirms = 1 .. Len(confirms) /\ Len(confirms) \in Nat \ {0}
    BY DEF TypeOK
  <2> QED  BY <2>1
<1>2. c.delivery_tag \in DOMAIN outcome
  BY <1>1 DEF Tags, ConfirmsDecided
<1>3. outcome[tag] = "Ack"
  BY <1>1 DEF Tags, FirstDecides
<1>4. tag \in 1 .. message_count /\ message_count \in Nat
  BY DEF Tags, Numbered, TypeOK
<1>5. /\ DOMAIN outcome = 1 .. Len(outcome) /\ Len(outcome) \in Nat
      /\ DOMAIN log = 1 .. Len(log) /\ Len(log) \in Nat /\ Len(outcome) <= Len(log)
  BY DEF Tags, BrokerInv, TypeOK
<1>6. tag <= c.delivery_tag
  BY <1>2, <1>4, <1>5 DEF Covers
<1>7. tag \in DOMAIN outcome /\ tag \in DOMAIN log
  BY <1>2, <1>4, <1>5, <1>6
<1> QED  BY <1>3, <1>7 DEF Tags, BrokerInv, OwnPublish

LEMMA ProcessConfirmHands ==
  ASSUME TypeOK, TypeOK', Tags, Hands, ProcessConfirm
  PROVE  Hands'
<1>1. state # "Stopped" /\ UNCHANGED <<state, log, stored, sent>> /\ confirms # << >>
  BY DEF ProcessConfirm, taskVars, brokerVars
<1>2. CASE unconfirmed' = unconfirmed /\ pending' = pending
  BY <1>1, <1>2, HandsKept
<1>3. ASSUME NEW k \in DOMAIN unconfirmed, Covers(Head(confirms), unconfirmed[k][1]),
             unconfirmed' = RemoveAt(unconfirmed, k),
             pending' = IF Head(confirms).variant = "Ack" THEN pending
                        ELSE Append(pending, unconfirmed[k][2])
      PROVE  Hands'
  <2>1. Without(unconfirmed, k, unconfirmed')
    BY <1>3, RemoveAtWithout DEF TypeOK
  <2>2. CASE Head(confirms).variant # "Ack"
    BY <1>1, <1>3, <2>1, <2>2, Requeued
  <2>3. CASE Head(confirms).variant = "Ack"
    <3> DEFINE m == unconfirmed[k][2]
    <3>1. m \in stored
      BY <1>1, <1>3, <2>3, AckedIsStored
    <3>2. Once(pending) /\ OnceIn(unconfirmed) /\ ToSet(pending) \cap MessagesOf(unconfirmed) = {}
      BY HandsAre DEF Hands, HandsForm
    <3>3. OnceIn(unconfirmed') /\ MessagesOf(unconfirmed') = MessagesOf(unconfirmed) \ {m}
      BY <2>1, <3>2, WithoutOnce DEF TypeOK
    <3> HIDE DEF m
    <3>4. pending' = pending
      BY <1>3, <2>3
    <3>5. QueuedOnce' /\ InHand' \subseteq InHand /\ InHand \subseteq InHand' \cup {m}
      BY <3>2, <3>3, <3>4, HandsAre DEF HandsForm
    <3> QED  BY <1>1, <3>1, <3>5 DEF Hands, NothingLost, OnlySent
  <2> QED  BY <2>2, <2>3
<1> QED
  <2>1. Numbered
    BY DEF Tags
  <2> QED  BY <1>2, <1>3, <2>1, ProcessConfirmDoes

LEMMA HandsStep == TypeOK /\ TypeOK' /\ Tags /\ Hands /\ [Next]_vars => Hands'
<1> SUFFICES ASSUME TypeOK, TypeOK', Tags, Hands, [Next]_vars PROVE Hands'
  OBVIOUS
<1> USE DEF taskVars, queues, brokerVars
<1>1. ASSUME NEW m \in Messages, Send(m) PROVE Hands'
  BY <1>1, SendHands
<1>2. CASE Stop \/ ConnectionChanged \/ WaitingForConnection \/ PendingProcessed
           \/ RecreatingChannel \/ RestoringProducer
  BY <1>2, HandsKept DEF Stop, ConnectionChanged, WaitingForConnection, PendingProcessed,
                         RecreatingChannel, RestoringProducer
<1>3. CASE ProcessConfirm
  BY <1>3, ProcessConfirmHands
<1>4. CASE Publish
  BY <1>4, PublishHands
<1>5. CASE PublishFails
  BY <1>5, PublishFailsHands
<1>6. CASE RequeueUnconfirmed
  <2>1. /\ unconfirmed # << >> /\ unconfirmed' = Tail(unconfirmed) /\ state # "Stopped"
        /\ pending' = Append(pending, Head(unconfirmed)[2]) /\ UNCHANGED <<log, stored, sent>>
    BY <1>6 DEF RequeueUnconfirmed
  <2>2. Without(unconfirmed, 1, unconfirmed') /\ 1 \in DOMAIN unconfirmed
    BY <2>1, TailWithout DEF TypeOK
  <2>3. Head(unconfirmed) = unconfirmed[1]
    BY <2>1 DEF TypeOK
  <2> QED  BY <2>1, <2>2, <2>3, Requeued
<1>7. ASSUME NEW v \in Variants, Decide(v) PROVE Hands'
  <2>1. Len(outcome) + 1 \in DOMAIN log
    BY <1>7 DEF Decide, TypeOK
  <2>2. log[Len(outcome) + 1] \in ToSet(log)
    BY <2>1 DEF ToSet
  <2> QED  BY <1>7, <2>2, HandsKept DEF Decide
<1>8. ASSUME NEW tag, NEW multiple, PublisherConfirm(tag, multiple) PROVE Hands'
  BY <1>8, HandsKept DEF PublisherConfirm
<1>9. CASE (\E active \in BOOLEAN : Flow(active)) \/ CloseChannel \/ SeeClosed \/ ConnectionStep
  BY <1>9, HandsKept DEF Flow, CloseChannel, SeeClosed, ConnectionStep
<1>10. CASE UNCHANGED vars
  BY <1>10, HandsKept DEF vars
<1> QED  BY <1>1, <1>2, <1>3, <1>4, <1>5, <1>6, <1>7, <1>8, <1>9, <1>10 DEF Next, Task, Broker

-----------------------------------------------------------------------------
(* The theorems *)

\* The strengthening is inductive, so it holds of every behaviour.
THEOREM Inductive == Spec => []IInv
<1>1. Init => IInv
  BY TypeOKInit, ControlInit, TagsInit, HandsInit DEF IInv
<1>2. IInv /\ [Next]_vars => IInv'
  BY TypeOKStep, ControlStep, TagsStep, HandsStep DEF IInv
<1> QED  BY <1>1, <1>2, PTL DEF Spec

\* Every variable of the producer keeps its type.
THEOREM ProducerTypes == Spec => []TypeOK
<1>1. IInv => TypeOK
  BY DEF IInv
<1> QED  BY <1>1, Inductive, PTL

\* Whatever fails between its send and its confirm, a message is in the queue or
\* unconfirmed, never in both, or the broker has it.
THEOREM MessagesKept == Spec => []KeptOnce
<1>1. IInv => KeptOnce
  BY DEF IInv, Hands, KeptOnce
<1> QED  BY <1>1, Inductive, PTL

\* However publishes fail and channels are replaced, message_count is the delivery
\* tag of the next publish and a tag in unconfirmed_messages names its own message.
THEOREM TagsNamePublishes == Spec => []TagsAgree
<1>1. IInv => TagsAgree
  BY DEF IInv, Tags, CountAgrees, OwnPublish, TagsAgree
<1> QED  BY <1>1, Inductive, PTL

\* The task that holds a replaced connection has a change to look at, and the
\* connection handed out is the newest one.
THEOREM ConnectionFollowed == Spec => []OnCurrentConnection
<1>1. IInv => OnCurrentConnection
  BY DEF IInv, Control, ConnectionInv, OnCurrentConnection, ConnectionNeverStale
<1> QED  BY <1>1, Inductive, PTL

\* What waits at the abstract level is what was sent and is not stored.
Waiting == IF state = "Stopped" THEN {} ELSE InHand \ stored

LEMMA ReliableStep ==
  ASSUME IInv, IInv', [Next]_vars
  PROVE  [Reliable!Next]_(Reliable!vars)
<1> USE DEF taskVars, queues, brokerVars
<1>1. /\ Waiting = IF state = "Stopped" THEN {} ELSE sent \ stored
      /\ Waiting' = IF state' = "Stopped" THEN {} ELSE sent' \ stored'
      /\ stored \subseteq sent /\ stored' \subseteq sent'
  BY DEF IInv, Hands, NothingLost, OnlySent, Waiting
<1>2. ASSUME UNCHANGED <<sent, stored>>, state' = "Stopped" <=> state = "Stopped"
      PROVE  UNCHANGED Reliable!vars
  <2>1. Waiting' = Waiting /\ stored' = stored
    BY <1>1, <1>2
  <2>2. (state' = "Stopped") = (state = "Stopped")
    BY <1>2
  <2> QED  BY <2>1, <2>2 DEF Reliable!vars, Waiting
<1>3. ASSUME NEW m \in Messages, Send(m) PROVE Reliable!Send(m)
  <2>1. /\ state # "Stopped" /\ state' = state /\ m \notin sent /\ sent' = sent \cup {m}
        /\ stored' = stored
    BY <1>3 DEF Send
  <2>2. Waiting' = Waiting \cup {m} /\ m \notin Waiting \cup stored
    BY <1>1, <2>1
  <2> QED  BY <2>1, <2>2 DEF Reliable!Send, Waiting
<1>4. CASE Stop
  <2>1. state' = "Stopped" /\ stored' = stored
    BY <1>4 DEF Stop
  <2>2. Waiting' = {}
    BY <1>1, <2>1
  <2> QED  BY <2>1, <2>2 DEF Reliable!Next, Reliable!Close, Waiting
<1>5. ASSUME NEW v \in Variants, Decide(v) PROVE [Reliable!Next]_(Reliable!vars)
  <2> DEFINE m == log[Len(outcome) + 1]
  <2>1. /\ state # "Stopped" /\ state' = state /\ sent' = sent
        /\ stored' = IF v = "Ack" THEN stored \cup {m} ELSE stored
        /\ Len(outcome) < Len(log)
    BY <1>5 DEF Decide, Listening
  <2>2. m \in sent /\ m \in Messages
    <3>1. Len(outcome) + 1 \in DOMAIN log
      BY <2>1 DEF IInv, TypeOK
    <3>2. m \in ToSet(log)
      BY <3>1 DEF ToSet
    <3> QED  BY <3>2 DEF IInv, Hands, OnlySent, TypeOK
  <2> HIDE DEF m
  <2>3. CASE stored' = stored
    BY <1>2, <2>1, <2>3
  <2>4. CASE stored' # stored
    <3>1. stored' = stored \cup {m} /\ m \notin stored
      BY <2>1, <2>4
    <3>2. m \in Waiting /\ Waiting' = Waiting \ {m}
      BY <1>1, <2>1, <2>2, <3>1
    <3>3. (state' = "Stopped") = (state = "Stopped")
      BY <2>1
    <3>4. Reliable!Store(m)
      BY <3>1, <3>2, <3>3 DEF Reliable!Store, Waiting
    <3> QED  BY <2>2, <3>4 DEF Reliable!Next
  <2> QED  BY <2>3, <2>4
<1>6. \* What happens in the queues, to the connection and to the channel is not seen.
      CASE Task \/ CloseChannel \/ SeeClosed \/ ConnectionStep \/ UNCHANGED vars
           \/ (\E active \in BOOLEAN : Flow(active))
           \/ (\E tag \in DOMAIN outcome, multiple \in BOOLEAN : PublisherConfirm(tag, multiple))
  <2>1. UNCHANGED <<sent, stored>> /\ (state' = "Stopped" <=> state = "Stopped")
    BY <1>6 DEF Task, ConnectionChanged, WaitingForConnection, ProcessConfirm, Publish,
                PublishFails, CanPublish, RequeueUnconfirmed, PendingProcessed,
                RecreatingChannel, RestoringProducer, CloseChannel, SeeClosed,
                ConnectionStep, Flow, PublisherConfirm, vars
  <2> QED  BY <1>2, <2>1
<1> QED
  <2>1. ASSUME NEW m \in Messages, Send(m) PROVE [Reliable!Next]_(Reliable!vars)
    BY <1>3, <2>1 DEF Reliable!Next
  <2> QED  BY <1>4, <1>5, <1>6, <2>1 DEF Next, Broker

LEMMA ReliableInit == Init => Reliable!Init
<1> SUFFICES ASSUME Init PROVE Reliable!Init
  OBVIOUS
<1>1. InHand = {}
  BY DEF Init, InHand, ToSet
<1> QED  BY <1>1 DEF Init, Reliable!Init

\* The producer implements AtLeastOnce: a message leaves its hands only for the
\* broker's queues, or when the producer is closed.
THEOREM ProducerReliable == Spec => ReliableSpec
<1>1. Init => Reliable!Init
  BY ReliableInit
<1>2. IInv /\ IInv' /\ [Next]_vars => [Reliable!Next]_(Reliable!vars)
  BY ReliableStep
<1> QED  BY <1>1, <1>2, Inductive, PTL DEF Spec, ReliableSpec, Reliable!Spec

=============================================================================
