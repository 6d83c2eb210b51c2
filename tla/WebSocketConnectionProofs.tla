----------------------- MODULE WebSocketConnectionProofs -----------------------
(***************************************************************************)
(* The task of a websocket, for any messages, intervals, retries and       *)
(* buffers: the client gets the messages in order and without a gap, each  *)
(* stays queued until its own confirmation, the front of the queue is due  *)
(* first, and nothing is given up before its last retry.  To the service   *)
(* and the client a connection is a Mailbox.                               *)
(*                                                                         *)
(* The invariant follows a message from the channel (Flow) into the queue  *)
(* and out of it (Books): where it is tells how often it was sent and      *)
(* whether its callback was executed.  It says nothing of the books of a   *)
(* connection that closes, which has lost what it was sending.             *)
(***************************************************************************)
EXTENDS WebSocketConnection, SequenceTheorems, TLAPS

-----------------------------------------------------------------------------
(* The inductive invariant *)

\* What pc says of the other variables.
Control ==
  /\ pc \in {"message", "retry"} => current \in Unconfirmed
  /\ pc = "ping" => pings_sent <= 1
  /\ Running => reason = None

\* The messages in the order they were sent: those the client got, the one in
\* hand, and those in the channel unless it has overwritten some.
Taken == Len(first_sent) + IF pc = "message" THEN 1 ELSE 0

Flow ==
  /\ \A j, k \in DOMAIN published : published[j] = published[k] => j = k
  /\ Taken <= Len(published)
  /\ \A k \in DOMAIN first_sent : first_sent[k] = published[k]
  /\ pc = "message" => current.message = published[Len(first_sent) + 1]
  /\ Running /\ ~lagged =>
       /\ Len(published) = Taken + Len(inbox)
       /\ \A k \in DOMAIN inbox : inbox[k] = published[Taken + k]

\* What is being resent is due after everything in the queue.
Order ==
  /\ QueueInOrder
  /\ pc = "retry" => \A k \in DOMAIN unconfirmed : unconfirmed[k].retry_at <= current.retry_at

\* A message that is queued with a number of retries left was sent, that often,
\* and not confirmed.
Accounted(q, total, first, sent, done) ==
  /\ q.message \in ToSet(first) /\ done[q.message] = 0
  /\ sent[q.message] + q.retries_remaining = total

Owed(q, total) == Accounted(q, total, first_sent, sends, called)

Entries ==
  /\ \A k \in DOMAIN unconfirmed : Owed(unconfirmed[k], RetryMaxCount + 1)
  /\ \A j, k \in DOMAIN unconfirmed :
       unconfirmed[j].message = unconfirmed[k].message => j = k

InSending ==
  /\ pc = "message" => current.retries_remaining = RetryMaxCount
  /\ pc = "retry" =>
       /\ Owed(current, RetryMaxCount)
       /\ \A k \in DOMAIN unconfirmed : unconfirmed[k].message # current.message

Others ==
  /\ \A m \in Messages : m \notin ToSet(first_sent) => sends[m] = 0 /\ called[m] = 0
  /\ \A m \in ToSet(first_sent) :
       \/ \E k \in DOMAIN unconfirmed : unconfirmed[k].message = m
       \/ pc = "retry" /\ current.message = m
       \/ called[m] = 1

Books == Running => Entries /\ InSending /\ Others

\* Sent no more often than it may be; and when a message is given up.
GivenUp ==
  /\ \A m \in Messages : sends[m] <= RetryMaxCount + 1
  /\ reason = "not confirmed in time" =>
       /\ current \in Unconfirmed
       /\ sends[current.message] = RetryMaxCount + 1
       /\ incoming = << >>

\* What every step of the task, the service, the client and time preserves.
IInv == TypeOK /\ Control /\ Flow /\ Order /\ Books /\ GivenUp

-----------------------------------------------------------------------------
(* The queues *)

LEMMA RemoveAtGives ==
  ASSUME NEW S, NEW s \in Seq(S), NEW k \in DOMAIN s
  PROVE  /\ RemoveAt(s, k) \in Seq(S)
         /\ Len(RemoveAt(s, k)) = Len(s) - 1
         /\ DOMAIN RemoveAt(s, k) = 1 .. Len(s) - 1
         /\ \A j \in 1 .. Len(s) - 1 :
              RemoveAt(s, k)[j] = s[IF j < k THEN j ELSE j + 1]
<1> DEFINE a == SubSeq(s, 1, k - 1)
           b == SubSeq(s, k + 1, Len(s))
           r == a \o b
<1>1. Len(s) \in Nat /\ k \in 1 .. Len(s) /\ k \in Int
  OBVIOUS
<1>2. /\ a \in Seq(S) /\ Len(a) = k - 1
      /\ \A j \in 1 .. k - 1 : a[j] = s[j]
  BY <1>1
<1>3. /\ b \in Seq(S) /\ Len(b) = Len(s) - k
      /\ \A j \in 1 .. Len(s) - k : b[j] = s[j + k]
  BY <1>1
<1> HIDE DEF a, b
<1>4. /\ r \in Seq(S) /\ Len(r) = Len(a) + Len(b)
      /\ \A j \in 1 .. Len(a) + Len(b) : r[j] = IF j <= Len(a) THEN a[j] ELSE b[j - Len(a)]
  BY <1>2, <1>3, ConcatProperties
<1> HIDE DEF r
<1>5. Len(r) = Len(s) - 1 /\ DOMAIN r = 1 .. Len(s) - 1
  BY <1>1, <1>2, <1>3, <1>4
<1>6. ASSUME NEW j \in 1 .. Len(s) - 1
      PROVE  r[j] = s[IF j < k THEN j ELSE j + 1]
  <2>1. j \in 1 .. Len(a) + Len(b) /\ Len(a) = k - 1
    BY <1>1, <1>2, <1>3
  <2>2. r[j] = IF j <= k - 1 THEN a[j] ELSE b[j - (k - 1)]
    BY <1>4, <2>1
  <2>3. CASE j < k
    <3>1. j \in 1 .. k - 1
      BY <1>1, <2>3
    <3> QED  BY <1>2, <2>2, <2>3, <3>1
  <2>4. CASE ~(j < k)
    <3>1. r[j] = b[j - (k - 1)]
      <4>1. ~(j <= k - 1)
        BY <1>1, <2>4
      <4> QED  BY <2>2, <4>1
    <3>2. j - (k - 1) \in 1 .. Len(s) - k /\ (j - (k - 1)) + k = j + 1
      BY <1>1, <2>4
    <3> QED  BY <1>3, <2>4, <3>1, <3>2
  <2> QED  BY <2>3, <2>4
<1>7. RemoveAt(s, k) = r
  BY DEF RemoveAt, r, a, b
<1> QED  BY <1>4, <1>5, <1>6, <1>7

\* What is behind the front moves up.
LEMMA TailGives ==
  ASSUME NEW S, NEW s \in Seq(S), s # << >>
  PROVE  /\ Tail(s) \in Seq(S) /\ Head(s) = s[1] /\ Len(s) \in Nat \ {0}
         /\ Len(Tail(s)) = Len(s) - 1 /\ DOMAIN Tail(s) = 1 .. Len(s) - 1
         /\ \A j \in 1 .. Len(s) - 1 : Tail(s)[j] = s[j + 1]
OBVIOUS

LEMMA AppendGives ==
  ASSUME NEW S, NEW s \in Seq(S), NEW e \in S
  PROVE  /\ Append(s, e) \in Seq(S) /\ Len(s) \in Nat
         /\ DOMAIN s = 1 .. Len(s)
         /\ Len(Append(s, e)) = Len(s) + 1 /\ DOMAIN Append(s, e) = 1 .. Len(s) + 1
         /\ Append(s, e)[Len(s) + 1] = e
         /\ \A j \in DOMAIN s : Append(s, e)[j] = s[j]
OBVIOUS

-----------------------------------------------------------------------------
(* Types *)

LEMMA TypeInit == Init => TypeOK /\ Control
<1> SUFFICES ASSUME Init PROVE TypeOK /\ Control
  OBVIOUS
<1>1. /\ << >> \in Seq(Unconfirmed) /\ << >> \in Seq(Messages) /\ << >> \in Seq(Out)
      /\ << >> \in Seq(In) /\ Len(<< >>) = 0
  OBVIOUS
<1>2. /\ PingInterval \in 0 .. PingInterval /\ 0 \in 0 .. 2
      /\ 0 <= BufferSize /\ 0 <= SocketBuffer /\ 0 \in Nat
  BY ConnectionAssumption
<1>3. TypeOK
  BY <1>1, <1>2 DEF Init, TypeOK
<1>4. Control
  BY DEF Init, Control
<1> QED  BY <1>3, <1>4

LEMMA ConfirmationTypes ==
  ASSUME TypeOK, NEW m \in Messages, ProcessConfirmation(m)
  PROVE  /\ unconfirmed' \in Seq(Unconfirmed) /\ called' \in [Messages -> Nat]
         /\ ping_time' \in 0 .. PingInterval /\ ping_message' \in Nat /\ pings_sent' \in 0 .. 2
<1>1. /\ unconfirmed \in Seq(Unconfirmed) /\ called \in [Messages -> Nat]
      /\ ping_time \in 0 .. PingInterval /\ ping_message \in Nat /\ pings_sent \in 0 .. 2
  BY DEF TypeOK
<1>2. CASE UNCHANGED <<timers, unconfirmed, called>>
  BY <1>1, <1>2 DEF timers
<1>3. ASSUME NEW k \in DOMAIN unconfirmed, unconfirmed' = RemoveAt(unconfirmed, k),
             called' = [called EXCEPT ![m] = @ + 1], Responsive
      PROVE  /\ unconfirmed' \in Seq(Unconfirmed) /\ called' \in [Messages -> Nat]
             /\ ping_time' \in 0 .. PingInterval /\ ping_message' \in Nat
             /\ pings_sent' \in 0 .. 2
  <2>1. unconfirmed' \in Seq(Unconfirmed)
    BY <1>1, <1>3, RemoveAtGives
  <2> QED  BY <1>1, <1>3, <2>1, ConnectionAssumption DEF Responsive
<1> QED  BY <1>2, <1>3 DEF ProcessConfirmation

\* A resent message has used one of its retries; time brings deadlines nearer.
LEMMA EntryTypes ==
  ASSUME NEW q \in Unconfirmed
  PROVE  /\ q.message \in Messages /\ q.retry_at \in 0 .. RetryInterval
         /\ q.retries_remaining \in 0 .. RetryMaxCount
         /\ [q EXCEPT !.retry_at = RetryInterval] \in Unconfirmed
         /\ [q EXCEPT !.retry_at = Earlier(@)] \in Unconfirmed
         /\ q.retries_remaining # 0 =>
              [q EXCEPT !.retry_at = RetryInterval, !.retries_remaining = @ - 1] \in Unconfirmed
<1>1. /\ q = [message |-> q.message, retry_at |-> q.retry_at,
               retries_remaining |-> q.retries_remaining]
      /\ q.message \in Messages /\ q.retry_at \in 0 .. RetryInterval
      /\ q.retries_remaining \in 0 .. RetryMaxCount
  BY DEF Unconfirmed
<1>2. /\ RetryInterval \in 0 .. RetryInterval /\ Earlier(q.retry_at) \in 0 .. RetryInterval
      /\ q.retries_remaining # 0 => q.retries_remaining - 1 \in 0 .. RetryMaxCount
  BY <1>1, ConnectionAssumption DEF Earlier
<1>3. \A a \in 0 .. RetryInterval : [q EXCEPT !.retry_at = a] \in Unconfirmed
  BY <1>1 DEF Unconfirmed
<1>4. \A a \in 0 .. RetryInterval, n \in 0 .. RetryMaxCount :
        [q EXCEPT !.retry_at = a, !.retries_remaining = n] \in Unconfirmed
  BY <1>1 DEF Unconfirmed
<1> QED  BY <1>1, <1>2, <1>3, <1>4

LEMMA NewType == \A m \in Messages : New(m) \in Unconfirmed
BY ConnectionAssumption DEF New, Unconfirmed

LEMMA TickTypes ==
  ASSUME TypeOK, Tick
  PROVE  /\ unconfirmed' \in Seq(Unconfirmed) /\ DOMAIN unconfirmed' = DOMAIN unconfirmed
         /\ \A k \in DOMAIN unconfirmed :
              unconfirmed'[k] = [unconfirmed[k] EXCEPT !.retry_at = Earlier(@)]
         /\ current \in Unconfirmed => current' \in Unconfirmed
         /\ current' \in Unconfirmed \cup {None}
<1>1. unconfirmed \in Seq(Unconfirmed) /\ current \in Unconfirmed \cup {None}
  BY DEF TypeOK
<1>2. /\ DOMAIN unconfirmed = 1 .. Len(unconfirmed) /\ Len(unconfirmed) \in Nat
      /\ \A k \in DOMAIN unconfirmed : unconfirmed[k] \in Unconfirmed
  BY <1>1
<1>3. unconfirmed' = [k \in 1 .. Len(unconfirmed) |->
                        [unconfirmed[k] EXCEPT !.retry_at = Earlier(@)]]
  BY <1>2 DEF Tick
<1>4. \A k \in 1 .. Len(unconfirmed) :
        [unconfirmed[k] EXCEPT !.retry_at = Earlier(@)] \in Unconfirmed
  BY <1>2, EntryTypes
<1>5. unconfirmed' \in Seq(Unconfirmed)
  BY <1>2, <1>3, <1>4
<1>6. current \in Unconfirmed => current' \in Unconfirmed
  BY EntryTypes DEF Tick
<1>7. current = None => current' = None
  BY DEF Tick
<1> QED  BY <1>1, <1>2, <1>3, <1>5, <1>6, <1>7

\* The client takes a frame from the socket.
LEMMA TakeFrameTypes ==
  ASSUME TypeOK, TakeFrame
  PROVE  /\ Head(wire) \in Out /\ wire' \in Seq(Out) /\ Len(wire') <= SocketBuffer
         /\ read' \subseteq Messages /\ UNCHANGED <<first_sent, sends, called>>
<1>1. /\ wire \in Seq(Out) /\ Len(wire) <= SocketBuffer /\ SocketBuffer \in Nat
      /\ wire # << >> /\ wire' = Tail(wire) /\ read \subseteq Messages
  BY ConnectionAssumption DEF TypeOK, TakeFrame
<1>2. Head(wire) \in Out /\ wire' \in Seq(Out) /\ Len(wire') <= SocketBuffer
  BY <1>1, TailGives
<1>3. Head(wire).kind = "message" => Head(wire).message \in Messages
  BY <1>2 DEF Out
<1> QED  BY <1>1, <1>2, <1>3 DEF TakeFrame

LEMMA TypeStep == TypeOK /\ Control /\ [Next]_vars => TypeOK' /\ Control'
<1> SUFFICES ASSUME TypeOK, Control, [Next]_vars PROVE TypeOK' /\ Control'
  OBVIOUS
<1> USE ConnectionAssumption DEF timers, queues, history, Running, Sending, Close
<1>1. /\ pc \in {"select", "closing", "closed"} \cup Sending
      /\ reason \in Reasons \cup {None} /\ current \in Unconfirmed \cup {None}
      /\ ping_time \in 0 .. PingInterval /\ ping_message \in Nat /\ pings_sent \in 0 .. 2
      /\ unconfirmed \in Seq(Unconfirmed) /\ inbox \in Seq(Messages) /\ Len(inbox) <= BufferSize
      /\ wire \in Seq(Out) /\ Len(wire) <= SocketBuffer
      /\ incoming \in Seq(In)
      /\ published \in Seq(Messages) /\ first_sent \in Seq(Messages)
      /\ sends \in [Messages -> Nat] /\ called \in [Messages -> Nat]
      /\ read \subseteq Messages
  BY DEF TypeOK
<1>2. CASE UNCHANGED vars
  BY <1>2 DEF vars, TypeOK, Control
<1>3. CASE ProcessPing
  <2>1. CASE Unanswered
    BY <1>3, <2>1 DEF ProcessPing, Reasons, TypeOK, Control
  <2>2. CASE ~Unanswered
    <3>1. pings_sent <= 1 /\ (ping_message + 1) % PingNumbers \in Nat
      BY <1>1, <2>2 DEF Unanswered
    <3> QED  BY <1>3, <2>2, <3>1 DEF ProcessPing, TypeOK, Control
  <2> QED  BY <2>1, <2>2
<1>4. CASE ProcessIncoming
  <2> DEFINE frame == Head(incoming)
  <2>1. frame \in In /\ incoming' \in Seq(In) /\ pc = "select"
    BY <1>1, <1>4, TailGives DEF ProcessIncoming, ReadReady
  <2>2. UNCHANGED <<current, queues, wire, first_sent, sends, read>>
    BY <1>4 DEF ProcessIncoming
  <2>3. CASE frame.kind = "confirmation" /\ ProcessConfirmation(frame.message)
             /\ UNCHANGED <<pc, reason>>
    <3>1. frame.message \in Messages
      BY <2>1, <2>3 DEF In, Gone
    <3> HIDE DEF frame
    <3>2. /\ unconfirmed' \in Seq(Unconfirmed) /\ called' \in [Messages -> Nat]
          /\ ping_time' \in 0 .. PingInterval /\ ping_message' \in Nat /\ pings_sent' \in 0 .. 2
      BY <2>3, <3>1, ConfirmationTypes
    <3> QED  BY <2>1, <2>2, <2>3, <3>2 DEF TypeOK, Control
  <2>4. CASE frame.kind = "pong" /\ ProcessPong(frame.number) /\ UNCHANGED <<pc, reason>>
    <3>1. /\ ping_time' \in 0 .. PingInterval /\ ping_message' \in Nat /\ pings_sent' \in 0 .. 2
          /\ UNCHANGED <<unconfirmed, called>>
      <4>1. Responsive \/ UNCHANGED timers
        BY <2>4 DEF ProcessPong
      <4>2. UNCHANGED <<unconfirmed, called>>
        BY <2>4 DEF ProcessPong
      <4>3. /\ ping_time \in 0 .. PingInterval /\ ping_message \in Nat /\ pings_sent \in 0 .. 2
            /\ PingInterval \in 0 .. PingInterval /\ 0 \in 0 .. 2
        BY <1>1
      <4> QED  BY <4>1, <4>2, <4>3 DEF Responsive
    <3>2. pc' = "select" /\ reason' = reason /\ incoming' \in Seq(In)
      BY <2>1, <2>4
    <3>3. TypeOK'
      BY <2>2, <3>1, <3>2 DEF TypeOK
    <3>4. Control'
      BY <2>1, <3>2 DEF Control
    <3> QED  BY <3>3, <3>4
  <2>5. CASE frame.kind = "gone" /\ Close("socket") /\ UNCHANGED <<timers, unconfirmed, called>>
    BY <1>4, <2>1, <2>5 DEF ProcessIncoming, Reasons, TypeOK, Control
  <2> QED  BY <1>4, <2>3, <2>4, <2>5 DEF ProcessIncoming
<1>5. CASE ProcessMessage
  <2>1. CASE inbox # << >> /\ ~lagged
    <3>1. /\ Head(inbox) \in Messages /\ inbox' = Tail(inbox) /\ inbox' \in Seq(Messages)
          /\ Len(inbox') <= BufferSize
      <4>1. inbox' = Tail(inbox)
        BY <1>5, <2>1 DEF ProcessMessage
      <4>2. Head(inbox) \in Messages
        BY <1>1, <2>1
      <4> QED  BY <1>1, <2>1, <4>1, <4>2, TailGives
    <3>2. New(Head(inbox)) \in Unconfirmed
      BY <3>1, NewType
    <3> QED  BY <1>5, <2>1, <3>1, <3>2 DEF ProcessMessage, TypeOK, Control
  <2>2. CASE ~(inbox # << >> /\ ~lagged)
    BY <1>5, <2>2 DEF ProcessMessage, Reasons, TypeOK, Control
  <2> QED  BY <2>1, <2>2
<1>6. CASE ProcessUnconfirmed
  <2> DEFINE q == Head(unconfirmed)
  <2>1. q \in Unconfirmed /\ unconfirmed' \in Seq(Unconfirmed)
    <3>1. unconfirmed # << >> /\ unconfirmed' = Tail(unconfirmed)
      BY <1>6 DEF ProcessUnconfirmed, RetryDue
    <3> QED  BY <1>1, <3>1
  <2>2. q.retries_remaining # 0 =>
          [q EXCEPT !.retry_at = RetryInterval, !.retries_remaining = @ - 1] \in Unconfirmed
    BY <2>1, EntryTypes
  <2> HIDE DEF q
  <2>3. current' \in Unconfirmed
    BY <1>6, <2>1, <2>2 DEF ProcessUnconfirmed, q
  <2> QED  BY <1>6, <2>1, <2>3 DEF ProcessUnconfirmed, Reasons, TypeOK, Control
<1>7. CASE PingSent
  <2>1. Ping(ping_message) \in Out
    BY <1>1 DEF Ping, Out
  <2>2. wire' \in Seq(Out) /\ Len(wire') <= SocketBuffer
    BY <1>1, <1>7, <2>1, AppendGives DEF PingSent, Room
  <2>3. pings_sent' \in 0 .. 2
    BY <1>1, <1>7 DEF PingSent, Control
  <2> QED  BY <1>7, <2>2, <2>3 DEF PingSent, TypeOK, Control
<1>8. CASE MessageSent
  <2> DEFINE m == current.message
             q == IF pc = "message" THEN [current EXCEPT !.retry_at = RetryInterval] ELSE current
  <2>1. m \in Messages /\ q \in Unconfirmed
    BY <1>8, EntryTypes DEF MessageSent, Control
  <2>2. Binary(m) \in Out
    BY <2>1 DEF Binary, Out
  <2> HIDE DEF m, q
  <2>3. wire' \in Seq(Out) /\ Len(wire') <= SocketBuffer
    BY <1>1, <1>8, <2>2, AppendGives DEF MessageSent, Room, m
  <2>4. unconfirmed' \in Seq(Unconfirmed)
    BY <1>1, <1>8, <2>1, AppendGives DEF MessageSent, q
  <2>5. first_sent' \in Seq(Messages)
    BY <1>1, <1>8, <2>1, AppendGives DEF MessageSent, m
  <2>6. sends' \in [Messages -> Nat]
    <3>1. sends' = [sends EXCEPT ![m] = @ + 1]
      BY <1>8 DEF MessageSent, m
    <3> QED  BY <1>1, <2>1, <3>1
  <2>7. /\ pc' = "select" /\ current' = None
        /\ UNCHANGED <<reason, timers, queues, incoming, called, read>>
    BY <1>8 DEF MessageSent
  <2>8. Running
    BY <1>8 DEF MessageSent
  <2> QED  BY <2>3, <2>4, <2>5, <2>6, <2>7, <2>8 DEF TypeOK, Control
<1>9. CASE SendFails
  BY <1>9 DEF SendFails, Reasons, TypeOK, Control
<1>10. CASE Finish
  BY <1>10 DEF Finish, TypeOK, Control
<1>11. CASE Tick
  <2>1. /\ unconfirmed' \in Seq(Unconfirmed) /\ current' \in Unconfirmed \cup {None}
        /\ current \in Unconfirmed => current' \in Unconfirmed
    BY <1>11, TickTypes
  <2>2. ping_time' \in 0 .. PingInterval
    BY <1>1, <1>11 DEF Tick, Earlier
  <2>3. UNCHANGED <<pc, reason, ping_message, pings_sent, queues, wire, incoming, history>>
    BY <1>11 DEF Tick
  <2> QED  BY <2>1, <2>2, <2>3 DEF TypeOK, Control
<1>12. CASE CloseConnections
  BY <1>12 DEF CloseConnections, TypeOK, Control
<1>13. CASE Read
  <2>1. /\ wire' \in Seq(Out) /\ Len(wire') <= SocketBuffer /\ read' \subseteq Messages
        /\ UNCHANGED <<first_sent, sends, called>>
    BY <1>13, TakeFrameTypes DEF Read
  <2> QED  BY <1>13, <2>1 DEF Read, TypeOK, Control
<1>14. CASE Answer
  <2>1. /\ Head(wire) \in Out /\ wire' \in Seq(Out) /\ Len(wire') <= SocketBuffer
        /\ read' \subseteq Messages /\ UNCHANGED <<first_sent, sends, called>>
    BY <1>14, TakeFrameTypes DEF Answer
  <2> DEFINE frame == IF Head(wire).kind = "ping" THEN Pong(Head(wire).number)
                                                  ELSE Confirm(Head(wire).message)
  <2>2. frame \in In
    BY <2>1 DEF Out, In, Pong, Confirm
  <2> HIDE DEF frame
  <2>3. incoming' \in Seq(In)
    BY <1>1, <1>14, <2>2, AppendGives DEF Answer, frame
  <2> QED  BY <1>14, <2>1, <2>3 DEF Answer, TypeOK, Control
<1>15. CASE Leave
  <2>1. Gone \in In
    BY DEF In
  <2>2. incoming' \in Seq(In)
    BY <1>1, <1>15, <2>1, AppendGives DEF Leave
  <2> QED  BY <1>15, <2>2 DEF Leave, TypeOK, Control
<1>16. ASSUME NEW m \in Messages, Publish(m)
       PROVE  TypeOK' /\ Control'
  <2>1. published' \in Seq(Messages)
    BY <1>1, <1>16, AppendGives DEF Publish
  <2>2. inbox' \in Seq(Messages) /\ Len(inbox') <= BufferSize
    <3>1. CASE Len(inbox) < BufferSize
      <4>1. inbox' = Append(inbox, m)
        BY <1>16, <3>1 DEF Publish
      <4>2. inbox' \in Seq(Messages) /\ Len(inbox') = Len(inbox) + 1
        BY <1>1, <4>1, AppendGives
      <4> QED  BY <1>1, <3>1, <4>2
    <3>2. CASE ~(Len(inbox) < BufferSize)
      <4>1. inbox # << >>
        BY <1>1, <3>2
      <4>2. Tail(inbox) \in Seq(Messages) /\ Len(Tail(inbox)) = Len(inbox) - 1
        BY <1>1, <4>1, TailGives
      <4>3. inbox' = Append(Tail(inbox), m)
        BY <1>16, <3>2 DEF Publish
      <4>4. inbox' \in Seq(Messages) /\ Len(inbox') = Len(Tail(inbox)) + 1
        BY <4>2, <4>3, AppendGives
      <4> QED  BY <1>1, <4>2, <4>4
    <3> QED  BY <3>1, <3>2
  <2> QED  BY <1>16, <2>1, <2>2 DEF Publish, TypeOK, Control
<1> QED  BY <1>2, <1>3, <1>4, <1>5, <1>6, <1>7, <1>8, <1>9, <1>10, <1>11, <1>12, <1>13, <1>14,
            <1>15, <1>16 DEF Next, Run

-----------------------------------------------------------------------------
(* The messages in order *)

\* The lengths and domains of the histories and of the channel.
LEMMA FlowShapes ==
  ASSUME TypeOK
  PROVE  /\ DOMAIN published = 1 .. Len(published) /\ Len(published) \in Nat
         /\ DOMAIN first_sent = 1 .. Len(first_sent) /\ Len(first_sent) \in Nat
         /\ DOMAIN inbox = 1 .. Len(inbox) /\ Len(inbox) \in Nat
BY DEF TypeOK

LEMMA FlowInit == Init => Flow
<1>1. DOMAIN << >> = {} /\ Len(<< >>) = 0
  OBVIOUS
<1> QED  BY <1>1 DEF Init, Flow, Taken

\* Steps that neither take a message nor send one for the first time.
LEMMA FlowKept ==
  ASSUME Flow, UNCHANGED <<published, first_sent, inbox, lagged>>, Running' => Running,
         \/ pc # "message" /\ pc' # "message"
         \/ pc' = pc /\ current'.message = current.message
  PROVE  Flow'
<1>1. Taken' = Taken
  BY DEF Taken
<1> QED  BY <1>1 DEF Flow

\* A message that is sent for the first time was not sent before.
LEMMA FirstTime ==
  ASSUME TypeOK, Flow, pc = "message"
  PROVE  current.message \notin ToSet(first_sent)
<1>1. Len(first_sent) + 1 <= Len(published)
  BY DEF Flow, Taken
<1>2. Len(first_sent) + 1 \in DOMAIN published
  BY <1>1, FlowShapes
<1>3. ASSUME NEW k \in DOMAIN first_sent, first_sent[k] = current.message
      PROVE  FALSE
  <2>1. k \in DOMAIN published /\ k # Len(first_sent) + 1
    BY <1>1, FlowShapes
  <2>2. published[k] = published[Len(first_sent) + 1]
    BY <1>3 DEF Flow
  <2> QED  BY <1>2, <2>1, <2>2 DEF Flow
<1> QED  BY <1>3 DEF ToSet

LEMMA ProcessMessageFlow ==
  ASSUME TypeOK, Flow, ProcessMessage
  PROVE  Flow'
<1>1. /\ UNCHANGED <<published, first_sent, lagged>> /\ pc = "select" /\ Running
  BY DEF ProcessMessage, queues, history, Running
<1>2. CASE pc' = "closing"
  <2>1. UNCHANGED inbox
    BY <1>2 DEF ProcessMessage, queues
  <2> QED  BY <1>1, <1>2, <2>1, FlowKept
<1>3. CASE pc' # "closing"
  <2>1. /\ ~lagged /\ inbox # << >> /\ pc' = "message" /\ inbox' = Tail(inbox)
        /\ current' = New(Head(inbox))
    BY <1>3 DEF ProcessMessage, Close
  <2>2. inbox \in Seq(Messages)
    BY DEF TypeOK
  <2>3. /\ Len(inbox') = Len(inbox) - 1 /\ DOMAIN inbox' = 1 .. Len(inbox) - 1
        /\ \A k \in 1 .. Len(inbox) - 1 : inbox'[k] = inbox[k + 1]
        /\ Head(inbox) = inbox[1] /\ Len(inbox) \in Nat \ {0}
    BY <2>1, <2>2, TailGives
  <2>4. Taken = Len(first_sent) /\ Taken' = Len(first_sent) + 1
    BY <1>1, <2>1, FlowShapes DEF Taken
  <2>5. /\ Len(published) = Len(first_sent) + Len(inbox)
        /\ \A k \in DOMAIN inbox : inbox[k] = published[Len(first_sent) + k]
    BY <1>1, <2>1, <2>4 DEF Flow
  <2>6. Len(published') = Taken' + Len(inbox') /\ Taken' <= Len(published')
    BY <1>1, <2>3, <2>4, <2>5, FlowShapes
  <2>7. current'.message = published'[Len(first_sent') + 1]
    <3>1. 1 \in DOMAIN inbox /\ New(Head(inbox)).message = Head(inbox)
      BY <2>3, FlowShapes DEF New
    <3> QED  BY <1>1, <2>1, <2>3, <2>5, <3>1
  <2>8. ASSUME NEW k \in DOMAIN inbox'
        PROVE  inbox'[k] = published'[Taken' + k]
    <3>1. k + 1 \in DOMAIN inbox /\ inbox'[k] = inbox[k + 1]
      BY <2>3, FlowShapes
    <3>2. inbox[k + 1] = published[Len(first_sent) + (k + 1)]
      BY <2>5, <3>1
    <3>3. Len(first_sent) + (k + 1) = Taken' + k
      BY <2>3, <2>4, FlowShapes
    <3> QED  BY <1>1, <3>1, <3>2, <3>3
  <2> QED  BY <1>1, <2>6, <2>7, <2>8 DEF Flow
<1> QED  BY <1>2, <1>3

LEMMA MessageSentFlow ==
  ASSUME TypeOK, Control, Flow, MessageSent
  PROVE  Flow'
<1>1. UNCHANGED <<published, inbox, lagged>> /\ pc' = "select" /\ Running
  BY DEF MessageSent, queues, Running
<1>2. CASE pc = "retry"
  <2>1. UNCHANGED first_sent
    BY <1>2 DEF MessageSent
  <2> QED  BY <1>1, <1>2, <2>1, FlowKept
<1>3. CASE pc = "message"
  <2> DEFINE m == current.message
  <2>1. m \in Messages /\ first_sent \in Seq(Messages)
    BY <1>3, EntryTypes DEF Control, TypeOK
  <2>2. first_sent' = Append(first_sent, m)
    BY <1>3 DEF MessageSent
  <2> HIDE DEF m
  <2>3. /\ Len(first_sent') = Len(first_sent) + 1 /\ DOMAIN first_sent' = 1 .. Len(first_sent) + 1
        /\ first_sent'[Len(first_sent) + 1] = m
        /\ \A k \in DOMAIN first_sent : first_sent'[k] = first_sent[k]
    BY <2>1, <2>2, AppendGives
  <2>4. Taken = Len(first_sent) + 1 /\ Taken' = Len(first_sent) + 1
    BY <1>1, <1>3, <2>3, FlowShapes DEF Taken
  <2>5. ASSUME NEW k \in DOMAIN first_sent'
        PROVE  first_sent'[k] = published[k]
    <3>1. k \in DOMAIN first_sent \/ k = Len(first_sent) + 1
      BY <2>3, FlowShapes
    <3>2. m = published[Len(first_sent) + 1]
      BY <1>3 DEF Flow, m
    <3> QED  BY <2>3, <3>1, <3>2 DEF Flow
  <2> QED  BY <1>1, <2>4, <2>5 DEF Flow
<1> QED  BY <1>2, <1>3 DEF MessageSent

LEMMA SendFailsFlow ==
  ASSUME TypeOK, Flow, SendFails
  PROVE  Flow'
<1>1. UNCHANGED <<published, first_sent>> /\ pc' = "closing"
  BY DEF SendFails, Close, queues, history
<1>2. Taken' <= Taken /\ Taken' \in Nat /\ Taken \in Nat
  BY <1>1, FlowShapes DEF Taken
<1>3. Taken <= Len(published)
  BY DEF Flow
<1>4. Taken' <= Len(published')
  BY <1>1, <1>2, <1>3, FlowShapes
<1> QED  BY <1>1, <1>4 DEF Flow, Running

LEMMA PublishFlow ==
  ASSUME TypeOK, Flow, NEW m \in Messages, Publish(m)
  PROVE  Flow'
<1>1. /\ UNCHANGED <<pc, current, first_sent>> /\ published' = Append(published, m)
      /\ m \notin ToSet(published)
  BY DEF Publish, history
<1>2. published \in Seq(Messages) /\ inbox \in Seq(Messages)
  BY DEF TypeOK
<1>3. /\ Len(published') = Len(published) + 1 /\ DOMAIN published' = 1 .. Len(published) + 1
      /\ published'[Len(published) + 1] = m
      /\ \A k \in DOMAIN published : published'[k] = published[k]
  BY <1>1, <1>2, AppendGives
<1>4. Taken' = Taken /\ Taken \in Nat /\ Taken <= Len(published)
  <2>1. Taken' = Taken /\ Taken \in Nat
    BY <1>1, FlowShapes DEF Taken
  <2> QED  BY <2>1 DEF Flow
<1>5. Taken' <= Len(published')
  BY <1>3, <1>4, FlowShapes
<1>6. ASSUME NEW j \in DOMAIN published', NEW k \in DOMAIN published',
             published'[j] = published'[k]
      PROVE  j = k
  <2>1. \A l \in DOMAIN published' : l \in DOMAIN published \/ l = Len(published) + 1
    BY <1>3, FlowShapes
  <2>2. \A l \in DOMAIN published : published'[l] # m
    BY <1>1, <1>3 DEF ToSet
  <2> QED  BY <1>3, <1>6, <2>1, <2>2 DEF Flow
<1>7. ASSUME NEW k \in DOMAIN first_sent'
      PROVE  first_sent'[k] = published'[k]
  <2>1. k \in DOMAIN first_sent /\ Len(first_sent) <= Taken
    BY <1>1, FlowShapes DEF Taken
  <2>2. k \in DOMAIN published
    BY <1>4, <2>1, FlowShapes
  <2> QED  BY <1>1, <1>3, <2>1, <2>2 DEF Flow
<1>8. pc' = "message" => current'.message = published'[Len(first_sent') + 1]
  <2> SUFFICES ASSUME pc = "message" PROVE current'.message = published'[Len(first_sent') + 1]
    BY <1>1
  <2>1. Taken = Len(first_sent) + 1
    BY DEF Taken
  <2>2. Len(first_sent) + 1 \in DOMAIN published
    BY <1>4, <2>1, FlowShapes
  <2> QED  BY <1>1, <1>3, <2>2 DEF Flow
<1>9. ASSUME Running', ~lagged'
      PROVE  /\ Len(published') = Taken' + Len(inbox')
             /\ \A k \in DOMAIN inbox' : inbox'[k] = published'[Taken' + k]
  <2>1. ~lagged /\ inbox' = Append(inbox, m)
    BY <1>9 DEF Publish
  <2>2. /\ Len(published) = Taken + Len(inbox)
        /\ \A k \in DOMAIN inbox : inbox[k] = published[Taken + k]
    BY <1>1, <1>9, <2>1 DEF Flow, Running
  <2>3. /\ Len(inbox') = Len(inbox) + 1 /\ DOMAIN inbox' = 1 .. Len(inbox) + 1
        /\ inbox'[Len(inbox) + 1] = m
        /\ \A k \in DOMAIN inbox : inbox'[k] = inbox[k]
    BY <1>2, <2>1, AppendGives
  <2>4. Len(published') = Taken' + Len(inbox')
    BY <1>3, <1>4, <2>2, <2>3, FlowShapes
  <2>5. ASSUME NEW k \in DOMAIN inbox'
        PROVE  inbox'[k] = published'[Taken' + k]
    <3>1. CASE k = Len(inbox) + 1
      <4>1. Taken' + k = Len(published) + 1
        BY <1>4, <2>2, <3>1, FlowShapes
      <4> QED  BY <1>3, <2>3, <3>1, <4>1
    <3>2. CASE k # Len(inbox) + 1
      <4>1. k \in DOMAIN inbox
        BY <2>3, <3>2, FlowShapes
      <4>2. Taken + k \in DOMAIN published
        BY <1>4, <2>2, <4>1, FlowShapes
      <4> QED  BY <1>3, <1>4, <2>2, <2>3, <4>1, <4>2
    <3> QED  BY <3>1, <3>2
  <2> QED  BY <2>4, <2>5
<1> QED  BY <1>5, <1>6, <1>7, <1>8, <1>9 DEF Flow

LEMMA FlowStep == TypeOK /\ Control /\ Flow /\ [Next]_vars => Flow'
<1> SUFFICES ASSUME TypeOK, Control, Flow, [Next]_vars PROVE Flow'
  OBVIOUS
<1> USE DEF timers, queues, history, Running, Close
<1>1. CASE UNCHANGED vars
  BY <1>1, FlowKept DEF vars
<1>2. CASE ProcessPing
  BY <1>2, FlowKept DEF ProcessPing
<1>3. CASE ProcessIncoming
  BY <1>3, FlowKept DEF ProcessIncoming
<1>4. CASE ProcessUnconfirmed
  BY <1>4, FlowKept DEF ProcessUnconfirmed
<1>5. CASE PingSent
  BY <1>5, FlowKept DEF PingSent
<1>6. CASE Finish
  BY <1>6, FlowKept DEF Finish
<1>7. CASE Tick
  <2>1. pc = "message" => current'.message = current.message
    <3> SUFFICES ASSUME pc = "message" PROVE current'.message = current.message
      OBVIOUS
    <3>1. current \in Unconfirmed
      BY DEF Control
    <3> QED  BY <1>7, <3>1 DEF Tick, Unconfirmed
  <2> QED  BY <1>7, <2>1, FlowKept DEF Tick
<1>8. CASE CloseConnections \/ Read \/ Answer \/ Leave
  BY <1>8, FlowKept DEF CloseConnections, Read, Answer, Leave, TakeFrame
<1> QED  BY <1>1, <1>2, <1>3, <1>4, <1>5, <1>6, <1>7, <1>8, ProcessMessageFlow,
            MessageSentFlow, SendFailsFlow, PublishFlow DEF Next, Run

-----------------------------------------------------------------------------
(* The queue in the order of what is due *)

LEMMA QueueShape ==
  ASSUME TypeOK
  PROVE  /\ unconfirmed \in Seq(Unconfirmed) /\ Len(unconfirmed) \in Nat
         /\ DOMAIN unconfirmed = 1 .. Len(unconfirmed)
         /\ \A k \in DOMAIN unconfirmed :
              /\ unconfirmed[k] \in Unconfirmed
              /\ unconfirmed[k].retry_at \in 0 .. RetryInterval
              /\ unconfirmed[k].retries_remaining \in 0 .. RetryMaxCount
              /\ unconfirmed[k].message \in Messages
<1>1. unconfirmed \in Seq(Unconfirmed)
  BY DEF TypeOK
<1>2. ASSUME NEW k \in DOMAIN unconfirmed
      PROVE  /\ unconfirmed[k] \in Unconfirmed
             /\ unconfirmed[k].retry_at \in 0 .. RetryInterval
             /\ unconfirmed[k].retries_remaining \in 0 .. RetryMaxCount
             /\ unconfirmed[k].message \in Messages
  <2>1. unconfirmed[k] \in Unconfirmed
    BY <1>1
  <2> QED  BY <2>1, EntryTypes
<1>3. Len(unconfirmed) \in Nat /\ DOMAIN unconfirmed = 1 .. Len(unconfirmed)
  BY <1>1
<1> QED  BY <1>1, <1>2, <1>3

LEMMA OrderInit == Init => Order
<1>1. DOMAIN << >> = {}
  OBVIOUS
<1> QED  BY <1>1 DEF Init, Order, QueueInOrder

\* Steps that leave the queue alone.
LEMMA OrderKept ==
  ASSUME Order, UNCHANGED unconfirmed, pc' # "retry" \/ UNCHANGED <<pc, current>>
  PROVE  Order'
BY DEF Order, QueueInOrder

\* What is taken out of the queue leaves the others in order.
LEMMA OrderFewer ==
  ASSUME TypeOK, Order, pc' # "retry", NEW k \in DOMAIN unconfirmed,
         unconfirmed' = RemoveAt(unconfirmed, k)
  PROVE  Order'
<1>1. /\ DOMAIN unconfirmed' = 1 .. Len(unconfirmed) - 1
      /\ \A j \in 1 .. Len(unconfirmed) - 1 :
           unconfirmed'[j] = unconfirmed[IF j < k THEN j ELSE j + 1]
  BY QueueShape, RemoveAtGives
<1>2. ASSUME NEW i \in DOMAIN unconfirmed', NEW j \in DOMAIN unconfirmed', i < j
      PROVE  unconfirmed'[i].retry_at <= unconfirmed'[j].retry_at
  <2> DEFINE a == IF i < k THEN i ELSE i + 1
             b == IF j < k THEN j ELSE j + 1
  <2>1. a \in DOMAIN unconfirmed /\ b \in DOMAIN unconfirmed /\ a < b
    BY <1>1, <1>2, QueueShape
  <2>2. unconfirmed'[i] = unconfirmed[a] /\ unconfirmed'[j] = unconfirmed[b]
    BY <1>1
  <2> HIDE DEF a, b
  <2> QED  BY <2>1, <2>2 DEF Order, QueueInOrder
<1> QED  BY <1>2 DEF Order, QueueInOrder

LEMMA ProcessUnconfirmedOrder ==
  ASSUME TypeOK, Order, ProcessUnconfirmed
  PROVE  Order'
<1> DEFINE q == Head(unconfirmed)
<1>1. unconfirmed # << >> /\ unconfirmed' = Tail(unconfirmed)
  BY DEF ProcessUnconfirmed, RetryDue
<1>2. /\ DOMAIN unconfirmed' = 1 .. Len(unconfirmed) - 1 /\ Len(unconfirmed) \in Nat \ {0}
      /\ \A j \in 1 .. Len(unconfirmed) - 1 : unconfirmed'[j] = unconfirmed[j + 1]
      /\ q = unconfirmed[1]
  BY <1>1, QueueShape, TailGives
<1>3. ASSUME NEW i \in DOMAIN unconfirmed', NEW j \in DOMAIN unconfirmed', i < j
      PROVE  unconfirmed'[i].retry_at <= unconfirmed'[j].retry_at
  <2>1. i + 1 \in DOMAIN unconfirmed /\ j + 1 \in DOMAIN unconfirmed /\ i + 1 < j + 1
    BY <1>2, <1>3, QueueShape
  <2> QED  BY <1>2, <2>1 DEF Order, QueueInOrder
<1>4. ASSUME pc' = "retry", NEW k \in DOMAIN unconfirmed'
      PROVE  unconfirmed'[k].retry_at <= current'.retry_at
  <2>1. q \in Unconfirmed
    <3>1. 1 \in DOMAIN unconfirmed
      BY <1>2, QueueShape
    <3> QED  BY <1>2, <3>1, QueueShape
  <2> HIDE DEF q
  <2>2. current' = [q EXCEPT !.retry_at = RetryInterval, !.retries_remaining = @ - 1]
    BY <1>4 DEF ProcessUnconfirmed, Close, q
  <2>3. current'.retry_at = RetryInterval
    BY <2>1, <2>2 DEF Unconfirmed
  <2>4. k + 1 \in DOMAIN unconfirmed /\ unconfirmed'[k] = unconfirmed[k + 1]
    BY <1>2, QueueShape
  <2>5. unconfirmed'[k].retry_at \in 0 .. RetryInterval
    BY <2>4, QueueShape
  <2> QED  BY <2>3, <2>5, ConnectionAssumption
<1> QED  BY <1>3, <1>4 DEF Order, QueueInOrder

LEMMA MessageSentOrder ==
  ASSUME TypeOK, Control, Order, MessageSent
  PROVE  Order'
<1> DEFINE q == IF pc = "message" THEN [current EXCEPT !.retry_at = RetryInterval] ELSE current
<1>1. current \in Unconfirmed /\ q \in Unconfirmed
  BY EntryTypes DEF MessageSent, Control
<1>2. q.retry_at \in 0 .. RetryInterval /\ (pc = "message" => q.retry_at = RetryInterval)
  BY <1>1 DEF Unconfirmed
<1>3. \A k \in DOMAIN unconfirmed : unconfirmed[k].retry_at <= q.retry_at
  <2>1. CASE pc = "message"
    BY <1>2, <2>1, QueueShape, ConnectionAssumption
  <2>2. CASE pc = "retry"
    BY <2>2 DEF Order
  <2> QED  BY <2>1, <2>2 DEF MessageSent
<1>4. unconfirmed' = Append(unconfirmed, q) /\ pc' = "select"
  BY DEF MessageSent
<1> HIDE DEF q
<1>5. /\ DOMAIN unconfirmed' = 1 .. Len(unconfirmed) + 1
      /\ unconfirmed'[Len(unconfirmed) + 1] = q
      /\ \A k \in DOMAIN unconfirmed : unconfirmed'[k] = unconfirmed[k]
  BY <1>1, <1>4, QueueShape, AppendGives
<1>6. ASSUME NEW i \in DOMAIN unconfirmed', NEW j \in DOMAIN unconfirmed', i < j
      PROVE  unconfirmed'[i].retry_at <= unconfirmed'[j].retry_at
  <2>1. i \in DOMAIN unconfirmed /\ (j \in DOMAIN unconfirmed \/ j = Len(unconfirmed) + 1)
    BY <1>5, <1>6, QueueShape
  <2> QED  BY <1>3, <1>5, <1>6, <2>1 DEF Order, QueueInOrder
<1> QED  BY <1>4, <1>6 DEF Order, QueueInOrder

LEMMA EarlierMonotone ==
  ASSUME NEW s \in Nat, NEW t \in Nat, s <= t
  PROVE  Earlier(s) <= Earlier(t)
BY DEF Earlier

\* Time passes for every entry alike.
LEMMA TickOrder ==
  ASSUME TypeOK, Control, Order, Tick
  PROVE  Order'
<1>1. /\ DOMAIN unconfirmed' = DOMAIN unconfirmed
      /\ \A k \in DOMAIN unconfirmed :
           unconfirmed'[k] = [unconfirmed[k] EXCEPT !.retry_at = Earlier(@)]
  BY TickTypes
<1>2. ASSUME NEW q \in Unconfirmed
      PROVE  /\ [q EXCEPT !.retry_at = Earlier(@)].retry_at = Earlier(q.retry_at)
             /\ q.retry_at \in Nat
  BY ConnectionAssumption DEF Unconfirmed
<1>3. \A k \in DOMAIN unconfirmed :
        /\ unconfirmed'[k].retry_at = Earlier(unconfirmed[k].retry_at)
        /\ unconfirmed[k].retry_at \in Nat
  BY <1>1, <1>2, QueueShape
<1>4. ASSUME NEW j \in DOMAIN unconfirmed', NEW k \in DOMAIN unconfirmed', j < k
      PROVE  unconfirmed'[j].retry_at <= unconfirmed'[k].retry_at
  <2>1. unconfirmed[j].retry_at <= unconfirmed[k].retry_at
    BY <1>1, <1>4 DEF Order, QueueInOrder
  <2> QED  BY <1>1, <1>3, <2>1, EarlierMonotone
<1>5. ASSUME pc' = "retry", NEW k \in DOMAIN unconfirmed'
      PROVE  unconfirmed'[k].retry_at <= current'.retry_at
  <2>1. pc = "retry" /\ current \in Unconfirmed
    BY <1>5 DEF Tick, Control
  <2>2. unconfirmed[k].retry_at <= current.retry_at
    BY <1>1, <2>1 DEF Order
  <2>3. CASE current = None
    <3>1. current' = current
      BY <2>3 DEF Tick
    <3>2. Earlier(unconfirmed[k].retry_at) <= unconfirmed[k].retry_at
      BY <1>1, <1>3 DEF Earlier
    <3>3. Earlier(unconfirmed[k].retry_at) \in Nat /\ current.retry_at \in Nat
      BY <1>1, <1>2, <1>3, <2>1 DEF Earlier
    <3>4. unconfirmed[k].retry_at \in Nat /\ unconfirmed'[k].retry_at = Earlier(unconfirmed[k].retry_at)
      BY <1>1, <1>3
    <3> QED  BY <2>2, <3>1, <3>2, <3>3, <3>4
  <2>4. CASE current # None
    <3>1. current' = [current EXCEPT !.retry_at = Earlier(@)]
      BY <2>4 DEF Tick
    <3>2. current'.retry_at = Earlier(current.retry_at) /\ current.retry_at \in Nat
      BY <1>2, <2>1, <3>1
    <3> QED  BY <1>1, <1>3, <2>2, <3>2, EarlierMonotone
  <2> QED  BY <2>3, <2>4
<1> QED  BY <1>4, <1>5 DEF Order, QueueInOrder

LEMMA OrderStep == TypeOK /\ Control /\ Order /\ [Next]_vars => Order'
<1> SUFFICES ASSUME TypeOK, Control, Order, [Next]_vars PROVE Order'
  OBVIOUS
<1> USE DEF timers, queues, history, Close
<1>1. CASE UNCHANGED vars
  BY <1>1, OrderKept DEF vars
<1>2. CASE ProcessPing \/ ProcessMessage \/ PingSent \/ SendFails \/ Finish
  BY <1>2, OrderKept DEF ProcessPing, ProcessMessage, PingSent, SendFails, Finish
<1>3. CASE ProcessIncoming
  <2>1. pc' # "retry"
    BY <1>3 DEF ProcessIncoming
  <2>2. \/ UNCHANGED unconfirmed
        \/ \E k \in DOMAIN unconfirmed : unconfirmed' = RemoveAt(unconfirmed, k)
    BY <1>3 DEF ProcessIncoming, ProcessConfirmation, ProcessPong
  <2> QED  BY <2>1, <2>2, OrderKept, OrderFewer
<1>4. CASE CloseConnections \/ Read \/ Answer \/ Leave
  BY <1>4, OrderKept DEF CloseConnections, Read, Answer, Leave
<1>5. CASE \E m \in Messages : Publish(m)
  BY <1>5, OrderKept DEF Publish
<1> QED  BY <1>1, <1>2, <1>3, <1>4, <1>5, ProcessUnconfirmedOrder, MessageSentOrder,
            TickOrder DEF Next, Run

-----------------------------------------------------------------------------
(* How often a message was sent and confirmed *)

LEMMA BooksInit == Init => Books
<1>1. DOMAIN << >> = {} /\ ToSet(<< >>) = {}
  BY DEF ToSet
<1> QED  BY <1>1 DEF Init, Books, Entries, InSending, Others

\* Steps that neither send, resend nor confirm.
LEMMA BooksKept ==
  ASSUME Books, UNCHANGED <<unconfirmed, first_sent, sends, called>>, Running' => Running,
         \/ pc \notin {"message", "retry"} /\ pc' \notin {"message", "retry"}
         \/ UNCHANGED <<pc, current>>
         \/ ~Running'
  PROVE  Books'
BY DEF Books, Entries, InSending, Others, Owed, Accounted, Running

\* A message that is taken from the channel has all its retries.
LEMMA ProcessMessageBooks ==
  ASSUME TypeOK, Books, ProcessMessage
  PROVE  Books'
<1>1. UNCHANGED <<unconfirmed, first_sent, sends, called>> /\ pc = "select" /\ Running
  BY DEF ProcessMessage, history, Running
<1>2. CASE pc' = "closing"
  BY <1>2 DEF Books, Running
<1>3. CASE pc' # "closing"
  <2>1. pc' = "message" /\ current' = New(Head(inbox))
    BY <1>3 DEF ProcessMessage, Close
  <2>2. current'.retries_remaining = RetryMaxCount
    BY <2>1 DEF New
  <2> QED  BY <1>1, <2>1, <2>2 DEF Books, Entries, InSending, Others, Owed, Accounted
<1> QED  BY <1>2, <1>3

LEMMA ConfirmationBooks ==
  ASSUME TypeOK, Books, pc = "select", pc' = "select", UNCHANGED <<first_sent, sends>>,
         NEW m \in Messages, ProcessConfirmation(m)
  PROVE  Books'
<1>1. Running /\ Entries /\ Others
  BY DEF Books, Running
<1>2. CASE UNCHANGED <<unconfirmed, called>>
  BY <1>2, BooksKept DEF Running
<1>3. CASE ~UNCHANGED <<unconfirmed, called>>
  <2>1. PICK k \in DOMAIN unconfirmed :
          /\ unconfirmed[k].message = m /\ unconfirmed' = RemoveAt(unconfirmed, k)
          /\ called' = [called EXCEPT ![m] = @ + 1]
    BY <1>3 DEF ProcessConfirmation
  <2>2. /\ DOMAIN unconfirmed' = 1 .. Len(unconfirmed) - 1
        /\ \A j \in 1 .. Len(unconfirmed) - 1 :
             unconfirmed'[j] = unconfirmed[IF j < k THEN j ELSE j + 1]
    BY <2>1, QueueShape, RemoveAtGives
  <2>3. called[m] = 0 /\ called'[m] = 1 /\ \A n \in Messages \ {m} : called'[n] = called[n]
    <3>1. called \in [Messages -> Nat]
      BY DEF TypeOK
    <3>2. called[m] = 0
      BY <1>1, <2>1 DEF Entries, Owed, Accounted
    <3> QED  BY <2>1, <3>1, <3>2
  \* Where an entry was, and where it is.
  <2> DEFINE From(j) == IF j < k THEN j ELSE j + 1
             To(j)   == IF j < k THEN j ELSE j - 1
  <2>4. \A j \in DOMAIN unconfirmed' :
          From(j) \in DOMAIN unconfirmed /\ From(j) # k /\ unconfirmed'[j] = unconfirmed[From(j)]
    BY <2>2, QueueShape
  <2>5. \A j \in DOMAIN unconfirmed \ {k} :
          To(j) \in DOMAIN unconfirmed' /\ From(To(j)) = j
    BY <2>2, QueueShape
  <2>6. \A i, j \in DOMAIN unconfirmed' : From(i) = From(j) => i = j
    BY <2>2, QueueShape
  <2> HIDE DEF From, To
  <2>7. \A j \in DOMAIN unconfirmed' : unconfirmed'[j].message # m
    BY <1>1, <2>1, <2>4 DEF Entries
  <2>8. Entries'
    <3>1. ASSUME NEW j \in DOMAIN unconfirmed'
          PROVE  Accounted(unconfirmed'[j], RetryMaxCount + 1, first_sent', sends', called')
      <4>1. Owed(unconfirmed[From(j)], RetryMaxCount + 1)
        BY <1>1, <2>4 DEF Entries
      <4>2. unconfirmed'[j].message \in Messages \ {m}
        BY <2>4, <2>7, QueueShape
      <4> QED  BY <2>3, <2>4, <4>1, <4>2 DEF Owed, Accounted
    <3>2. ASSUME NEW i \in DOMAIN unconfirmed', NEW j \in DOMAIN unconfirmed',
                 unconfirmed'[i].message = unconfirmed'[j].message
          PROVE  i = j
      <4>1. From(i) = From(j)
        BY <1>1, <2>4, <3>2 DEF Entries
      <4> QED  BY <2>6, <4>1
    <3> QED  BY <3>1, <3>2 DEF Entries, Owed, Accounted
  <2>9. Others'
    <3>1. ASSUME NEW n \in Messages, n \notin ToSet(first_sent)
          PROVE  sends'[n] = 0 /\ called'[n] = 0
      <4>1. n # m
        BY <1>1, <2>1, <3>1 DEF Entries, Owed, Accounted
      <4> QED  BY <1>1, <2>3, <3>1, <4>1 DEF Others
    <3>2. ASSUME NEW n \in ToSet(first_sent)
          PROVE  (\E j \in DOMAIN unconfirmed' : unconfirmed'[j].message = n) \/ called'[n] = 1
      <4>1. n \in Messages
        BY <3>2 DEF ToSet, TypeOK
      <4>2. CASE n = m
        BY <2>3, <4>2
      <4>3. CASE n # m /\ called[n] = 1
        BY <2>3, <4>1, <4>3
      <4>4. CASE n # m /\ \E j \in DOMAIN unconfirmed : unconfirmed[j].message = n
        <5>1. PICK j \in DOMAIN unconfirmed : unconfirmed[j].message = n
          BY <4>4
        <5>2. j # k
          BY <2>1, <4>4, <5>1
        <5>3. To(j) \in DOMAIN unconfirmed' /\ From(To(j)) = j
          BY <2>5, <5>2
        <5>4. unconfirmed'[To(j)].message = n
          BY <2>4, <5>1, <5>3
        <5> QED  BY <5>3, <5>4
      <4> QED  BY <1>1, <4>2, <4>3, <4>4 DEF Others
    <3> QED  BY <3>1, <3>2 DEF Others
  <2> QED  BY <2>8, <2>9 DEF Books, InSending
<1> QED  BY <1>2, <1>3

\* The front of the queue is in hand, with a retry less; or given up.
LEMMA ProcessUnconfirmedBooks ==
  ASSUME TypeOK, Books, ProcessUnconfirmed
  PROVE  Books' /\ (pc' = "closing" =>
                      /\ current' \in Unconfirmed /\ incoming' = << >>
                      /\ sends'[current'.message] = RetryMaxCount + 1)
<1> DEFINE q == Head(unconfirmed)
<1>1. /\ unconfirmed # << >> /\ unconfirmed' = Tail(unconfirmed)
      /\ UNCHANGED <<first_sent, sends, called, incoming>> /\ incoming = << >>
      /\ pc = "select"
  BY DEF ProcessUnconfirmed, RetryDue, ReadReady, history
<1>2. /\ DOMAIN unconfirmed' = 1 .. Len(unconfirmed) - 1 /\ Len(unconfirmed) \in Nat \ {0}
      /\ \A j \in 1 .. Len(unconfirmed) - 1 : unconfirmed'[j] = unconfirmed[j + 1]
      /\ q = unconfirmed[1]
  BY <1>1, QueueShape, TailGives
<1>3. 1 \in DOMAIN unconfirmed
  BY <1>2, QueueShape
<1>4. Entries /\ Others
  BY <1>1 DEF Books, Running
<1>5. Owed(q, RetryMaxCount + 1) /\ q \in Unconfirmed
  BY <1>2, <1>3, <1>4, QueueShape DEF Entries
<1>6. /\ q.message \in Messages /\ q.retries_remaining \in 0 .. RetryMaxCount
      /\ sends[q.message] \in Nat /\ RetryMaxCount \in Nat
  BY <1>5, EntryTypes, ConnectionAssumption DEF TypeOK
<1> HIDE DEF q
<1>7. CASE q.retries_remaining = 0
  <2>1. pc' = "closing" /\ current' = q
    BY <1>7 DEF ProcessUnconfirmed, Close, q
  <2>2. sends[q.message] = RetryMaxCount + 1
    BY <1>5, <1>6, <1>7 DEF Owed, Accounted
  <2> QED  BY <1>1, <1>5, <2>1, <2>2 DEF Books, Running
<1>8. CASE q.retries_remaining # 0
  <2>1. /\ pc' = "retry"
        /\ current' = [q EXCEPT !.retry_at = RetryInterval, !.retries_remaining = @ - 1]
    BY <1>8 DEF ProcessUnconfirmed, Close, q
  <2>2. /\ current'.message = q.message
        /\ current'.retries_remaining = q.retries_remaining - 1
    BY <1>5, <2>1 DEF Unconfirmed
  <2>3. Accounted(current', RetryMaxCount, first_sent', sends', called')
    <3>1. sends[q.message] + (q.retries_remaining - 1) = RetryMaxCount
      BY <1>5, <1>6 DEF Owed, Accounted
    <3> QED  BY <1>1, <1>5, <2>2, <3>1 DEF Owed, Accounted
  <2>4. \A j \in DOMAIN unconfirmed' :
          j + 1 \in DOMAIN unconfirmed /\ j + 1 # 1 /\ unconfirmed'[j] = unconfirmed[j + 1]
    BY <1>2, QueueShape
  <2>5. \A j \in DOMAIN unconfirmed' : unconfirmed'[j].message # current'.message
    BY <1>2, <1>3, <1>4, <2>2, <2>4 DEF Entries
  <2>6. Entries'
    <3>1. ASSUME NEW j \in DOMAIN unconfirmed'
          PROVE  Accounted(unconfirmed'[j], RetryMaxCount + 1, first_sent', sends', called')
      BY <1>1, <1>4, <2>4 DEF Entries, Owed, Accounted
    <3>2. ASSUME NEW i \in DOMAIN unconfirmed', NEW j \in DOMAIN unconfirmed',
                 unconfirmed'[i].message = unconfirmed'[j].message
          PROVE  i = j
      <4>1. i + 1 = j + 1
        BY <1>4, <2>4, <3>2 DEF Entries
      <4> QED  BY <1>2, <4>1
    <3> QED  BY <3>1, <3>2 DEF Entries, Owed, Accounted
  <2>7. Others'
    <3>1. ASSUME NEW n \in ToSet(first_sent), NEW j \in DOMAIN unconfirmed,
                 unconfirmed[j].message = n
          PROVE  \/ \E i \in DOMAIN unconfirmed' : unconfirmed'[i].message = n
                 \/ current'.message = n
      <4>1. CASE j = 1
        BY <1>2, <2>2, <3>1, <4>1
      <4>2. CASE j # 1
        <5>1. j - 1 \in DOMAIN unconfirmed' /\ (j - 1) + 1 = j
          BY <1>2, <4>2, QueueShape
        <5>2. unconfirmed'[j - 1].message = n
          BY <2>4, <3>1, <5>1
        <5> QED  BY <5>1, <5>2
      <4> QED  BY <4>1, <4>2
    <3> QED  BY <1>1, <1>4, <2>1, <3>1 DEF Others
  <2>8. InSending'
    BY <2>1, <2>3, <2>5 DEF InSending, Owed, Accounted
  <2> QED  BY <2>1, <2>6, <2>7, <2>8 DEF Books
<1> QED  BY <1>7, <1>8

\* A message that was sent, for the first time or again, joins the queue.
LEMMA MessageSentBooks ==
  ASSUME TypeOK, Control, Flow, Books, MessageSent
  PROVE  /\ Books' /\ current.message \in Messages
         /\ sends'[current.message] <= RetryMaxCount + 1
         /\ \A n \in Messages : n # current.message => sends'[n] = sends[n]
<1> DEFINE m == current.message
           q == IF pc = "message" THEN [current EXCEPT !.retry_at = RetryInterval] ELSE current
<1>1. /\ pc \in {"message", "retry"} /\ pc' = "select" /\ UNCHANGED called
      /\ unconfirmed' = Append(unconfirmed, q) /\ sends' = [sends EXCEPT ![m] = @ + 1]
      /\ first_sent' = IF pc = "message" THEN Append(first_sent, m) ELSE first_sent
  BY DEF MessageSent
<1>2. Entries /\ InSending /\ Others
  BY <1>1 DEF Books, Running
<1>3. current \in Unconfirmed /\ q \in Unconfirmed
  BY <1>1, EntryTypes DEF Control
<1>4. /\ m \in Messages /\ q.message = m /\ q.retries_remaining = current.retries_remaining
      /\ q.retries_remaining \in 0 .. RetryMaxCount
  BY <1>3 DEF Unconfirmed
<1>5. /\ first_sent \in Seq(Messages) /\ sends \in [Messages -> Nat] /\ RetryMaxCount \in Nat
  BY ConnectionAssumption DEF TypeOK
<1>6. (pc = "message" => m \notin ToSet(first_sent)) /\ (pc = "retry" => m \in ToSet(first_sent))
  BY <1>2, FirstTime DEF InSending, Owed, Accounted
<1>7. called[m] = 0 /\ sends[m] + q.retries_remaining = RetryMaxCount
  <2>1. CASE pc = "message"
    <3>1. sends[m] = 0 /\ called[m] = 0
      BY <1>2, <1>4, <1>6, <2>1 DEF Others
    <3>2. q.retries_remaining = RetryMaxCount
      BY <1>2, <1>4, <2>1 DEF InSending
    <3> QED  BY <1>5, <3>1, <3>2
  <2>2. CASE pc = "retry"
    BY <1>2, <1>4, <2>2 DEF InSending, Owed, Accounted
  <2> QED  BY <1>1, <2>1, <2>2
<1>8. \A k \in DOMAIN unconfirmed : unconfirmed[k].message # m
  BY <1>1, <1>2, <1>6 DEF Entries, InSending, Owed, Accounted
<1> HIDE DEF m, q
<1>9. /\ DOMAIN unconfirmed' = 1 .. Len(unconfirmed) + 1 /\ Len(unconfirmed) \in Nat
      /\ unconfirmed'[Len(unconfirmed) + 1] = q
      /\ \A k \in DOMAIN unconfirmed : unconfirmed'[k] = unconfirmed[k]
  BY <1>1, <1>3, QueueShape, AppendGives
<1>10. \A j \in DOMAIN unconfirmed' : j \in DOMAIN unconfirmed \/ j = Len(unconfirmed) + 1
  BY <1>9, QueueShape
<1>11. ToSet(first_sent') = ToSet(first_sent) \cup {m}
  <2>1. CASE pc = "message"
    <3>1. /\ DOMAIN first_sent' = 1 .. Len(first_sent) + 1 /\ Len(first_sent) \in Nat
          /\ DOMAIN first_sent = 1 .. Len(first_sent)
          /\ first_sent'[Len(first_sent) + 1] = m
          /\ \A k \in DOMAIN first_sent : first_sent'[k] = first_sent[k]
      BY <1>1, <1>4, <1>5, <2>1, AppendGives
    <3>2. DOMAIN first_sent' = DOMAIN first_sent \cup {Len(first_sent) + 1}
      BY <3>1
    <3> QED  BY <3>1, <3>2 DEF ToSet
  <2>2. CASE pc = "retry"
    <3>1. first_sent' = first_sent
      BY <1>1, <2>2
    <3> QED  BY <1>6, <2>2, <3>1
  <2> QED  BY <1>1, <2>1, <2>2
<1>12. /\ sends'[m] = sends[m] + 1 /\ sends[m] \in Nat
       /\ \A n \in Messages \ {m} : sends'[n] = sends[n]
  BY <1>1, <1>4, <1>5
<1>13. Accounted(q, RetryMaxCount + 1, first_sent', sends', called')
  <2>1. sends'[m] + q.retries_remaining = RetryMaxCount + 1
    <3>1. /\ sends'[m] = sends[m] + 1 /\ sends[m] \in Nat /\ q.retries_remaining \in Nat
          /\ sends[m] + q.retries_remaining = RetryMaxCount
      BY <1>4, <1>5, <1>7, <1>12
    <3>2. (sends[m] + 1) + q.retries_remaining = RetryMaxCount + 1
      BY <3>1
    <3> QED  BY <3>1, <3>2
  <2> QED  BY <1>1, <1>4, <1>7, <1>11, <2>1 DEF Accounted
<1>14. Entries'
  <2>1. ASSUME NEW j \in DOMAIN unconfirmed'
        PROVE  Accounted(unconfirmed'[j], RetryMaxCount + 1, first_sent', sends', called')
    <3>1. CASE j \in DOMAIN unconfirmed
      <4>1. Owed(unconfirmed[j], RetryMaxCount + 1)
        BY <1>2, <3>1 DEF Entries
      <4>2. unconfirmed[j].message \in Messages \ {m} /\ unconfirmed'[j] = unconfirmed[j]
        BY <1>8, <1>9, <3>1, QueueShape
      <4> QED  BY <1>1, <1>11, <1>12, <4>1, <4>2 DEF Owed, Accounted
    <3>2. CASE j = Len(unconfirmed) + 1
      BY <1>9, <1>13, <3>2
    <3> QED  BY <1>10, <3>1, <3>2
  <2>2. ASSUME NEW i \in DOMAIN unconfirmed', NEW j \in DOMAIN unconfirmed',
               unconfirmed'[i].message = unconfirmed'[j].message
        PROVE  i = j
    <3>1. CASE i \in DOMAIN unconfirmed /\ j \in DOMAIN unconfirmed
      BY <1>2, <1>9, <2>2, <3>1 DEF Entries
    <3>2. CASE ~(i \in DOMAIN unconfirmed /\ j \in DOMAIN unconfirmed)
      BY <1>4, <1>8, <1>9, <1>10, <2>2, <3>2
    <3> QED  BY <3>1, <3>2
  <2> QED  BY <2>1, <2>2 DEF Entries, Owed
<1>15. Others'
  <2>1. ASSUME NEW n \in Messages, n \notin ToSet(first_sent')
        PROVE  sends'[n] = 0 /\ called'[n] = 0
    BY <1>1, <1>2, <1>11, <1>12, <2>1 DEF Others
  <2>2. ASSUME NEW n \in ToSet(first_sent')
        PROVE  (\E j \in DOMAIN unconfirmed' : unconfirmed'[j].message = n) \/ called'[n] = 1
    <3>1. CASE n = m
      <4>1. Len(unconfirmed) + 1 \in DOMAIN unconfirmed'
        BY <1>9
      <4> QED  BY <1>4, <1>9, <3>1, <4>1
    <3>2. CASE n # m
      <4>1. n \in ToSet(first_sent)
        BY <1>11, <2>2, <3>2
      <4>2. (\E j \in DOMAIN unconfirmed : unconfirmed[j].message = n) \/ called[n] = 1
        BY <1>2, <3>2, <4>1 DEF Others, m
      <4>3. ASSUME NEW j \in DOMAIN unconfirmed, unconfirmed[j].message = n
            PROVE  \E i \in DOMAIN unconfirmed' : unconfirmed'[i].message = n
        <5>1. j \in DOMAIN unconfirmed' /\ unconfirmed'[j].message = n
          BY <1>9, <4>3, QueueShape
        <5> QED  BY <5>1
      <4> QED  BY <1>1, <4>2, <4>3
    <3> QED  BY <3>1, <3>2
  <2> QED  BY <2>1, <2>2 DEF Others
<1>16. Books'
  BY <1>1, <1>14, <1>15 DEF Books, InSending
<1>17. sends'[m] <= RetryMaxCount + 1
  BY <1>4, <1>5, <1>7, <1>12
<1> QED  BY <1>4, <1>12, <1>16, <1>17 DEF m

\* Time changes deadlines only.
LEMMA TickBooks ==
  ASSUME TypeOK, Control, Books, Tick
  PROVE  Books'
<1>1. /\ UNCHANGED <<pc, first_sent, sends, called>> /\ Running
      /\ current # None => current' = [current EXCEPT !.retry_at = Earlier(@)]
      /\ current = None => current' = current
  BY DEF Tick, history
<1>2. Entries /\ InSending /\ Others
  BY <1>1 DEF Books
<1>3. \A q \in Unconfirmed :
        /\ [q EXCEPT !.retry_at = Earlier(@)].message = q.message
        /\ [q EXCEPT !.retry_at = Earlier(@)].retries_remaining = q.retries_remaining
  BY DEF Unconfirmed
<1>4. /\ DOMAIN unconfirmed' = DOMAIN unconfirmed
      /\ \A k \in DOMAIN unconfirmed :
           /\ unconfirmed'[k].message = unconfirmed[k].message
           /\ unconfirmed'[k].retries_remaining = unconfirmed[k].retries_remaining
  BY <1>3, TickTypes, QueueShape
<1>5. pc \in {"message", "retry"} =>
        /\ current'.message = current.message
        /\ current'.retries_remaining = current.retries_remaining
  BY <1>1, <1>3 DEF Control
<1>6. Entries'
  BY <1>1, <1>2, <1>4 DEF Entries, Owed, Accounted
<1>7. InSending'
  BY <1>1, <1>2, <1>4, <1>5 DEF InSending, Owed, Accounted
<1>8. Others'
  BY <1>1, <1>2, <1>4, <1>5 DEF Others
<1> QED  BY <1>6, <1>7, <1>8 DEF Books

LEMMA BooksStep == TypeOK /\ Control /\ Flow /\ Books /\ [Next]_vars => Books'
<1> SUFFICES ASSUME TypeOK, Control, Flow, Books, [Next]_vars PROVE Books'
  OBVIOUS
<1> USE DEF timers, queues, history, Close
<1>1. CASE UNCHANGED vars
  BY <1>1, BooksKept DEF vars, Running
<1>2. CASE ProcessPing \/ PingSent
  BY <1>2, BooksKept DEF ProcessPing, PingSent, Running
<1>3. CASE ProcessIncoming
  <2> DEFINE frame == Head(incoming)
  <2>1. UNCHANGED <<current, first_sent, sends>> /\ pc = "select"
    BY <1>3 DEF ProcessIncoming
  <2>2. CASE frame.kind = "confirmation" /\ ProcessConfirmation(frame.message)
             /\ UNCHANGED <<pc, reason>>
    <3>1. frame \in In
      BY <1>3, TailGives DEF ProcessIncoming, ReadReady, TypeOK
    <3>2. frame.message \in Messages
      BY <2>2, <3>1 DEF In, Gone
    <3> HIDE DEF frame
    <3> QED  BY <2>1, <2>2, <3>2, ConfirmationBooks
  <2>3. CASE UNCHANGED <<unconfirmed, called>> /\ pc' \in {"select", "closing"}
    BY <2>1, <2>3, BooksKept DEF Running
  <2> QED  BY <1>3, <2>1, <2>2, <2>3 DEF ProcessIncoming, ProcessPong
<1>4. CASE SendFails \/ Finish
  BY <1>4 DEF SendFails, Finish, Books, Running
<1>5. CASE CloseConnections \/ Read \/ Answer \/ Leave
  BY <1>5, BooksKept DEF CloseConnections, Read, Answer, Leave, Running, TakeFrame
<1>6. CASE \E m \in Messages : Publish(m)
  BY <1>6, BooksKept DEF Publish, Running
<1> QED  BY <1>1, <1>2, <1>3, <1>4, <1>5, <1>6, ProcessMessageBooks, ProcessUnconfirmedBooks,
            MessageSentBooks, TickBooks DEF Next, Run

-----------------------------------------------------------------------------
(* When a message is given up *)

LEMMA GivenUpInit == Init => GivenUp
<1>1. None # "not confirmed in time"
  BY ConnectionAssumption DEF Reasons
<1>2. 0 <= RetryMaxCount + 1
  BY ConnectionAssumption
<1> QED  BY <1>1, <1>2 DEF Init, GivenUp

\* Nothing happens to what was given up.
LEMMA GivenUpKept ==
  ASSUME GivenUp, UNCHANGED sends,
         \/ UNCHANGED <<reason, current, incoming>>
         \/ reason' # "not confirmed in time"
  PROVE  GivenUp'
BY DEF GivenUp

LEMMA GivenUpStep == TypeOK /\ Control /\ Flow /\ Books /\ GivenUp /\ [Next]_vars => GivenUp'
<1> SUFFICES ASSUME TypeOK, Control, Flow, Books, GivenUp, [Next]_vars PROVE GivenUp'
  OBVIOUS
<1> USE DEF timers, queues, history, Close
<1>1. Running => reason # "not confirmed in time"
  BY ConnectionAssumption DEF Control, Reasons
<1>2. CASE UNCHANGED vars
  BY <1>2, GivenUpKept DEF vars
<1>3. CASE ProcessPing
  BY <1>1, <1>3, GivenUpKept DEF ProcessPing, Running
<1>4. CASE ProcessIncoming
  BY <1>1, <1>4, GivenUpKept DEF ProcessIncoming, Running
<1>5. CASE ProcessMessage
  BY <1>1, <1>5, GivenUpKept DEF ProcessMessage, Running
<1>6. CASE ProcessUnconfirmed
  <2>1. UNCHANGED <<sends, incoming>> /\ pc = "select"
    BY <1>6 DEF ProcessUnconfirmed
  <2>2. CASE pc' = "closing"
    <3>1. /\ current' \in Unconfirmed /\ incoming' = << >>
          /\ sends'[current'.message] = RetryMaxCount + 1
      BY <1>6, <2>2, ProcessUnconfirmedBooks
    <3> QED  BY <2>1, <3>1 DEF GivenUp
  <2>3. CASE pc' # "closing"
    <3>1. UNCHANGED reason
      BY <1>6, <2>3 DEF ProcessUnconfirmed
    <3> QED  BY <1>1, <2>1, <3>1, GivenUpKept DEF Running
  <2> QED  BY <2>2, <2>3
<1>7. CASE MessageSent
  <2>1. reason' = reason /\ Running
    BY <1>7 DEF MessageSent, Running
  <2>2. \A m \in Messages : sends'[m] <= RetryMaxCount + 1
    BY <1>7, MessageSentBooks DEF GivenUp
  <2> QED  BY <1>1, <2>1, <2>2 DEF GivenUp
<1>8. CASE PingSent \/ Finish \/ CloseConnections \/ Read
  BY <1>8, GivenUpKept DEF PingSent, Finish, CloseConnections, Read, TakeFrame
<1>9. CASE SendFails
  BY <1>9, GivenUpKept DEF SendFails
<1>10. CASE Answer \/ Leave \/ Tick
  BY <1>1, <1>10, GivenUpKept DEF Answer, Leave, Tick, TakeFrame
<1>11. CASE \E m \in Messages : Publish(m)
  BY <1>11, GivenUpKept DEF Publish
<1> QED  BY <1>2, <1>3, <1>4, <1>5, <1>6, <1>7, <1>8, <1>9, <1>10, <1>11 DEF Next, Run

-----------------------------------------------------------------------------
(* The theorems *)

LEMMA Inductive == Spec => []IInv
<1>1. Init => IInv
  BY TypeInit, FlowInit, OrderInit, BooksInit, GivenUpInit DEF IInv
<1>2. IInv /\ [Next]_vars => IInv'
  BY TypeStep, FlowStep, OrderStep, BooksStep, GivenUpStep DEF IInv
<1> QED  BY <1>1, <1>2, PTL DEF Spec

\* The variables of the task keep their types: the channel and the socket stay
\* within their capacities and no more than two pings go unanswered (try_run).
THEOREM TypeCorrect == Spec => []TypeOK
<1>1. IInv => TypeOK
  BY DEF IInv
<1> QED  BY <1>1, Inductive, PTL

\* try_run looks at the front of unconfirmed_messages only, and the front is what
\* is due first: what is sent or resent goes to the back with a deadline no
\* earlier than any other, whatever the socket delayed.
THEOREM FrontIsDueFirst == Spec => []QueueInOrder
<1>1. IInv => QueueInOrder
  BY DEF IInv, Order
<1> QED  BY <1>1, Inductive, PTL

\* The messages in the queue are those that were sent and not confirmed, each
\* once, and each callback is executed at most once
\* (process_incomming_binary_message, process_unconfirmed_message).
LEMMA BooksGive == TypeOK /\ Books => UntilConfirmed
<1> SUFFICES ASSUME TypeOK, Books, Running PROVE UntilConfirmed
  BY DEF UntilConfirmed
<1>1. Entries /\ InSending /\ Others
  BY DEF Books
<1>2. ASSUME NEW m \in ToSet(first_sent)
      PROVE  IF m \in Queued \cup (IF pc = "retry" THEN {current.message} ELSE {})
             THEN called[m] = 0 ELSE called[m] = 1
  <2>1. CASE m \in Queued
    BY <1>1, <2>1 DEF Queued, Entries, Owed, Accounted
  <2>2. CASE pc = "retry" /\ current.message = m
    BY <1>1, <2>2 DEF InSending, Owed, Accounted
  <2>3. CASE m \notin Queued /\ ~(pc = "retry" /\ current.message = m)
    BY <1>1, <1>2, <2>3 DEF Queued, Others
  <2> QED  BY <2>1, <2>2, <2>3
<1> QED  BY <1>1, <1>2 DEF UntilConfirmed, Entries

\* What was sent is the beginning of what was published.
LEMMA FlowGives == TypeOK /\ Flow => NoGap
<1> SUFFICES ASSUME TypeOK, Flow PROVE NoGap
  OBVIOUS
<1>1. /\ first_sent \in Seq(Messages) /\ published \in Seq(Messages)
      /\ DOMAIN first_sent = 1 .. Len(first_sent)
      /\ Len(first_sent) \in Nat /\ Len(published) \in Nat
  BY DEF TypeOK
<1>2. Len(first_sent) <= Len(published)
  <2>1. Len(first_sent) <= Taken
    BY <1>1 DEF Taken
  <2>2. Taken <= Len(published) /\ Taken \in Nat
    BY <1>1 DEF Flow, Taken
  <2> QED  BY <1>1, <2>1, <2>2
<1>3. \A k \in 1 .. Len(first_sent) : first_sent[k] = published[k]
  BY <1>1 DEF Flow
<1>4. /\ SubSeq(published, 1, Len(first_sent)) \in Seq(Messages)
      /\ Len(SubSeq(published, 1, Len(first_sent))) = Len(first_sent)
      /\ \A k \in 1 .. Len(first_sent) :
           SubSeq(published, 1, Len(first_sent))[k] = published[k]
  BY <1>1, <1>2
<1>5. first_sent = SubSeq(published, 1, Len(first_sent))
  BY <1>1, <1>3, <1>4, SeqEqual
<1> QED  BY <1>2, <1>5 DEF NoGap, IsPrefix

\* The client gets the messages in the order they were published and without a
\* gap, though the broadcast channel overwrites what the task is too slow to take;
\* and late, early and repeated confirmations lose no message and repeat no callback.
THEOREM InTurn == Spec => []InTurnUntilConfirmed
<1>1. IInv => InTurnUntilConfirmed
  BY BooksGive, FlowGives DEF IInv, InTurnUntilConfirmed
<1> QED  BY <1>1, Inductive, PTL

\* process_unconfirmed_message closes the websocket only after 1 + retry_max_count
\* sends, and the biased select! has then read everything the client had sent.
THEOREM AllRetriesUsed == Spec => []GivenUpAfterAll
<1>1. IInv => GivenUpAfterAll
  <2> SUFFICES ASSUME IInv PROVE GivenUpAfterAll
    OBVIOUS
  <2>1. GivenUp
    BY DEF IInv
  <2>2. incoming = << >> => ToSet(incoming) = {}
    BY DEF ToSet
  <2> QED  BY <2>1, <2>2 DEF GivenUp, GivenUpAfterAll
<1> QED  BY <1>1, Inductive, PTL

-----------------------------------------------------------------------------
(* The mailbox *)

\* What was sent is in the socket or with the client, and only what the client has read
\* is confirmed.
Seen == read \cup InSocket

Sight ==
  /\ Seen \subseteq ToSet(published)
  /\ \A k \in DOMAIN unconfirmed : unconfirmed[k].message \in Seen
  /\ pc = "retry" => current.message \in Seen
  /\ \A k \in DOMAIN incoming : incoming[k].kind = "confirmation" => incoming[k].message \in read
  /\ ConfirmedWasRead

LEMMA ToSetGives ==
  ASSUME NEW S, NEW s \in Seq(S)
  PROVE  /\ ToSet(s) \subseteq S
         /\ \A k \in DOMAIN s : s[k] \in ToSet(s)
         /\ \A e \in S : ToSet(Append(s, e)) = ToSet(s) \cup {e}
         /\ s # << >> => ToSet(s) = {Head(s)} \cup ToSet(Tail(s))
<1>1. ToSet(s) \subseteq S /\ \A k \in DOMAIN s : s[k] \in ToSet(s)
  BY DEF ToSet
<1>2. ASSUME NEW e \in S PROVE ToSet(Append(s, e)) = ToSet(s) \cup {e}
  <2>1. /\ DOMAIN s = 1 .. Len(s) /\ Len(s) \in Nat
        /\ DOMAIN Append(s, e) = 1 .. Len(s) + 1 /\ Append(s, e)[Len(s) + 1] = e
        /\ \A j \in DOMAIN s : Append(s, e)[j] = s[j]
    BY AppendGives
  <2> DEFINE t == Append(s, e)
  <2> HIDE DEF t
  <2>2. DOMAIN t = DOMAIN s \cup {Len(s) + 1}
    BY <2>1 DEF t
  <2> QED  BY <2>1, <2>2 DEF ToSet, t
<1>3. ASSUME s # << >> PROVE ToSet(s) = {Head(s)} \cup ToSet(Tail(s))
  <2> DEFINE t == Tail(s)
  <2>1. /\ DOMAIN s = 1 .. Len(s) /\ Len(s) \in Nat \ {0} /\ Head(s) = s[1]
        /\ DOMAIN t = 1 .. Len(s) - 1 /\ \A j \in 1 .. Len(s) - 1 : t[j] = s[j + 1]
    BY <1>3, TailGives
  <2> HIDE DEF t
  <2>2. ASSUME NEW k \in DOMAIN s PROVE s[k] \in {Head(s)} \cup ToSet(t)
    <3>1. k = 1 \/ k - 1 \in 1 .. Len(s) - 1
      BY <2>1
    <3>2. k - 1 \in 1 .. Len(s) - 1 => t[k - 1] = s[k] /\ k - 1 \in DOMAIN t
      BY <2>1
    <3> QED  BY <2>1, <3>1, <3>2 DEF ToSet
  <2>3. ASSUME NEW j \in DOMAIN t PROVE t[j] \in ToSet(s)
    <3>1. j + 1 \in DOMAIN s /\ t[j] = s[j + 1]
      BY <2>1
    <3> QED  BY <3>1 DEF ToSet
  <2>4. Head(s) \in ToSet(s)
    BY <2>1 DEF ToSet
  <2>5. ToSet(s) \subseteq {Head(s)} \cup ToSet(t)
    BY <2>2 DEF ToSet
  <2>6. ToSet(t) \subseteq ToSet(s)
    BY <2>3 DEF ToSet
  <2> QED  BY <2>4, <2>5, <2>6 DEF t
<1> QED  BY <1>1, <1>2, <1>3

\* The messages in the socket, and when a frame enters and leaves it.
InFrames(w) == {m \in Messages : Binary(m) \in ToSet(w)}

LEMMA SocketIs == InSocket = InFrames(wire) /\ InSocket' = InFrames(wire')
BY DEF InSocket, InFrames, ToSet

LEMMA FramesGive ==
  ASSUME NEW w \in Seq(Out)
  PROVE  /\ \A m \in Messages : InFrames(Append(w, Binary(m))) = InFrames(w) \cup {m}
         /\ \A n \in Nat : InFrames(Append(w, Ping(n))) = InFrames(w)
         /\ w # << >> =>
              InFrames(w) = InFrames(Tail(w)) \cup
                              (IF Head(w).kind = "message" THEN {Head(w).message} ELSE {})
<1>1. ASSUME NEW m \in Messages PROVE InFrames(Append(w, Binary(m))) = InFrames(w) \cup {m}
  <2>1. Binary(m) \in Out /\ \A l \in Messages : Binary(l) = Binary(m) => l = m
    BY DEF Binary, Out
  <2>2. ToSet(Append(w, Binary(m))) = ToSet(w) \cup {Binary(m)}
    BY <2>1, ToSetGives
  <2> QED  BY <2>1, <2>2 DEF InFrames
<1>2. ASSUME NEW n \in Nat PROVE InFrames(Append(w, Ping(n))) = InFrames(w)
  <2>1. Ping(n) \in Out /\ \A l \in Messages : Binary(l) # Ping(n)
    BY DEF Binary, Ping, Out
  <2>2. ToSet(Append(w, Ping(n))) = ToSet(w) \cup {Ping(n)}
    BY <2>1, ToSetGives
  <2> QED  BY <2>1, <2>2 DEF InFrames
<1>3. ASSUME w # << >>
      PROVE  InFrames(w) = InFrames(Tail(w)) \cup
                             (IF Head(w).kind = "message" THEN {Head(w).message} ELSE {})
  <2>1. Head(w) \in Out
    BY <1>3
  <2>2. ToSet(w) = {Head(w)} \cup ToSet(Tail(w))
    BY <1>3, ToSetGives
  <2> DEFINE f == Head(w)
  <2> HIDE DEF f
  <2>3. /\ f.kind = "message" => f.message \in Messages /\ f = Binary(f.message)
        /\ f.kind # "message" => \A l \in Messages : Binary(l) # f
        /\ \A l \in Messages : Binary(l) = f => l = f.message
    BY <2>1 DEF Binary, Out, f
  <2> QED  BY <2>2, <2>3 DEF InFrames, f
<1> QED  BY <1>1, <1>2, <1>3

LEMMA SightInit == Init => Sight
<1> SUFFICES ASSUME Init PROVE Sight
  OBVIOUS
<1>1. InSocket = {} /\ read = {} /\ unconfirmed = << >> /\ incoming = << >>
  BY DEF Init, InSocket
<1>2. ConfirmedWasRead
  BY DEF Init, ConfirmedWasRead
<1> QED  BY <1>1, <1>2 DEF Init, Sight, Seen

\* Most steps send nothing, take nothing and confirm nothing.
LEMMA SightKept ==
  ASSUME Sight, UNCHANGED <<read, wire, published, unconfirmed, incoming, called>>,
         pc' = "retry" => pc = "retry" /\ current' = current
  PROVE  Sight'
<1>1. InSocket' = InSocket
  BY DEF InSocket
<1>2. ConfirmedWasRead'
  BY DEF Sight, ConfirmedWasRead
<1>3. Seen' = Seen
  BY <1>1 DEF Seen
<1> QED  BY <1>2, <1>3 DEF Sight

LEMMA ProcessIncomingSight == TypeOK /\ Sight /\ ProcessIncoming => Sight'
<1> SUFFICES ASSUME TypeOK, Sight, ProcessIncoming PROVE Sight'
  OBVIOUS
<1> DEFINE frame == Head(incoming)
<1>1. /\ incoming \in Seq(In) /\ incoming # << >> /\ incoming' = Tail(incoming)
      /\ UNCHANGED <<read, wire, published>> /\ pc' # "retry"
      /\ called \in [Messages -> Nat] /\ unconfirmed \in Seq(Unconfirmed)
  BY DEF ProcessIncoming, ReadReady, TypeOK, queues, Close
<1>2. frame \in In /\ (frame.kind = "confirmation" => frame.message \in read)
  BY <1>1, TailGives DEF Sight
<1>3. \A k \in DOMAIN incoming' :
        incoming'[k].kind = "confirmation" => incoming'[k].message \in read
  <2>1. /\ DOMAIN incoming = 1 .. Len(incoming) /\ Len(incoming) \in Nat
        /\ DOMAIN incoming' = 1 .. Len(incoming) - 1
        /\ \A j \in 1 .. Len(incoming) - 1 : incoming'[j] = incoming[j + 1]
    BY <1>1, TailGives
  <2>2. ASSUME NEW k \in DOMAIN incoming', incoming'[k].kind = "confirmation"
        PROVE  incoming'[k].message \in read
    <3>1. k + 1 \in DOMAIN incoming /\ incoming'[k] = incoming[k + 1]
      BY <2>1
    <3> QED  BY <2>2, <3>1 DEF Sight
  <2> QED  BY <2>2
<1>4. Seen' = Seen
  BY <1>1 DEF Seen, InSocket
<1>5. /\ \A k \in DOMAIN unconfirmed' : unconfirmed'[k].message \in Seen
      /\ \A m \in Messages : called'[m] > 0 => m \in read
  <2>1. /\ \A k \in DOMAIN unconfirmed : unconfirmed[k].message \in Seen
        /\ \A m \in Messages : called[m] > 0 => m \in read
    BY DEF Sight, ConfirmedWasRead
  <2>2. CASE frame.kind = "confirmation" /\ ProcessConfirmation(frame.message)
    <3>1. frame.message \in Messages /\ frame.message \in read
      BY <1>2, <2>2 DEF In, Gone
    <3> HIDE DEF frame
    <3>2. CASE UNCHANGED <<unconfirmed, called>>
      BY <2>1, <3>2
    <3>3. ASSUME NEW k \in DOMAIN unconfirmed, unconfirmed' = RemoveAt(unconfirmed, k),
                 called' = [called EXCEPT ![frame.message] = @ + 1]
          PROVE  /\ \A j \in DOMAIN unconfirmed' : unconfirmed'[j].message \in Seen
                 /\ \A m \in Messages : called'[m] > 0 => m \in read
      <4>1. ASSUME NEW j \in DOMAIN unconfirmed' PROVE unconfirmed'[j].message \in Seen
        <5>1. \E i \in DOMAIN unconfirmed : unconfirmed'[j] = unconfirmed[i]
          <6>1. /\ DOMAIN unconfirmed' = 1 .. Len(unconfirmed) - 1
                /\ \A i \in 1 .. Len(unconfirmed) - 1 :
                     unconfirmed'[i] = unconfirmed[IF i < k THEN i ELSE i + 1]
            BY <1>1, <3>3, RemoveAtGives
          <6>2. Len(unconfirmed) \in Nat /\ DOMAIN unconfirmed = 1 .. Len(unconfirmed)
            BY <1>1
          <6>3. (IF j < k THEN j ELSE j + 1) \in DOMAIN unconfirmed
            BY <6>1, <6>2
          <6> QED  BY <6>1, <6>3
        <5> QED  BY <2>1, <5>1
      <4>2. \A m \in Messages : m # frame.message => called'[m] = called[m]
        BY <1>1, <3>3
      <4> QED  BY <2>1, <3>1, <4>1, <4>2
    <3> QED  BY <2>2, <3>2, <3>3 DEF ProcessConfirmation
  <2>3. CASE UNCHANGED <<unconfirmed, called>>
    BY <2>1, <2>3
  <2> QED  BY <2>2, <2>3 DEF ProcessIncoming, ProcessPong
<1> QED  BY <1>1, <1>3, <1>4, <1>5 DEF Sight, ConfirmedWasRead

LEMMA ProcessUnconfirmedSight == TypeOK /\ Sight /\ ProcessUnconfirmed => Sight'
<1> SUFFICES ASSUME TypeOK, Sight, ProcessUnconfirmed PROVE Sight'
  OBVIOUS
<1>1. /\ unconfirmed \in Seq(Unconfirmed) /\ unconfirmed # << >>
      /\ unconfirmed' = Tail(unconfirmed)
      /\ UNCHANGED <<read, wire, published, incoming, called>>
  BY DEF ProcessUnconfirmed, RetryDue, TypeOK, queues, history
<1>2. /\ Len(unconfirmed) \in Nat \ {0} /\ DOMAIN unconfirmed = 1 .. Len(unconfirmed)
      /\ DOMAIN unconfirmed' = 1 .. Len(unconfirmed) - 1
      /\ \A j \in 1 .. Len(unconfirmed) - 1 : unconfirmed'[j] = unconfirmed[j + 1]
      /\ Head(unconfirmed) = unconfirmed[1] /\ Head(unconfirmed) \in Unconfirmed
  BY <1>1, TailGives
<1>3. Seen' = Seen
  BY <1>1 DEF Seen, InSocket
<1>4. \A k \in DOMAIN unconfirmed : unconfirmed[k].message \in Seen
  BY DEF Sight
<1>5. \A j \in DOMAIN unconfirmed' : j + 1 \in DOMAIN unconfirmed
  BY <1>2
<1>6. \A k \in DOMAIN unconfirmed' : unconfirmed'[k].message \in Seen
  BY <1>2, <1>4, <1>5
<1>7. pc' = "retry" => current'.message \in Seen
  <2> DEFINE q == Head(unconfirmed)
  <2>1. q.message \in Seen
    BY <1>2, <1>4
  <2>2. q \in Unconfirmed
    BY <1>2
  <2> HIDE DEF q
  <2>3. [q EXCEPT !.retry_at = RetryInterval, !.retries_remaining = @ - 1].message = q.message
    BY <2>2 DEF Unconfirmed
  <2> QED  BY <2>1, <2>3 DEF ProcessUnconfirmed, Close, q
<1> QED  BY <1>1, <1>3, <1>6, <1>7 DEF Sight, ConfirmedWasRead

LEMMA PingSentFrames == TypeOK /\ PingSent => InSocket' = InSocket
<1> SUFFICES ASSUME TypeOK, PingSent PROVE InSocket' = InSocket
  OBVIOUS
<1>1. wire \in Seq(Out) /\ ping_message \in Nat /\ wire' = Append(wire, Ping(ping_message))
  BY DEF TypeOK, PingSent
<1> QED  BY <1>1, FramesGive, SocketIs

LEMMA PingSentSight == TypeOK /\ Sight /\ PingSent => Sight'
<1> SUFFICES ASSUME TypeOK, Sight, PingSent PROVE Sight'
  OBVIOUS
<1>1. InSocket' = InSocket
  BY PingSentFrames
<1>2. UNCHANGED <<read, published, unconfirmed, incoming, called>> /\ pc' # "retry"
  BY DEF PingSent, queues, history
<1>3. Seen' = Seen
  BY <1>1, <1>2 DEF Seen
<1> QED  BY <1>2, <1>3 DEF Sight, ConfirmedWasRead

LEMMA MessageSentFrames ==
  ASSUME TypeOK, Control, MessageSent
  PROVE  /\ current \in Unconfirmed /\ current.message \in Messages
         /\ InSocket' = InSocket \cup {current.message}
<1>1. /\ current \in Unconfirmed /\ current.message \in Messages
      /\ wire \in Seq(Out) /\ wire' = Append(wire, Binary(current.message))
  BY EntryTypes DEF TypeOK, Control, MessageSent
<1> QED  BY <1>1, FramesGive, SocketIs

LEMMA MessageSentSight == TypeOK /\ Control /\ Flow /\ Sight /\ MessageSent => Sight'
<1> SUFFICES ASSUME TypeOK, Control, Flow, Sight, MessageSent PROVE Sight'
  OBVIOUS
<1> DEFINE q == IF pc = "message" THEN [current EXCEPT !.retry_at = RetryInterval] ELSE current
<1>1. current \in Unconfirmed /\ q \in Unconfirmed /\ q.message = current.message
  BY MessageSentFrames, EntryTypes DEF Unconfirmed
<1>2. /\ unconfirmed \in Seq(Unconfirmed) /\ unconfirmed' = Append(unconfirmed, q)
      /\ UNCHANGED <<read, published, incoming, called>> /\ pc' = "select"
  BY DEF MessageSent, TypeOK, queues
<1> HIDE DEF q
<1>3. Seen' = Seen \cup {current.message}
  BY <1>2, MessageSentFrames DEF Seen
<1>4. current.message \in ToSet(published)
  <2>1. CASE pc = "message"
    <3>1. /\ published \in Seq(Messages) /\ first_sent \in Seq(Messages)
          /\ Len(first_sent) + 1 <= Len(published)
          /\ current.message = published[Len(first_sent) + 1]
      BY <2>1 DEF Flow, Taken, TypeOK
    <3>2. Len(first_sent) + 1 \in DOMAIN published
      BY <3>1
    <3> QED  BY <3>1, <3>2, ToSetGives
  <2>2. CASE pc = "retry"
    BY <2>2 DEF Sight
  <2> QED  BY <2>1, <2>2 DEF MessageSent
<1>5. \A k \in DOMAIN unconfirmed' : unconfirmed'[k].message \in Seen'
  <2>1. /\ DOMAIN unconfirmed = 1 .. Len(unconfirmed) /\ Len(unconfirmed) \in Nat
        /\ DOMAIN unconfirmed' = 1 .. Len(unconfirmed) + 1
        /\ unconfirmed'[Len(unconfirmed) + 1] = q
        /\ \A j \in DOMAIN unconfirmed : unconfirmed'[j] = unconfirmed[j]
    BY <1>1, <1>2, AppendGives
  <2>2. DOMAIN unconfirmed' = DOMAIN unconfirmed \cup {Len(unconfirmed) + 1}
    BY <2>1
  <2> QED  BY <1>1, <1>3, <2>1, <2>2 DEF Sight
<1> QED  BY <1>2, <1>3, <1>4, <1>5 DEF Sight, ConfirmedWasRead

\* The frame leaves the socket, and a message is with the client then.
LEMMA TakeFrameFrames ==
  ASSUME TypeOK, TakeFrame
  PROVE  LET taken == IF Head(wire).kind = "message" THEN {Head(wire).message} ELSE {}
         IN /\ InSocket = InSocket' \cup taken
            /\ read' = read \cup taken
            /\ taken \subseteq Messages
<1>1. wire \in Seq(Out) /\ wire # << >> /\ wire' = Tail(wire) /\ Head(wire) \in Out
  BY DEF TypeOK, TakeFrame
<1>2. Head(wire).kind = "message" => Head(wire).message \in Messages
  BY <1>1 DEF Out
<1> QED  BY <1>1, <1>2, FramesGive, SocketIs DEF TakeFrame

LEMMA TakeFrameSight ==
  ASSUME TypeOK, Sight, TakeFrame,
         UNCHANGED <<pc, current, unconfirmed, published, incoming>>
  PROVE  Sight'
<1>1. Seen' = Seen /\ read \subseteq read'
  BY TakeFrameFrames DEF Seen
<1>2. called' = called
  BY DEF TakeFrame
<1> QED  BY <1>1, <1>2 DEF Sight, ConfirmedWasRead

LEMMA AnswerSight == TypeOK /\ Sight /\ Answer => Sight'
<1> SUFFICES ASSUME TypeOK, Sight, Answer PROVE Sight'
  OBVIOUS
<1> DEFINE frame == IF Head(wire).kind = "ping" THEN Pong(Head(wire).number)
                                                ELSE Confirm(Head(wire).message)
<1>1. TakeFrame /\ UNCHANGED <<pc, current, unconfirmed, published>>
  BY DEF Answer, queues
<1>2. Seen' = Seen /\ read \subseteq read' /\ called' = called
  BY <1>1, TakeFrameFrames DEF Seen, TakeFrame
<1>3. Head(wire) \in Out
  BY <1>1, TakeFrameTypes
<1>4. frame \in In
  BY <1>3 DEF Out, In, Pong, Confirm
<1>5. frame.kind = "confirmation" => frame.message \in read'
  BY <1>1, <1>3, TakeFrameFrames DEF Out, Pong, Confirm
<1>6. incoming \in Seq(In) /\ incoming' = Append(incoming, frame)
  BY DEF TypeOK, Answer
<1> HIDE DEF frame
<1>7. /\ DOMAIN incoming = 1 .. Len(incoming) /\ Len(incoming) \in Nat
      /\ DOMAIN incoming' = 1 .. Len(incoming) + 1 /\ incoming'[Len(incoming) + 1] = frame
      /\ \A j \in DOMAIN incoming : incoming'[j] = incoming[j]
  BY <1>4, <1>6, AppendGives
<1>8. DOMAIN incoming' = DOMAIN incoming \cup {Len(incoming) + 1}
  BY <1>7
<1>9. \A k \in DOMAIN incoming' :
        incoming'[k].kind = "confirmation" => incoming'[k].message \in read'
  BY <1>2, <1>5, <1>7, <1>8 DEF Sight
<1> QED  BY <1>1, <1>2, <1>9 DEF Sight, ConfirmedWasRead

LEMMA LeaveSight == TypeOK /\ Sight /\ Leave => Sight'
<1> SUFFICES ASSUME TypeOK, Sight, Leave PROVE Sight'
  OBVIOUS
<1>1. /\ incoming \in Seq(In) /\ Gone \in In /\ incoming' = Append(incoming, Gone)
      /\ Gone.kind # "confirmation"
      /\ UNCHANGED <<pc, current, read, wire, published, unconfirmed, called>>
  BY DEF TypeOK, Leave, In, Gone, queues, history
<1>2. /\ DOMAIN incoming = 1 .. Len(incoming) /\ Len(incoming) \in Nat
      /\ DOMAIN incoming' = 1 .. Len(incoming) + 1 /\ incoming'[Len(incoming) + 1] = Gone
      /\ \A j \in DOMAIN incoming : incoming'[j] = incoming[j]
  BY <1>1, AppendGives
<1>3. DOMAIN incoming' = DOMAIN incoming \cup {Len(incoming) + 1}
  BY <1>2
<1>4. \A k \in DOMAIN incoming' :
        incoming'[k].kind = "confirmation" => incoming'[k].message \in read
  BY <1>1, <1>2, <1>3 DEF Sight
<1>5. Seen' = Seen
  BY <1>1 DEF Seen, InSocket
<1> QED  BY <1>1, <1>4, <1>5 DEF Sight, ConfirmedWasRead

LEMMA TickSight == TypeOK /\ Control /\ Sight /\ Tick => Sight'
<1> SUFFICES ASSUME TypeOK, Control, Sight, Tick PROVE Sight'
  OBVIOUS
<1>1. UNCHANGED <<pc, read, wire, published, incoming, called>>
  BY DEF Tick, queues, history
<1>2. Seen' = Seen
  BY <1>1 DEF Seen, InSocket
<1>3. /\ DOMAIN unconfirmed' = DOMAIN unconfirmed
      /\ \A k \in DOMAIN unconfirmed : unconfirmed'[k].message = unconfirmed[k].message
  <2>1. \A q \in Unconfirmed : [q EXCEPT !.retry_at = Earlier(@)].message = q.message
    BY DEF Unconfirmed
  <2> QED  BY <2>1, TickTypes, QueueShape
<1>4. pc = "retry" => current'.message = current.message
  BY DEF Tick, Control, Unconfirmed
<1> QED  BY <1>1, <1>2, <1>3, <1>4 DEF Sight, ConfirmedWasRead

LEMMA PublishSight ==
  ASSUME TypeOK, Sight, NEW m \in Messages, Publish(m)
  PROVE  Sight'
<1>1. /\ published \in Seq(Messages) /\ published' = Append(published, m)
      /\ UNCHANGED <<pc, current, read, wire, unconfirmed, incoming, called>>
  BY DEF TypeOK, Publish, timers, history
<1>2. ToSet(published) \subseteq ToSet(published')
  BY <1>1, ToSetGives
<1>3. Seen' = Seen
  BY <1>1 DEF Seen, InSocket
<1> QED  BY <1>1, <1>2, <1>3 DEF Sight, ConfirmedWasRead

LEMMA SightStep == TypeOK /\ Control /\ Flow /\ Sight /\ [Next]_vars => Sight'
<1> SUFFICES ASSUME TypeOK, Control, Flow, Sight, [Next]_vars PROVE Sight'
  OBVIOUS
<1> USE DEF timers, queues, history, Close
<1>1. CASE UNCHANGED vars
  BY <1>1, SightKept DEF vars
<1>2. CASE ProcessPing \/ ProcessMessage
  BY <1>2, SightKept DEF ProcessPing, ProcessMessage
<1>3. CASE SendFails \/ Finish \/ CloseConnections
  BY <1>3, SightKept DEF SendFails, Finish, CloseConnections
<1>4. CASE Read
  BY <1>4, TakeFrameSight DEF Read
<1>5. CASE \E m \in Messages : Publish(m)
  BY <1>5, PublishSight
<1> QED  BY <1>1, <1>2, <1>3, <1>4, <1>5, ProcessIncomingSight, ProcessUnconfirmedSight,
            PingSentSight, MessageSentSight, AnswerSight, LeaveSight, TickSight DEF Next, Run

-----------------------------------------------------------------------------
(* The connection is a mailbox *)

\* What is in hand for the first time, and what the mailbox holds.
InHand  == {m \in Messages : pc = "message" /\ current.message = m}
Waiting == IF Open THEN ToSet(inbox) ELSE {}
Holds   == (Waiting \cup InHand \cup InSocket) \ read

LEMMA PromiseGives ==
  /\ Promise!Init <=> Holds = {} /\ read = {} /\ Open = TRUE
  /\ UNCHANGED <<Holds, read, Open>> => UNCHANGED Promise!vars
  /\ Open' = FALSE /\ Holds' \subseteq Holds /\ read' = read => Promise!Next
  /\ \A m \in Messages :
       /\ Open /\ Holds' = Holds \cup {m} /\ UNCHANGED <<read, Open>> => Promise!Next
       /\ m \in Holds /\ Holds' = Holds \ {m} /\ read' = read \cup {m} /\ UNCHANGED Open
            => Promise!Next
<1> USE DEF Holds, Waiting, InHand
<1>1. Promise!Init <=> Holds = {} /\ read = {} /\ Open = TRUE
  BY DEF Promise!Init
<1>2. UNCHANGED <<Holds, read, Open>> => UNCHANGED Promise!vars
  BY DEF Promise!vars
<1>3. Open' = FALSE /\ Holds' \subseteq Holds /\ read' = read => Promise!Next
  BY DEF Promise!Next, Promise!End
<1>4. ASSUME NEW m \in Messages, Open, Holds' = Holds \cup {m}, UNCHANGED <<read, Open>>
      PROVE  Promise!Next
  BY <1>4 DEF Promise!Next, Promise!Put
<1>5. ASSUME NEW m \in Messages, m \in Holds, Holds' = Holds \ {m}, read' = read \cup {m},
             UNCHANGED Open
      PROVE  Promise!Next
  BY <1>5 DEF Promise!Next, Promise!Read
<1> QED  BY <1>1, <1>2, <1>3, <1>4, <1>5

\* A step that moves nothing, and one that ends the mailbox.
LEMMA HoldsKept ==
  ASSUME UNCHANGED <<Open, inbox, InHand, InSocket, read>>
  PROVE  UNCHANGED Promise!vars
<1>1. Waiting' = Waiting
  BY DEF Waiting
<1>2. Holds' = Holds
  BY <1>1 DEF Holds
<1> QED  BY <1>2, PromiseGives

LEMMA HoldsLess ==
  ASSUME Open' = FALSE, read' = read, InHand' \cup InSocket' \subseteq InHand \cup InSocket \cup read
  PROVE  Promise!Next
<1>1. Waiting' = {}
  BY DEF Waiting
<1>2. Holds' \subseteq Holds
  BY <1>1 DEF Holds
<1> QED  BY <1>2, PromiseGives

LEMMA ProcessMessageKeeps ==
  TypeOK /\ ProcessMessage => Promise!Next \/ UNCHANGED Promise!vars
<1> SUFFICES ASSUME TypeOK, ProcessMessage PROVE Promise!Next \/ UNCHANGED Promise!vars
  OBVIOUS
<1>1. UNCHANGED <<wire, read, lagged>> /\ pc = "select" /\ inbox \in Seq(Messages)
  BY DEF ProcessMessage, TypeOK, history
<1>2. InSocket' = InSocket /\ InHand = {}
  BY <1>1 DEF InSocket, InHand
<1>3. CASE ~lagged /\ inbox # << >>
  <2>1. Head(inbox) \in Messages /\ inbox' = Tail(inbox) /\ pc' = "message"
        /\ current' = New(Head(inbox))
    BY <1>1, <1>3 DEF ProcessMessage
  <2>2. Open /\ Open'
    BY <1>1, <1>3, <2>1 DEF Open, Running
  <2>3. InHand' = {Head(inbox)}
    BY <2>1 DEF InHand, New
  <2>4. ToSet(inbox) = {Head(inbox)} \cup ToSet(inbox')
    BY <1>1, <1>3, <2>1, ToSetGives
  <2>5. Waiting = {Head(inbox)} \cup Waiting'
    BY <2>2, <2>4 DEF Waiting
  <2>6. Holds' = Holds
    BY <1>1, <1>2, <2>3, <2>5 DEF Holds
  <2> QED  BY <1>1, <2>2, <2>6, PromiseGives DEF Open
<1>4. CASE ~(~lagged /\ inbox # << >>)
  <2>1. pc' = "closing"
    BY <1>4 DEF ProcessMessage, Close
  <2>2. Open' = FALSE /\ InHand' = {}
    BY <2>1 DEF Open, Running, InHand
  <2> QED  BY <1>1, <1>2, <2>2, HoldsLess
<1> QED  BY <1>3, <1>4

LEMMA MessageSentKeeps ==
  TypeOK /\ Control /\ Sight /\ MessageSent => UNCHANGED Promise!vars
<1> SUFFICES ASSUME TypeOK, Control, Sight, MessageSent PROVE UNCHANGED Promise!vars
  OBVIOUS
<1>1. UNCHANGED <<inbox, lagged, read>> /\ pc \in {"message", "retry"} /\ pc' = "select"
  BY DEF MessageSent, queues
<1>2. Open' = Open /\ InHand' = {}
  BY <1>1 DEF Open, Running, InHand
<1>3. Waiting' = Waiting
  BY <1>1, <1>2 DEF Waiting
<1>4. InHand \cup InSocket \cup read = InSocket' \cup read'
  <2>1. InSocket' = InSocket \cup {current.message} /\ current.message \in Messages
    BY MessageSentFrames
  <2>2. CASE pc = "message"
    BY <1>1, <2>1, <2>2 DEF InHand
  <2>3. CASE pc = "retry"
    <3>1. InHand = {} /\ current.message \in read \cup InSocket
      BY <2>3 DEF InHand, Sight, Seen
    <3> QED  BY <1>1, <2>1, <3>1
  <2> QED  BY <1>1, <2>2, <2>3
<1>5. Holds' = Holds
  BY <1>1, <1>2, <1>3, <1>4 DEF Holds
<1> QED  BY <1>1, <1>2, <1>5, PromiseGives

\* Reading again what was resent changes nothing.
LEMMA TakeFrameKeeps ==
  ASSUME TypeOK, TakeFrame, UNCHANGED <<pc, current, inbox, lagged>>
  PROVE  Promise!Next \/ UNCHANGED Promise!vars
<1>1. Open' = Open /\ InHand' = InHand
  BY DEF Open, Running, InHand
<1>2. Waiting' = Waiting
  BY <1>1 DEF Waiting
<1>3. CASE Head(wire).kind # "message"
  BY <1>1, <1>3, TakeFrameFrames, HoldsKept
<1>4. CASE Head(wire).kind = "message"
  <2> DEFINE m == Head(wire).message
  <2>1. m \in Messages /\ m \in InSocket /\ InSocket = InSocket' \cup {m} /\ read' = read \cup {m}
    BY <1>4, TakeFrameFrames
  <2> HIDE DEF m
  <2>2. Holds' = Holds \ {m}
    BY <1>1, <1>2, <2>1 DEF Holds
  <2>3. CASE m \in read
    <3>1. Holds' = Holds /\ read' = read
      BY <2>1, <2>2, <2>3 DEF Holds
    <3> QED  BY <1>1, <3>1, PromiseGives
  <2>4. CASE m \notin read
    <3>1. m \in Holds
      BY <2>1, <2>4 DEF Holds
    <3> QED  BY <1>1, <2>1, <2>2, <3>1, PromiseGives
  <2> QED  BY <2>3, <2>4
<1> QED  BY <1>3, <1>4

LEMMA PublishKeeps ==
  ASSUME TypeOK, Sight, NEW m \in Messages, Publish(m)
  PROVE  Promise!Next
<1>1. /\ inbox \in Seq(Messages) /\ m \notin ToSet(published)
      /\ UNCHANGED <<pc, current, wire, read>>
  BY DEF TypeOK, Publish, history
<1>2. InSocket' = InSocket /\ InHand' = InHand
  BY <1>1 DEF InSocket, InHand
<1>3. CASE Open /\ Len(inbox) < BufferSize
  <2>1. inbox' = Append(inbox, m) /\ lagged' = lagged
    BY <1>3 DEF Publish
  <2>2. Open' = Open
    BY <1>1, <2>1 DEF Open, Running
  <2>3. Waiting' = Waiting \cup {m}
    BY <1>1, <1>3, <2>1, <2>2, ToSetGives DEF Waiting
  <2>4. m \notin read
    BY <1>1 DEF Sight, Seen
  <2>5. Holds' = Holds \cup {m}
    BY <1>1, <1>2, <2>3, <2>4 DEF Holds
  <2> QED  BY <1>1, <1>3, <2>2, <2>5, PromiseGives
<1>4. CASE ~(Open /\ Len(inbox) < BufferSize)
  <2>1. Open' = FALSE
    BY <1>1, <1>4 DEF Publish, Open, Running
  <2> QED  BY <1>1, <1>2, <2>1, HoldsLess
<1> QED  BY <1>3, <1>4

LEMMA StepKeepsMailbox ==
  TypeOK /\ Control /\ Flow /\ Sight /\ [Next]_vars => Promise!Next \/ UNCHANGED Promise!vars
<1> SUFFICES ASSUME TypeOK, Control, Flow, Sight, [Next]_vars
             PROVE  Promise!Next \/ UNCHANGED Promise!vars
  OBVIOUS
<1> USE DEF queues, history, Close
<1>1. CASE UNCHANGED vars \/ CloseConnections \/ Leave
  <2>1. UNCHANGED <<pc, current, inbox, lagged, wire, read>>
    BY <1>1 DEF vars, CloseConnections, Leave
  <2> QED  BY <2>1, HoldsKept DEF Open, Running, InHand, InSocket
<1>2. CASE Tick
  <2>1. UNCHANGED <<pc, inbox, lagged, wire, read>>
    BY <1>2 DEF Tick
  <2>2. pc = "message" => current'.message = current.message
    BY <1>2 DEF Tick, Control, Unconfirmed
  <2>3. InHand' = InHand
    BY <2>1, <2>2 DEF InHand
  <2> QED  BY <2>1, <2>3, HoldsKept DEF Open, Running, InSocket
<1>3. CASE ProcessPing \/ ProcessIncoming \/ ProcessUnconfirmed \/ PingSent \/ SendFails \/ Finish
  <2>1. UNCHANGED <<inbox, lagged, read>>
    BY <1>3 DEF ProcessPing, ProcessIncoming, ProcessUnconfirmed, PingSent, SendFails, Finish
  <2>2. InSocket' = InSocket
    <3>1. CASE PingSent
      BY <3>1, PingSentFrames
    <3>2. CASE ~PingSent
      BY <1>3, <3>2 DEF ProcessPing, ProcessIncoming, ProcessUnconfirmed, SendFails, Finish,
                        InSocket
    <3> QED  BY <3>1, <3>2
  <2>3. InHand' = {}
    <3>1. pc' # "message"
      BY <1>3 DEF ProcessPing, ProcessIncoming, ProcessUnconfirmed, PingSent, SendFails, Finish
    <3> QED  BY <3>1 DEF InHand
  <2>4. CASE pc' \in {"closing", "closed"}
    BY <2>1, <2>2, <2>3, <2>4, HoldsLess DEF Open, Running
  <2>5. CASE pc' \notin {"closing", "closed"}
    <3>1. pc \in {"select", "ping"}
      BY <1>3, <2>5 DEF ProcessPing, ProcessIncoming, ProcessUnconfirmed, PingSent, SendFails,
                        Finish
    <3>2. InHand' = InHand /\ Open' = Open
      BY <2>1, <2>3, <2>5, <3>1 DEF InHand, Open, Running
    <3> QED  BY <2>1, <2>2, <3>2, HoldsKept
  <2> QED  BY <2>4, <2>5
<1>4. CASE Read \/ Answer
  BY <1>4, TakeFrameKeeps DEF Read, Answer
<1>5. CASE \E m \in Messages : Publish(m)
  BY <1>5, PublishKeeps
<1> QED  BY <1>1, <1>2, <1>3, <1>4, <1>5, ProcessMessageKeeps, MessageSentKeeps DEF Next, Run

LEMMA SightAlways == Spec => []Sight
<1>1. IInv /\ Sight /\ [Next]_vars => Sight'
  BY SightStep DEF IInv
<1> QED  BY <1>1, SightInit, Inductive, PTL DEF Spec

\* The callback of a message is executed only when its client has read that message:
\* process_incomming_binary_message executes nothing on a guess of its own.
THEOREM CalledForRead == Spec => []ConfirmedWasRead
<1>1. Sight => ConfirmedWasRead
  BY DEF Sight
<1> QED  BY <1>1, SightAlways, PTL

\* WebSocketConnection is a mailbox to the service and the client: what the service
\* puts in the channel while the websocket takes messages waits there, in hand or in
\* the socket until the client has read it, whatever is resent, confirmed or delayed;
\* only the end of the websocket, or the channel overwriting what the task is too slow
\* to take, loses it.
THEOREM ConnectionIsMailbox == Spec => MailboxSpec
<1>1. Init => Promise!Init
  <2> SUFFICES ASSUME Init PROVE Promise!Init
    OBVIOUS
  <2>1. /\ inbox = << >> /\ read = {} /\ pc = "select" /\ lagged = FALSE
        /\ InSocket = {} /\ InHand = {}
    BY DEF Init, InSocket, InHand
  <2>2. Holds = {} /\ Open = TRUE
    BY <2>1 DEF Holds, Waiting, Open, Running, ToSet
  <2> QED  BY <2>1, <2>2, PromiseGives
<1>2. IInv /\ Sight /\ [Next]_vars => [Promise!Next]_(Promise!vars)
  BY StepKeepsMailbox DEF IInv
<1> QED  BY <1>1, <1>2, Inductive, SightAlways, PTL DEF Spec, MailboxSpec, Promise!Spec

=============================================================================
