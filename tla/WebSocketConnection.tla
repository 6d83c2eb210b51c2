------------------------ MODULE WebSocketConnection ------------------------
(***************************************************************************)
(* tom-notifier-ws-delivery: the task of one websocket                     *)
(* (websocket_connection.rs): heartbeat, messages, retries, confirmations. *)
(*                                                                         *)
(* Time is kept as what remains until a deadline, so no clock is bounded.  *)
(* The task runs whenever it likes; it stops where it awaits the socket,   *)
(* whose buffer takes SocketBuffer frames until the client reads, and as   *)
(* many from the client until the task reads.  The client reads, answers   *)
(* or stays silent as it likes, forever.  Its own pings, and frames that   *)
(* answer nothing, change nothing and are left out.                        *)
(***************************************************************************)
EXTENDS Integers, Sequences, SequencesExt

CONSTANTS
  Messages,       \* what WebSocketsService sends to the user, each once
  None,
  PingInterval,   \* ping_interval
  RetryInterval,  \* retry_interval
  RetryMaxCount,  \* retry_max_count
  BufferSize,     \* capacity of the broadcast channel of the user
  SocketBuffer,   \* frames the socket takes, in each direction, until they are read
  PingNumbers     \* where ping_message wraps: 2^32

\* Why a connection closes.
Reasons == {"user unresponsive", "not confirmed in time", "lagged", "forcefully closed",
            "socket"}

ASSUME ConnectionAssumption ==
  /\ {PingInterval, RetryInterval, BufferSize, SocketBuffer, PingNumbers} \subseteq Nat \ {0}
  /\ RetryMaxCount \in Nat
  /\ None \notin Messages \cup Reasons

VARIABLES
  pc,            \* "select", the send it awaits, "closing" or "closed"
  reason,        \* why it closes
  current,       \* the message in hand: being sent, or given up
  ping_time, ping_message, pings_sent,
  unconfirmed,   \* unconfirmed_messages
  inbox,         \* messages_rx
  lagged,        \* the channel overwrote what was not received
  forced,        \* the sender is gone: close_connections
  wire,          \* frames in the socket, to the client
  incoming,      \* frames from the client, not read by the task
  published,     \* history: what was sent to the user, in order
  first_sent,    \* history: messages sent for the first time, in order
  sends,         \* history: how often each message was sent
  called,        \* history: how often its callback was executed
  read           \* history: what the client has read

timers  == <<ping_time, ping_message, pings_sent>>
queues  == <<inbox, lagged, forced, published>>
history == <<first_sent, sends, called, read>>
vars == <<pc, reason, current, timers, unconfirmed, queues, wire, incoming, history>>

Ping(n)    == [kind |-> "ping", number |-> n]
Pong(n)    == [kind |-> "pong", number |-> n]
Binary(m)  == [kind |-> "message", message |-> m]
Confirm(m) == [kind |-> "confirmation", message |-> m]
\* Close frame, text frame, what cannot be decoded, read error or end of stream: each ends
\* the connection.
Gone       == [kind |-> "gone"]

Out == [kind : {"ping"}, number : Nat] \cup [kind : {"message"}, message : Messages]
In  == [kind : {"pong"}, number : Nat] \cup [kind : {"confirmation"}, message : Messages]
         \cup {Gone}

Unconfirmed == [message : Messages, retry_at : 0 .. RetryInterval,
                retries_remaining : 0 .. RetryMaxCount]

Sending == {"ping", "message", "retry"}

TypeOK ==
  /\ pc \in {"select", "closing", "closed"} \cup Sending
  /\ reason \in Reasons \cup {None}
  /\ current \in Unconfirmed \cup {None}
  /\ ping_time \in 0 .. PingInterval /\ ping_message \in Nat /\ pings_sent \in 0 .. 2
  /\ unconfirmed \in Seq(Unconfirmed)
  /\ inbox \in Seq(Messages) /\ Len(inbox) <= BufferSize
  /\ lagged \in BOOLEAN /\ forced \in BOOLEAN
  /\ wire \in Seq(Out) /\ Len(wire) <= SocketBuffer
  /\ incoming \in Seq(In)
  /\ published \in Seq(Messages) /\ first_sent \in Seq(Messages)
  /\ sends \in [Messages -> Nat] /\ called \in [Messages -> Nat]
  /\ read \subseteq Messages

Init ==
  /\ pc = "select" /\ reason = None /\ current = None
  /\ ping_time = PingInterval /\ ping_message = 0 /\ pings_sent = 0
  /\ unconfirmed = << >>
  /\ inbox = << >> /\ lagged = FALSE /\ forced = FALSE
  /\ wire = << >> /\ incoming = << >>
  /\ published = << >> /\ first_sent = << >>
  /\ sends = [m \in Messages |-> 0] /\ called = [m \in Messages |-> 0]
  /\ read = {}

-----------------------------------------------------------------------------
(* try_run: the biased select! *)

PingDue   == ping_time = 0
ReadReady == incoming # << >>
RecvReady == inbox # << >> \/ lagged \/ forced
RetryDue  == unconfirmed # << >> /\ Head(unconfirmed).retry_at = 0

\* Mutant: one ping too many before the client is given up.
Unanswered_Late == pings_sent > 2

Unanswered == pings_sent > 1

Close(why) == pc' = "closing" /\ reason' = why

ProcessPing ==
  /\ pc = "select" /\ PingDue
  /\ IF Unanswered
     THEN Close("user unresponsive") /\ UNCHANGED ping_message
     ELSE /\ pc' = "ping" /\ UNCHANGED reason
          /\ ping_message' = IF pings_sent = 0 THEN (ping_message + 1) % PingNumbers
                                                ELSE ping_message
  /\ UNCHANGED <<current, ping_time, pings_sent, unconfirmed, queues, wire, incoming,
                 history>>

\* The client is responsive: the next ping is deferred.
Responsive == ping_time' = PingInterval /\ pings_sent' = 0 /\ UNCHANGED ping_message

\* Mutant: takes the message at the front for the one confirmed.
ProcessConfirmation_Front(m) ==
  IF \E k \in DOMAIN unconfirmed : unconfirmed[k].message = m
  THEN /\ Responsive
       /\ unconfirmed' = Tail(unconfirmed)
       /\ called' = [called EXCEPT ![m] = @ + 1]
  ELSE UNCHANGED <<timers, unconfirmed, called>>

\* process_incomming_binary_message; the callback is executed at once.
ProcessConfirmation(m) ==
  LET at == {k \in DOMAIN unconfirmed : unconfirmed[k].message = m}
  IN IF at = {} THEN UNCHANGED <<timers, unconfirmed, called>>
     ELSE /\ Responsive
          /\ \E k \in at : unconfirmed' = RemoveAt(unconfirmed, k)
          /\ called' = [called EXCEPT ![m] = @ + 1]

\* process_incomming_pong_message
ProcessPong(n) ==
  /\ IF pings_sent # 0 /\ n = ping_message THEN Responsive ELSE UNCHANGED timers
  /\ UNCHANGED <<unconfirmed, called>>

\* process_incomming_message
ProcessIncoming ==
  /\ pc = "select" /\ ~PingDue /\ ReadReady
  /\ incoming' = Tail(incoming)
  /\ LET frame == Head(incoming) IN
     \/ frame.kind = "confirmation" /\ ProcessConfirmation(frame.message)
        /\ UNCHANGED <<pc, reason>>
     \/ frame.kind = "pong" /\ ProcessPong(frame.number) /\ UNCHANGED <<pc, reason>>
     \/ frame.kind = "gone" /\ Close("socket") /\ UNCHANGED <<timers, unconfirmed, called>>
  /\ UNCHANGED <<current, queues, wire, first_sent, sends, read>>

New(m) == [message |-> m, retry_at |-> RetryInterval, retries_remaining |-> RetryMaxCount]

\* process_message: what is in the channel still comes out when the sender is
\* gone.
ProcessMessage ==
  /\ pc = "select" /\ ~PingDue /\ ~ReadReady /\ RecvReady
  /\ IF lagged THEN Close("lagged") /\ UNCHANGED <<current, inbox>>
     ELSE IF inbox # << >>
     THEN /\ pc' = "message" /\ current' = New(Head(inbox)) /\ inbox' = Tail(inbox)
          /\ UNCHANGED reason
     ELSE Close("forcefully closed") /\ UNCHANGED <<current, inbox>>
  /\ UNCHANGED <<timers, unconfirmed, lagged, forced, published, wire, incoming,
                 history>>

\* Mutant: the retry does not wait for what the client sent to be read.
ProcessUnconfirmed_First ==
  /\ pc = "select" /\ ~PingDue /\ RetryDue
  /\ LET queued == Head(unconfirmed)
     IN IF queued.retries_remaining = 0
        THEN Close("not confirmed in time") /\ current' = queued
        ELSE /\ pc' = "retry" /\ UNCHANGED reason
             /\ current' = [queued EXCEPT !.retry_at = RetryInterval,
                                          !.retries_remaining = @ - 1]
  /\ unconfirmed' = Tail(unconfirmed)
  /\ UNCHANGED <<timers, queues, wire, incoming, history>>

\* Mutant: after the last retry the message is dropped and the websocket goes on.
ProcessUnconfirmed_Dropped ==
  /\ pc = "select" /\ ~PingDue /\ ~ReadReady /\ ~RecvReady /\ RetryDue
  /\ LET queued == Head(unconfirmed)
     IN IF queued.retries_remaining = 0
        THEN UNCHANGED <<pc, current>>
        ELSE /\ pc' = "retry"
             /\ current' = [queued EXCEPT !.retry_at = RetryInterval,
                                          !.retries_remaining = @ - 1]
  /\ unconfirmed' = Tail(unconfirmed)
  /\ UNCHANGED <<reason, timers, queues, wire, incoming, history>>

\* process_unconfirmed_message
ProcessUnconfirmed ==
  /\ pc = "select" /\ ~PingDue /\ ~ReadReady /\ ~RecvReady /\ RetryDue
  /\ LET queued == Head(unconfirmed)
     IN IF queued.retries_remaining = 0
        THEN Close("not confirmed in time") /\ current' = queued
        ELSE /\ pc' = "retry" /\ UNCHANGED reason
             /\ current' = [queued EXCEPT !.retry_at = RetryInterval,
                                          !.retries_remaining = @ - 1]
  /\ unconfirmed' = Tail(unconfirmed)
  /\ UNCHANGED <<timers, queues, wire, incoming, history>>

-----------------------------------------------------------------------------
(* The sends *)

Room == Len(wire) < SocketBuffer

PingSent ==
  /\ pc = "ping" /\ Room
  /\ wire' = Append(wire, Ping(ping_message))
  /\ pings_sent' = pings_sent + 1
  /\ ping_time' = PingInterval
  /\ pc' = "select"
  /\ UNCHANGED <<reason, current, ping_message, unconfirmed, queues, incoming, history>>

\* Mutant: what was resent is to be resent next.
MessageSent_Front ==
  /\ pc \in {"message", "retry"} /\ Room
  /\ wire' = Append(wire, Binary(current.message))
  /\ unconfirmed' =
       IF pc = "message"
       THEN Append(unconfirmed, [current EXCEPT !.retry_at = RetryInterval])
       ELSE << current >> \o unconfirmed
  /\ sends' = [sends EXCEPT ![current.message] = @ + 1]
  /\ first_sent' = IF pc = "message" THEN Append(first_sent, current.message) ELSE first_sent
  /\ pc' = "select" /\ current' = None
  /\ UNCHANGED <<reason, timers, queues, incoming, called, read>>

\* A message is dated when it was sent, a retry before.
MessageSent ==
  /\ pc \in {"message", "retry"} /\ Room
  /\ wire' = Append(wire, Binary(current.message))
  /\ unconfirmed' = Append(unconfirmed,
       IF pc = "message" THEN [current EXCEPT !.retry_at = RetryInterval] ELSE current)
  /\ sends' = [sends EXCEPT ![current.message] = @ + 1]
  /\ first_sent' = IF pc = "message" THEN Append(first_sent, current.message) ELSE first_sent
  /\ pc' = "select" /\ current' = None
  /\ UNCHANGED <<reason, timers, queues, incoming, called, read>>

ClientGone == \E k \in DOMAIN incoming : incoming[k].kind = "gone"

SendFails ==
  /\ pc \in Sending /\ ClientGone
  /\ Close("socket")
  /\ UNCHANGED <<current, timers, unconfirmed, queues, wire, incoming, history>>

\* run: the websocket is closed, or the attempt fails.
Finish ==
  /\ pc = "closing" /\ (Room \/ ClientGone \/ reason = "socket")
  /\ pc' = "closed"
  /\ UNCHANGED <<reason, current, timers, unconfirmed, queues, wire, incoming, history>>

-----------------------------------------------------------------------------
(* The service, the client, time *)

Running == pc \notin {"closing", "closed"}

\* broadcast::Sender::send overwrites the oldest message of a full channel.
Publish(m) ==
  /\ pc # "closed" /\ ~forced /\ m \notin ToSet(published)
  /\ published' = Append(published, m)
  /\ IF Len(inbox) < BufferSize
     THEN inbox' = Append(inbox, m) /\ UNCHANGED lagged
     ELSE inbox' = Append(Tail(inbox), m) /\ lagged' = TRUE
  /\ UNCHANGED <<pc, reason, current, timers, unconfirmed, forced, wire, incoming,
                 history>>

\* close_connections drops the sender.
CloseConnections ==
  /\ pc # "closed" /\ ~forced
  /\ forced' = TRUE
  /\ UNCHANGED <<pc, reason, current, timers, unconfirmed, inbox, lagged, published, wire,
                 incoming, history>>

\* The client has the frame at the front.
TakeFrame ==
  /\ wire # << >> /\ ~ClientGone
  /\ wire' = Tail(wire)
  /\ read' = IF Head(wire).kind = "message" THEN read \cup {Head(wire).message} ELSE read
  /\ UNCHANGED <<first_sent, sends, called>>

\* The client reads a frame; it need not answer.
Read ==
  /\ TakeFrame
  /\ UNCHANGED <<pc, reason, current, timers, unconfirmed, queues, incoming>>

Answer ==
  /\ Running /\ Len(incoming) < SocketBuffer
  /\ TakeFrame
  /\ incoming' = Append(incoming, IF Head(wire).kind = "ping" THEN Pong(Head(wire).number)
                                  ELSE Confirm(Head(wire).message))
  /\ UNCHANGED <<pc, reason, current, timers, unconfirmed, queues>>

Leave ==
  /\ Running /\ ~ClientGone
  /\ incoming' = Append(incoming, Gone)
  /\ UNCHANGED <<pc, reason, current, timers, unconfirmed, queues, wire, history>>

Earlier(t) == IF t = 0 THEN 0 ELSE t - 1

Tick ==
  /\ Running
  /\ ping_time' = Earlier(ping_time)
  /\ unconfirmed' = [k \in DOMAIN unconfirmed |->
                       [unconfirmed[k] EXCEPT !.retry_at = Earlier(@)]]
  /\ current' = IF current = None THEN None ELSE [current EXCEPT !.retry_at = Earlier(@)]
  /\ UNCHANGED <<pc, reason, ping_message, pings_sent, queues, wire, incoming, history>>

Run ==
  \/ ProcessPing \/ ProcessIncoming \/ ProcessMessage \/ ProcessUnconfirmed
  \/ PingSent \/ MessageSent \/ SendFails \/ Finish

Next ==
  \/ Run \/ Tick \/ CloseConnections
  \/ Read \/ Answer \/ Leave
  \/ \E m \in Messages : Publish(m)

Spec == Init /\ [][Next]_vars

\* The task is scheduled and time passes; nothing is assumed of the client.
FairSpec == Spec /\ WF_vars(Run) /\ WF_vars(Tick)
-----------------------------------------------------------------------------
(* Properties *)

Queued == {unconfirmed[k].message : k \in DOMAIN unconfirmed}

\* The front of the queue is what is due first, whatever was resent, confirmed
\* or delayed by the socket: try_run looks at the front only.
QueueInOrder ==
  \A j, k \in DOMAIN unconfirmed : j < k => unconfirmed[j].retry_at <= unconfirmed[k].retry_at

\* A message that was sent is queued once until it is confirmed: late, early
\* and repeated confirmations neither lose another one nor repeat a callback.
UntilConfirmed ==
  Running =>
    /\ \A m \in ToSet(first_sent) :
         IF m \in Queued \cup (IF pc = "retry" THEN {current.message} ELSE {})
         THEN called[m] = 0 ELSE called[m] = 1
    /\ \A j, k \in DOMAIN unconfirmed :
         unconfirmed[j].message = unconfirmed[k].message => j = k

\* The client gets the messages in order and without a gap, though the channel
\* overwrites what the task is too slow to take.
NoGap == IsPrefix(first_sent, published)

\* Each message is sent in its turn and stays queued until its own confirmation.
InTurnUntilConfirmed == UntilConfirmed /\ NoGap

\* A message is given up only after every retry, and not while the confirmation
\* that would save it waits to be read.
GivenUpAfterAll ==
  /\ \A m \in Messages : sends[m] <= RetryMaxCount + 1
  /\ reason = "not confirmed in time" =>
       /\ sends[current.message] = RetryMaxCount + 1
       /\ Confirm(current.message) \notin ToSet(incoming)

\* Seen by the service and the client: what is put in the channel while the websocket
\* is open is read, or waits in the channel, in hand or in the socket, until it ends.
\* It ends for the channel when that has overwritten something.
InSocket == {m \in Messages : \E k \in DOMAIN wire : wire[k] = Binary(m)}

Open == Running /\ ~lagged

Promise == INSTANCE Mailbox WITH
  open     <- Open,
  received <- read,
  inbox    <- ((IF Open THEN ToSet(inbox) ELSE {})
               \cup {m \in Messages : pc = "message" /\ current.message = m}
               \cup InSocket) \ read

MailboxSpec == Promise!Spec

\* The callback is executed for what the client has read only.
ConfirmedWasRead == \A m \in Messages : called[m] > 0 => m \in read

\* A send (or the close frame) that waits for a client which does not read.  No other
\* branch of the select! runs meanwhile.
Blocked == pc \in Sending \cup {"closing"} /\ ~Room /\ ~ClientGone

\* The task waits in the select! for what comes next; until then it is busy.
Idle == pc = "select" /\ ~PingDue /\ ~ReadReady /\ ~RecvReady /\ ~RetryDue

Busy == pc # "closed" /\ ~Idle

\* A ping is followed by a response or by the end of the websocket, unless its client
\* stops reading in the middle of a send.
HeartbeatCloses ==
  <>[]Blocked \/ (pings_sent > 0 ~> pings_sent = 0 \/ pc = "closed")

\* And a message by its confirmation or the end: a client that answers every ping does not
\* put it off.  The retries come last in the biased select!, so this is promised of a task
\* that now and then has nothing left to do: not of one that is blocked or late for good.
RetriesClose ==
  <>[]Busy \/ \A m \in Messages :
                m \in ToSet(first_sent) ~> called[m] > 0 \/ pc = "closed"

\* What holds of README.md, "Not responding to message will eventually lead to closing
\* connection", and of the heartbeat.
UnresponsiveClosed == HeartbeatCloses /\ RetriesClose
=============================================================================
