---------------------------- MODULE TomNotifier ----------------------------
(***************************************************************************)
(* The two servers and RabbitMQ together, from the POST of a notification  *)
(* to the confirmation that marks it as delivered.                         *)
(*                                                                         *)
(* The core is NotificationsService, step by step.  The other parts are    *)
(* what their own modules show of them: a RabbitmqProducer is AtLeastOnce  *)
(* (what waits is stored later, in any order, or lost when its server      *)
(* stops); one instance of ws-delivery is the critical section of          *)
(* Deduplication, the broadcast of WebSocketsService and the status        *)
(* callback of RabbitmqConsumer; a message in the channel of a websocket   *)
(* waits there until the client has read it or the websocket ends          *)
(* (WebSocketConnection).  A run is shorter than notification_lifespan:    *)
(* the collector removes nothing.                                          *)
(***************************************************************************)
EXTENDS Integers, Sequences

CONSTANTS
  Ids, Users, Producers, Pnids, None,           \* as in NotificationsRepository
  Requests, Audiences, Expiries, MaxTime,       \* as in NotificationsService
  Serves,      \* the operations a request may be, which bounds their number
  Callers,     \* the users it may be made by
  MayBeCut,    \* the requests that may be cut, which bounds their number
  Devices,     \* the websockets of the clients, each opened once
  UserOf,      \* the user who opened it
  MaxOutages   \* bound on the connections ws-delivery loses

VARIABLES
  notifications, published, clock, request,  \* of the core
  waiting,        \* messages in the producers of the core
  stored,         \* history: messages that reached the broker
  bound,          \* the queue of ws-delivery exists and is consumed
  queue,          \* its messages, those being decoded included
  last_updates,   \* the map of the deduplication
  sending,        \* accepted, not yet given to the websockets
  status,         \* the last call of the consumer's status callback
  device,         \* the websockets and their clients
  was_called,     \* NEW messages whose confirmation callback was executed
  confirmations,  \* sent by ws-delivery: in its producer or in the durable queue
  outages         \* what the bound counts

core == <<notifications, published, clock, request>>
delivery == <<bound, queue, last_updates, sending, status, outages>>
clients == <<device, was_called, confirmations>>
producers == <<waiting, stored>>
vars == <<core, producers, delivery, clients>>

Core == INSTANCE NotificationsService

ASSUME SystemAssumption ==
  /\ Audiences \subseteq SUBSET Users
  /\ Expiries \subseteq Core!Option(Nat)
  /\ None \notin Ids
  /\ Users # {}
  /\ UserOf \in [Devices -> Users]
  /\ Callers \in [Requests -> SUBSET Users]
  /\ MaxOutages \in Nat

\* told is the last network status sent to the device; before are the fetches
\* made when it was told: a client that is told to rely on the websocket
\* fetches once more, and relies on it when it has the answer.
Device == [pc : {"away", "connected", "gone"}, told : {"Ok", "Error"},
           before : SUBSET Requests,
           inbox : SUBSET Core!Message, received : SUBSET Core!Message]

TypeOK ==
  /\ Core!TypeOK
  /\ waiting \subseteq published /\ stored \subseteq published
  /\ bound \in BOOLEAN /\ queue \subseteq stored
  /\ DOMAIN last_updates \subseteq Ids /\ last_updates \in [DOMAIN last_updates -> Nat]
  /\ sending \subseteq stored
  /\ status \in {"Consuming", "Recovering", "Restored"}
  /\ device \in [Devices -> Device]
  /\ was_called \subseteq stored
  /\ confirmations \subseteq Users \X Ids
  /\ outages \in 0 .. MaxOutages

Init ==
  /\ Core!Init
  /\ waiting = {} /\ stored = {}
  /\ bound = TRUE /\ queue = {} /\ last_updates = [i \in {} |-> 0] /\ sending = {}
  /\ status = "Consuming"
  /\ device = [d \in Devices |-> [pc |-> "away", told |-> "Ok", before |-> {},
                                  inbox |-> {}, received |-> {}]]
  /\ was_called = {} /\ confirmations = {} /\ outages = 0

-----------------------------------------------------------------------------
(* The core *)

\* Left to NotificationsService: PUT seen, whose UPDATED goes the way of DELETED,
\* and PUT invalidate_at, which publishes nothing.
Serve(r) ==
  \/ /\ "save" \in Serves[r]
     /\ \E p \in Producers, n \in Pnids, to \in Audiences, e \in Expiries :
          Core!PostUndelivered(r, p, n, to, e)
  \/ /\ "fetch" \in Serves[r] /\ \E u \in Callers[r] : Core!GetUndelivered(r, u)
  \/ /\ "delete" \in Serves[r]
     /\ \E u \in Callers[r], i \in Ids : Core!DeleteDelivered(r, u, i)

CoreStep ==
  /\ Core!Tick \/ \E r \in Requests : Serve(r) \/ Core!Advance(r)
  /\ \A r \in Requests \ MayBeCut : request'[r].pc # "failed"
  /\ waiting' = waiting \cup (published' \ published)
  /\ UNCHANGED <<stored, delivery, clients>>

\* A confirmation reaches a core.  It stays with the broker until its
\* acknowledgement arrives, so it may come again.
ConsumeConfirmation(r, u, i) ==
  /\ "confirm" \in Serves[r] /\ <<u, i>> \in confirmations
  /\ Core!Arrive(r, [Core!NewRequest EXCEPT !.op = "confirm", !.pc = "write", !.caller = u,
                                            !.id = i, !.now = clock])
  /\ UNCHANGED <<producers, delivery, clients>>

-----------------------------------------------------------------------------
(* RabbitMQ *)

\* The exchange passes a message to the queue if there is one.
Publish(m) ==
  /\ m \in waiting
  /\ waiting' = waiting \ {m}
  /\ stored' = stored \cup {m}
  /\ queue' = IF bound THEN queue \cup {m} ELSE queue
  /\ UNCHANGED <<core, bound, last_updates, sending, status, outages, clients>>

\* The server stops, or its producer is closed, with the message still in it.
Lose(m) ==
  /\ m \in waiting
  /\ waiting' = waiting \ {m}
  /\ UNCHANGED <<core, stored, delivery, clients>>

\* ws-delivery loses its connection: the queue is exclusive and auto_delete.
LoseConnection ==
  /\ bound /\ outages < MaxOutages
  /\ bound' = FALSE /\ queue' = {} /\ outages' = outages + 1
  /\ UNCHANGED <<core, producers, last_updates, sending, status, clients>>

-----------------------------------------------------------------------------
(* ws-delivery *)

\* execute decodes a delivery and deduplicates it; a duplicate is acknowledged.
Execute(m) ==
  /\ m \in queue
  /\ queue' = queue \ {m}
  /\ IF m.id \in DOMAIN last_updates /\ m.timestamp <= last_updates[m.id]
     THEN UNCHANGED <<last_updates, sending>>
     ELSE /\ last_updates' = [i \in DOMAIN last_updates \cup {m.id} |->
                                IF i = m.id THEN m.timestamp ELSE last_updates[i]]
          /\ sending' = sending \cup {m}
  /\ UNCHANGED <<core, producers, bound, status, outages, clients>>

Recipient(m, u) == u \in m.user_ids \/ m.user_ids = {}

\* send: to every websocket of the recipients that is connected.
Send(m) ==
  /\ m \in sending
  /\ sending' = sending \ {m}
  /\ device' = [d \in Devices |->
                  IF device[d].pc = "connected" /\ Recipient(m, UserOf[d])
                  THEN [device[d] EXCEPT !.inbox = @ \cup {m}] ELSE device[d]]
  /\ UNCHANGED <<core, producers, bound, queue, last_updates, status, outages, was_called,
                 confirmations>>

Fetches == {r \in Requests : request[r].op = "fetch"}

Told(network) ==
  [d \in Devices |-> IF device[d].pc = "connected"
                     THEN [device[d] EXCEPT !.told = network, !.before = Fetches]
                     ELSE device[d]]

\* The state machine of the consumer sees that its connection changed.
Recovering ==
  /\ status = "Consuming" /\ ~bound
  /\ status' = "Recovering" /\ device' = Told("Error")
  /\ UNCHANGED <<core, producers, bound, queue, last_updates, sending, outages, was_called,
                 confirmations>>

\* Mutant: a short outage is not told.
Restore_Silently ==
  /\ status \in {"Consuming", "Recovering"} /\ ~bound
  /\ bound' = TRUE /\ status' = IF status = "Consuming" THEN "Consuming" ELSE "Restored"
  /\ UNCHANGED <<core, producers, queue, last_updates, sending, outages, clients>>

\* try_restore_consumer: the queue is declared, bound and consumed again ...
Restore ==
  /\ status = "Recovering" /\ ~bound
  /\ bound' = TRUE /\ status' = "Restored"
  /\ UNCHANGED <<core, producers, queue, last_updates, sending, outages, clients>>

\* ... and then the clients are told.
Consuming ==
  /\ status = "Restored"
  /\ status' = "Consuming" /\ device' = Told("Ok")
  /\ UNCHANGED <<core, producers, bound, queue, last_updates, sending, outages, was_called,
                 confirmations>>

-----------------------------------------------------------------------------
(* Websockets and their clients *)

\* handle_client: a device is told of an error that lasts.
HandleClient(d) ==
  /\ device[d].pc = "away"
  /\ device' = [device EXCEPT ![d] =
                  [@ EXCEPT !.pc = "connected", !.before = Fetches,
                            !.told = IF status = "Consuming" THEN "Ok" ELSE "Error"]]
  /\ UNCHANGED <<core, producers, delivery, was_called, confirmations>>

\* The websocket ends, with what it still held.
Disconnect(d) ==
  /\ device[d].pc = "connected"
  /\ device' = [device EXCEPT ![d].pc = "gone", ![d].inbox = {}]
  /\ UNCHANGED <<core, producers, delivery, was_called, confirmations>>

Receive(d, m) ==
  /\ device[d].pc = "connected" /\ m \in device[d].inbox
  /\ device' = [device EXCEPT ![d].inbox = @ \ {m}, ![d].received = @ \cup {m}]
  /\ UNCHANGED <<core, producers, delivery, was_called, confirmations>>

\* Mutant: the confirmation carries the message.
Respond_Raw(d, m) ==
  /\ device[d].pc = "connected" /\ m \in device[d].received
  /\ m.status = "NEW" /\ m \notin was_called
  /\ was_called' = was_called \cup {m}
  /\ confirmations' = confirmations \cup {<<UserOf[d], m>>}
  /\ UNCHANGED <<core, producers, delivery, device>>

\* Mutant: the confirmation names every recipient.
Respond_Everyone(d, m) ==
  /\ device[d].pc = "connected" /\ m \in device[d].received
  /\ m.status = "NEW" /\ m \notin was_called
  /\ was_called' = was_called \cup {m}
  /\ confirmations' = confirmations \cup {<<u, m.id>> : u \in {v \in Users : Recipient(m, v)}}
  /\ UNCHANGED <<core, producers, delivery, device>>

\* The response to a NEW executes the callback of the message, once.
Respond(d, m) ==
  /\ device[d].pc = "connected" /\ m \in device[d].received
  /\ m.status = "NEW" /\ m \notin was_called
  /\ was_called' = was_called \cup {m}
  /\ confirmations' = confirmations \cup {<<UserOf[d], m.id>>}
  /\ UNCHANGED <<core, producers, delivery, device>>

-----------------------------------------------------------------------------
Next ==
  \/ CoreStep
  \/ \E r \in Requests, u \in Users, i \in Ids : ConsumeConfirmation(r, u, i)
  \/ \E m \in waiting : Publish(m) \/ Lose(m)
  \/ LoseConnection \/ Recovering \/ Restore \/ Consuming
  \/ \E m \in queue : Execute(m)
  \/ \E m \in sending : Send(m)
  \/ \E d \in Devices :
       \/ HandleClient(d) \/ Disconnect(d)
       \/ \E m \in device[d].inbox : Receive(d, m)
       \/ \E m \in device[d].received : Respond(d, m)

Spec == Init /\ [][Next]_vars
-----------------------------------------------------------------------------
(* Properties *)

\* The answer of a fetch holds the notification: it arrived, is coming, or was
\* cut off after the notification had been marked.
Fetched(u, i) ==
  \E r \in Fetches : request[r].caller = u /\ i \in request[r].found

\* A websocket of the user got it.
Sent(u, m) ==
  \E d \in Devices : UserOf[d] = u /\ m \in device[d].inbox \cup device[d].received

\* README.md: "user should first establish websocket connection [...], then
\* fetch all `undelivered` notifications [...] and from this point user can
\* rely on websocket connection"; the same after a recovered connection.
Relies(d) ==
  /\ device[d].pc = "connected" /\ device[d].told = "Ok"
  /\ \E r \in Fetches \ device[d].before :
       request[r].caller = UserOf[d] /\ request[r].pc = "ok"

\* An update addressed to other users was processed before the NEW, which is
\* then refused as a duplicate.
Overtaken(m, u) ==
  \E n \in stored : /\ n.id = m.id /\ n.status # "NEW" /\ u \notin n.user_ids
                    /\ m.timestamp <= n.timestamp
                    /\ n.id \in DOMAIN last_updates /\ n.timestamp <= last_updates[n.id]

\* A user who relies on his websocket misses no notification for him that has
\* reached the broker, whatever fetches, outages, lost confirms and other users
\* come in between: it is on its way to him, he got it, or it was overtaken.
NothingMissed ==
  \A d \in Devices, m \in stored :
    /\ bound /\ status = "Consuming" /\ Relies(d)
    /\ m.status = "NEW" /\ Recipient(m, UserOf[d])
    /\ Core!Valid(notifications[m.id], clock)
    => \/ m \in queue \cup sending
       \/ Sent(UserOf[d], m) \/ Fetched(UserOf[d], m.id)
       \/ Overtaken(m, UserOf[d])

\* What the core calls delivered to a user was in the answer of one of his
\* fetches, or was read by one of his devices, and by nobody else.
ConfirmedWasReceived ==
  \A i \in DOMAIN notifications, u \in Users :
    Core!Confirmed(notifications[i], u) =>
      \/ Fetched(u, i)
      \/ \E d \in Devices : /\ UserOf[d] = u
                            /\ \E m \in device[d].received : m.status = "NEW" /\ m.id = i

\* The facts that make these inductive: ws-delivery holds only what the core
\* published, for the users it is for, and confirms only what was read.
Delivered ==
  /\ \A d \in Devices : \A m \in device[d].inbox \cup device[d].received :
       m \in stored /\ Recipient(m, UserOf[d])
  /\ \A c \in confirmations :
       \E d \in Devices : /\ UserOf[d] = c[1]
                         /\ \E m \in device[d].received : m.status = "NEW" /\ m.id = c[2]
  /\ \A r \in Requests :
       request[r].op = "confirm" => <<request[r].caller, request[r].id>> \in confirmations

\* The core in this system is the one NotificationsService specifies: in
\* particular the confirmations it consumes are those it expects.
CoreSpec == Core!Spec

\* The producers of the core, of which a message has its own, are as RabbitmqProducer
\* shows them: what was published waits, is stored once, or is given up.
Producer(m) == INSTANCE AtLeastOnce WITH
  Messages <- {m},
  waiting  <- waiting \cap {m},
  stored   <- stored \cap {m},
  closed   <- m \in published \ (waiting \cup stored)

\* The websockets are as WebSocketsService shows them, when what a device has read
\* counts with what it has not.
Connected == {d \in Devices : device[d].pc = "connected"}

Websockets == INSTANCE Broadcast WITH
  Notifications <- Core!Message,
  user <- [d \in Connected |-> UserOf[d]],
  got  <- [d \in Connected |-> device[d].inbox \cup device[d].received]

WebsocketsSpec == Websockets!Spec

\* The consumer of ws-delivery is as RabbitmqConsumer shows it: its queue is not bound
\* again before the clients were told of the loss.
Consumer == INSTANCE Subscription

ConsumerSpec == Consumer!Spec

\* And each websocket is as WebSocketConnection shows it: what was sent to it waits until
\* its client has read it, or until it ends.
Connection(d) == INSTANCE Mailbox WITH
  Messages <- Core!Message,
  inbox    <- device[d].inbox,
  received <- device[d].received,
  open     <- device[d].pc # "gone"
=============================================================================
