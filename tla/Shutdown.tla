------------------------------ MODULE Shutdown ------------------------------
(***************************************************************************)
(* How the two servers stop, each on its own signal: what main closes, in  *)
(* which order, and what other tasks still hold at that moment.            *)
(*                                                                         *)
(* A service or connection is closed by the last clone of its Arc only     *)
(* (Arc::try_unwrap), so the model says who holds one: the router and the  *)
(* connections of axum, the tasks a consumer spawns for its deliveries,    *)
(* the upgrades, and every NEW message that waits in a websocket for its   *)
(* response, through its confirmation callback.  axum waits for the        *)
(* requests; nobody waits for deliveries and websockets.                   *)
(***************************************************************************)
CONSTANTS
  Handlers,       \* HTTP requests to tom-notifier-core
  Clients,        \* websockets of tom-notifier-ws-delivery
  Notifications   \* NEW messages in its queue, each to be confirmed

VARIABLES
  core_main,  \* what main of tom-notifier-core does next
  core_open,  \* what it has not closed
  handler,    \* the HTTP requests to it
  task,       \* confirmations being processed by it
  inserted,   \* confirmations in its database
  queue,      \* confirmations in the durable queue
  unacked,    \* those the broker has delivered
  ws_main, ws_open,  \* the same of tom-notifier-ws-delivery
  callback,   \* amqprs still has the consumer with its DeliveryCallback
  client,     \* upgrades and websockets
  held,       \* NEW messages in the channel or the queue of a websocket
  delivery,   \* notifications on their way to the websockets
  was_called, \* those whose confirmation callback was executed
  waiting,    \* confirmations in the producer of ws-delivery
  published   \* history: confirmations that reached the broker

broker == <<queue, unacked, published>>
core == <<core_main, core_open, handler, task, inserted>>
ws == <<ws_main, ws_open, callback, client, held, delivery, was_called, waiting>>
shutdown_vars == <<broker, core, ws>>

CoreSteps == {"serving", "stopping", "producer", "consumer", "connection", "database",
              "return", "returned"}
WsSteps == {"serving", "stopping", "consumer", "deduplication", "confirmations", "connection",
            "database", "return", "returned"}
CoreParts == {"producer", "consumer", "connection", "database"}
WsParts == {"consumer", "deduplication", "producer", "connection", "database"}

ShutdownTypeOK ==
  /\ core_main \in CoreSteps /\ core_open \subseteq CoreParts
  /\ handler \in [Handlers -> {"none", "write", "announce", "answered", "gone"}]
  /\ task \in [Notifications -> {"none", "insert", "ack", "requeue"}]
  /\ inserted \subseteq Notifications
  /\ queue \subseteq published /\ unacked \subseteq published \ queue
  /\ ws_main \in WsSteps /\ ws_open \subseteq WsParts
  /\ callback \in BOOLEAN
  /\ client \in [Clients -> {"none", "request", "upgrading", "open", "gone"}]
  /\ held \in [Clients -> SUBSET Notifications]
  /\ delivery \in [Notifications -> {"queued", "deduplicate", "send", "done"}]
  /\ was_called \subseteq Notifications /\ waiting \subseteq was_called
  /\ published \subseteq was_called \ waiting

ShutdownInit ==
  /\ core_main = "serving" /\ core_open = CoreParts
  /\ handler = [r \in Handlers |-> "none"]
  /\ task = [n \in Notifications |-> "none"]
  /\ inserted = {} /\ queue = {} /\ unacked = {}
  /\ ws_main = "serving" /\ ws_open = WsParts /\ callback = TRUE
  /\ client = [c \in Clients |-> "none"]
  /\ held = [c \in Clients |-> {}]
  /\ delivery = [n \in Notifications |-> "queued"]
  /\ was_called = {} /\ waiting = {} /\ published = {}

-----------------------------------------------------------------------------
(* tom-notifier-core: requests *)

Accept(r) ==
  /\ core_main = "serving" /\ handler[r] = "none"
  /\ handler' = [handler EXCEPT ![r] = "write"]
  /\ UNCHANGED <<core_main, core_open, task, inserted, broker, ws>>

\* A handler writes, announces and answers, or is dropped on the way.
Handle(r) ==
  /\ \/ handler[r] = "write" /\ handler' = [handler EXCEPT ![r] = "announce"]
     \/ handler[r] \in {"write", "announce"} /\ handler' = [handler EXCEPT ![r] = "answered"]
  /\ UNCHANGED <<core_main, core_open, task, inserted, broker, ws>>

\* axum counts a connection as closed before its task drops the router.
DropRouter(r) ==
  /\ handler[r] = "answered"
  /\ handler' = [handler EXCEPT ![r] = "gone"]
  /\ UNCHANGED <<core_main, core_open, task, inserted, broker, ws>>

-----------------------------------------------------------------------------
(* tom-notifier-core: confirmations *)

Deliver(n) ==
  /\ "consumer" \in core_open
  /\ n \in queue /\ task[n] = "none"
  /\ queue' = queue \ {n} /\ unacked' = unacked \cup {n}
  /\ task' = [task EXCEPT ![n] = "insert"]
  /\ UNCHANGED <<published, core_main, core_open, handler, inserted, ws>>

\* A database that was shut down answers with an error.
Insert(n) ==
  /\ task[n] = "insert"
  /\ \/ /\ "database" \in core_open
        /\ inserted' = inserted \cup {n} /\ task' = [task EXCEPT ![n] = "ack"]
     \/ task' = [task EXCEPT ![n] = "requeue"] /\ UNCHANGED inserted
  /\ UNCHANGED <<core_main, core_open, handler, broker, ws>>

\* Mutant: every error is taken for NoDocumentUpdated and acknowledged.
Respond_Acked(n) ==
  /\ task[n] \in {"ack", "requeue"}
  /\ task' = [task EXCEPT ![n] = "none"]
  /\ unacked' = unacked \ {n} /\ UNCHANGED queue
  /\ UNCHANGED <<published, core_main, core_open, handler, inserted, ws>>

\* The answer is dropped when the channel of the delivery is closed.
Respond(n) ==
  /\ task[n] \in {"ack", "requeue"}
  /\ task' = [task EXCEPT ![n] = "none"]
  /\ unacked' = unacked \ {n}
  /\ queue' = IF task[n] = "requeue" THEN queue \cup (unacked \cap {n}) ELSE queue
  /\ UNCHANGED <<published, core_main, core_open, handler, inserted, ws>>

-----------------------------------------------------------------------------
(* tom-notifier-core: main *)

CoreGoes(from, to) == core_main = from /\ core_main' = to

CoreSignal ==
  /\ CoreGoes("serving", "stopping")
  /\ UNCHANGED <<core_open, handler, task, inserted, broker, ws>>

\* Mutant: axum::serve without with_graceful_shutdown.
CoreServeEnds_AtOnce ==
  /\ CoreGoes("stopping", "producer")
  /\ UNCHANGED <<core_open, handler, task, inserted, broker, ws>>

CoreServeEnds ==
  /\ CoreGoes("stopping", "producer")
  /\ \A r \in Handlers : handler[r] \notin {"write", "announce"}
  /\ UNCHANGED <<core_open, handler, task, inserted, broker, ws>>

CoreHoldsProducer == \E r \in Handlers : handler[r] \in {"write", "announce", "answered"}

\* The router holds notifications_service, and that the producer.
CloseProducer ==
  /\ CoreGoes("producer", "consumer")
  /\ core_open' = IF CoreHoldsProducer THEN core_open ELSE core_open \ {"producer"}
  /\ UNCHANGED <<handler, task, inserted, broker, ws>>

\* The channel is closed: the broker queues again what was not acknowledged.
CoreCloseConsumer ==
  /\ CoreGoes("consumer", "connection")
  /\ core_open' = core_open \ {"consumer"}
  /\ queue' = queue \cup unacked /\ unacked' = {}
  /\ UNCHANGED <<published, handler, task, inserted, ws>>

\* A producer that was not closed keeps its clone of the connection.
CoreCloseConnection ==
  /\ CoreGoes("connection", "database")
  /\ core_open' = IF "producer" \in core_open THEN core_open ELSE core_open \ {"connection"}
  /\ UNCHANGED <<handler, task, inserted, broker, ws>>

CoreCloseDatabase ==
  /\ CoreGoes("database", "return")
  /\ core_open' = core_open \ {"database"}
  /\ UNCHANGED <<handler, task, inserted, broker, ws>>

\* main returns: the runtime drops every task, whatever it was doing.
CoreReturn ==
  /\ CoreGoes("return", "returned")
  /\ core_open' = {}
  /\ handler' = [r \in Handlers |-> "gone"]
  /\ task' = [n \in Notifications |-> "none"]
  /\ UNCHANGED <<inserted, broker, ws>>

-----------------------------------------------------------------------------
(* tom-notifier-ws-delivery: clients and deliveries *)

\* handshake: the request, the upgrade that outlives it, and the websocket.  A connection
\* lets go of the router with its request; when it does so later, less is closed than here.
Connect(c) ==
  /\ \/ client[c] = "none" /\ ws_main = "serving" /\ client' = [client EXCEPT ![c] = "request"]
     \/ client[c] = "request" /\ client' = [client EXCEPT ![c] = "upgrading"]
     \/ client[c] = "request" /\ client' = [client EXCEPT ![c] = "gone"]
     \/ client[c] = "upgrading" /\ client' = [client EXCEPT ![c] = "open"]
  /\ UNCHANGED <<ws_main, ws_open, callback, held, delivery, was_called, waiting, broker, core>>

Leave(c) ==
  /\ client[c] = "open"
  /\ client' = [client EXCEPT ![c] = "gone"]
  /\ held' = [held EXCEPT ![c] = {}]
  /\ UNCHANGED <<ws_main, ws_open, callback, delivery, was_called, waiting, broker, core>>

\* From an open channel only: what the library has buffered when the channel is closed may
\* still be consumed, and holds through its callback what is needed for it.
Consume(n) ==
  /\ "consumer" \in ws_open /\ delivery[n] = "queued"
  /\ delivery' = [delivery EXCEPT ![n] = "deduplicate"]
  /\ UNCHANGED <<ws_main, ws_open, callback, client, held, was_called, waiting, broker, core>>

Deduplicate(n) ==
  /\ delivery[n] = "deduplicate"
  /\ \E next \in {"send", "done"} : delivery' = [delivery EXCEPT ![n] = next]
  /\ UNCHANGED <<ws_main, ws_open, callback, client, held, was_called, waiting, broker, core>>

\* Every message gets a callback, which holds the confirmations service.
Send(n) ==
  /\ delivery[n] = "send"
  /\ delivery' = [delivery EXCEPT ![n] = "done"]
  /\ held' = [c \in Clients |-> IF client[c] = "open" THEN held[c] \cup {n} ELSE held[c]]
  /\ UNCHANGED <<ws_main, ws_open, callback, client, was_called, waiting, broker, core>>

\* Mutant: was_called is tested and not set.
Confirm_Unmarked(c, n) ==
  /\ n \in held[c]
  /\ held' = [held EXCEPT ![c] = @ \ {n}]
  /\ waiting' = IF n \in was_called THEN waiting ELSE waiting \cup {n}
  /\ UNCHANGED <<was_called, ws_main, ws_open, callback, client, delivery, broker, core>>

\* The response of a client; the first one gives the confirmation to send.
Confirm(c, n) ==
  /\ n \in held[c]
  /\ held' = [held EXCEPT ![c] = @ \ {n}]
  /\ was_called' = was_called \cup {n}
  /\ waiting' = IF n \in was_called THEN waiting ELSE waiting \cup {n}
  /\ UNCHANGED <<ws_main, ws_open, callback, client, delivery, broker, core>>

Publish(n) ==
  /\ n \in waiting /\ "producer" \in ws_open
  /\ waiting' = waiting \ {n}
  /\ queue' = queue \cup {n} /\ published' = published \cup {n}
  /\ UNCHANGED <<unacked, ws_main, ws_open, callback, client, held, delivery, was_called, core>>

\* amqprs drops the consumer some time after its channel was closed.
DropCallback ==
  /\ callback /\ "consumer" \notin ws_open
  /\ callback' = FALSE
  /\ UNCHANGED <<ws_main, ws_open, client, held, delivery, was_called, waiting, broker, core>>

-----------------------------------------------------------------------------
(* tom-notifier-ws-delivery: main *)

WsGoes(from, to) == ws_main = from /\ ws_main' = to

WsSignal ==
  /\ WsGoes("serving", "stopping")
  /\ UNCHANGED <<ws_open, callback, client, held, delivery, was_called, waiting, broker, core>>

WsServeEnds ==
  /\ WsGoes("stopping", "consumer")
  /\ \A c \in Clients : client[c] # "request"
  /\ UNCHANGED <<ws_open, callback, client, held, delivery, was_called, waiting, broker, core>>

\* Tasks of deliveries are not waited for; the queue is gone with its consumer.
WsCloseConsumer ==
  /\ WsGoes("consumer", "deduplication")
  /\ ws_open' = ws_open \ {"consumer"}
  /\ UNCHANGED <<callback, client, held, delivery, was_called, waiting, broker, core>>

HoldsDeduplication ==
  \/ "consumer" \in ws_open \/ callback
  \/ \E n \in Notifications : delivery[n] \in {"deduplicate", "send"}

HoldsWebsocketsService ==
  \/ HoldsDeduplication
  \/ ws_main \in {"serving", "stopping"}
  \/ \E c \in Clients : client[c] \in {"request", "upgrading"}

HoldsConfirmations == HoldsWebsocketsService \/ \E c \in Clients : held[c] # {}

\* Its collector is stopped and awaited.
CloseDeduplication ==
  /\ WsGoes("deduplication", "confirmations")
  /\ ws_open' = IF HoldsDeduplication THEN ws_open ELSE ws_open \ {"deduplication"}
  /\ UNCHANGED <<callback, client, held, delivery, was_called, waiting, broker, core>>

\* Mutant: main waits until it has the last clone.
CloseConfirmations_Waits ==
  /\ WsGoes("confirmations", "connection")
  /\ ~HoldsConfirmations
  /\ ws_open' = ws_open \ {"producer"} /\ waiting' = {}
  /\ UNCHANGED <<callback, client, held, delivery, was_called, broker, core>>

\* The confirmations that its producer still has are dropped.
CloseConfirmations ==
  /\ WsGoes("confirmations", "connection")
  /\ IF HoldsConfirmations THEN UNCHANGED <<ws_open, waiting>>
     ELSE ws_open' = ws_open \ {"producer"} /\ waiting' = {}
  /\ UNCHANGED <<callback, client, held, delivery, was_called, broker, core>>

WsCloseConnection ==
  /\ WsGoes("connection", "database")
  /\ ws_open' = IF "producer" \in ws_open THEN ws_open ELSE ws_open \ {"connection"}
  /\ UNCHANGED <<callback, client, held, delivery, was_called, waiting, broker, core>>

WsCloseDatabase ==
  /\ WsGoes("database", "return")
  /\ ws_open' = ws_open \ {"database"}
  /\ UNCHANGED <<callback, client, held, delivery, was_called, waiting, broker, core>>

WsReturn ==
  /\ WsGoes("return", "returned")
  /\ ws_open' = {} /\ callback' = FALSE
  /\ client' = [c \in Clients |-> "gone"]
  /\ held' = [c \in Clients |-> {}]
  /\ delivery' = [n \in Notifications |-> "done"]
  /\ waiting' = {}
  /\ UNCHANGED <<was_called, broker, core>>

-----------------------------------------------------------------------------
CoreCloses ==
  \/ CoreServeEnds \/ CloseProducer \/ CoreCloseConsumer \/ CoreCloseConnection
  \/ CoreCloseDatabase \/ CoreReturn

WsCloses ==
  \/ WsServeEnds \/ WsCloseConsumer \/ CloseDeduplication \/ CloseConfirmations
  \/ WsCloseConnection \/ WsCloseDatabase \/ WsReturn

ShutdownNext ==
  \/ CoreSignal \/ CoreCloses \/ WsSignal \/ WsCloses \/ DropCallback
  \/ \E r \in Handlers : Accept(r) \/ Handle(r) \/ DropRouter(r)
  \/ \E n \in Notifications :
       \/ Deliver(n) \/ Insert(n) \/ Respond(n)
       \/ Consume(n) \/ Deduplicate(n) \/ Send(n) \/ Publish(n)
  \/ \E c \in Clients : Connect(c) \/ Leave(c) \/ \E n \in Notifications : Confirm(c, n)

ShutdownSpec == ShutdownInit /\ [][ShutdownNext]_shutdown_vars

\* Each main is scheduled, and requests that arrived are answered; nothing is
\* assumed of clients, deliveries and brokers.
FairShutdownSpec ==
  /\ ShutdownSpec /\ WF_shutdown_vars(CoreCloses) /\ WF_shutdown_vars(WsCloses)
  /\ \A r \in Handlers : WF_shutdown_vars(Handle(r))
  /\ \A c \in Clients : WF_shutdown_vars(client[c] = "request" /\ Connect(c))

-----------------------------------------------------------------------------
(* Properties *)

\* No step of a closing server takes away what a task that may still run needs:
\* producer.send unwraps, a closed connection has no channels, and a handler
\* would answer 500 for a database that is gone.
NothingClosedInUse ==
  /\ \A r \in Handlers :
       /\ handler[r] = "write" => {"database", "producer"} \subseteq core_open
       /\ handler[r] = "announce" => "producer" \in core_open
  /\ \A c \in Clients :
       /\ client[c] = "request" => "database" \in ws_open
       /\ held[c] # {} => "producer" \in ws_open
  /\ \A n \in Notifications : delivery[n] = "send" => "producer" \in ws_open
  /\ core_open \cap {"producer", "consumer"} # {} => "connection" \in core_open
  /\ ws_open \cap {"producer", "consumer"} # {} => "connection" \in ws_open

\* A confirmation that reached the broker is in the queue, with a task that the
\* broker waits for, or inserted, though core closes while it is processed.
ConfirmationsKept ==
  /\ published \subseteq queue \cup unacked \cup inserted
  /\ \A n \in unacked : "consumer" \in core_open /\ task[n] # "none"

\* A server that was told to stop does, though clients neither read, answer nor
\* leave and other tasks hold what it wants to close.
ShutdownCompletes ==
  /\ core_main = "stopping" ~> core_main = "returned"
  /\ ws_main = "stopping" ~> ws_main = "returned"
=============================================================================
