---------------------- MODULE TicketsAndShutdownProofs ----------------------
(***************************************************************************)
(* Proofs about how a websocket begins and how the servers end: about      *)
(* Tickets, for any users, requests, lifespan and bound, and about         *)
(* Shutdown, for any handlers, websockets and notifications.  The two      *)
(* share nothing.                                                          *)
(***************************************************************************)
EXTENDS Tickets, Shutdown, TLAPS

-----------------------------------------------------------------------------
(* Tickets *)

\* The operation that marks a ticket as used.
Mark(t, now) == tickets' = [tickets EXCEPT ![t].used_at = now]

\* A request whose ticket nobody has used yet cannot share it with one that
\* opened a websocket: SingleUse with what it follows from.
IInv == TypeOK /\ RequestsFit /\ SingleUse

-----------------------------------------------------------------------------
\* Overwriting the record of one request, as every handler step does.
LEMMA Overwrite ==
  ASSUME NEW f \in [Requests -> Request], NEW r \in Requests, NEW x
  PROVE  /\ [f EXCEPT ![r] = x][r] = x
         /\ \A q \in Requests : q # r => [f EXCEPT ![r] = x][q] = f[q]
  OBVIOUS

\* Every step leaves what an issued ticket says about its user and its times,
\* and sets used_at at most once.
Kept ==
  /\ DOMAIN tickets \subseteq DOMAIN tickets'
  /\ \A t \in DOMAIN tickets :
       /\ tickets'[t].user_id = tickets[t].user_id
       /\ tickets'[t].issued_at = tickets[t].issued_at
       /\ tickets'[t].expire_at = tickets[t].expire_at
       /\ tickets[t].used_at # None => tickets'[t].used_at = tickets[t].used_at

\* A mark on a ticket that was not used keeps the types and the rest.
LEMMA MarkKeeps ==
  ASSUME TypeOK, NEW t \in DOMAIN tickets, NEW now \in Nat,
         Usable(tickets[t]), Mark(t, now)
  PROVE  /\ DOMAIN tickets' = DOMAIN tickets
         /\ tickets' \in [DOMAIN tickets -> Ticket]
         /\ tickets'[t].used_at = now
         /\ Kept
  BY DEF TypeOK, Usable, Mark, Kept, Ticket

\* The collection after any step of a request.
LEMMA StepsKeep ==
  ASSUME TicketsAssumption, TypeOK, RequestsFit, NEW r \in Requests,
         Arrive(r) \/ Advance(r)
  PROVE  /\ DOMAIN tickets' \subseteq TicketIds
         /\ tickets' \in [DOMAIN tickets' -> Ticket]
         /\ Kept
         /\ clock' = clock
         /\ \A t \in DOMAIN tickets' : tickets'[t].issued_at <= clock /\ Dated(tickets'[t])
<1>1. CASE UNCHANGED tickets /\ clock' = clock
  BY <1>1 DEF TypeOK, RequestsFit, Kept
<1>2. ASSUME NEW t \in TicketIds, InsertTicket(r, t)
      PROVE  /\ DOMAIN tickets' \subseteq TicketIds
             /\ tickets' \in [DOMAIN tickets' -> Ticket]
             /\ Kept /\ clock' = clock
             /\ \A s \in DOMAIN tickets' : tickets'[s].issued_at <= clock /\ Dated(tickets'[s])
  <2>1. request[r].user_id \in Users /\ request[r].now \in Nat /\ request[r].now <= clock
    BY <1>2 DEF InsertTicket, TypeOK, RequestsFit, RequestFits, Request
  <2>2. request[r].now + Lifespan \in Nat
    BY <2>1 DEF TicketsAssumption
  <2>. QED
    BY <1>2, <2>1, <2>2 DEF InsertTicket, TypeOK, RequestsFit, Kept, Ticket, Dated
<1>3. ASSUME NEW t \in DOMAIN tickets, NEW now \in Nat, Usable(tickets[t]),
             Mark(t, now), clock' = clock,
             tickets[t].issued_at <= now, now <= tickets[t].expire_at
      PROVE  /\ DOMAIN tickets' \subseteq TicketIds
             /\ tickets' \in [DOMAIN tickets' -> Ticket]
             /\ Kept /\ clock' = clock
             /\ \A s \in DOMAIN tickets' : tickets'[s].issued_at <= clock /\ Dated(tickets'[s])
  <2>1. \A s \in DOMAIN tickets : s # t => tickets'[s] = tickets[s]
    BY <1>3 DEF Mark
  <2>2. Dated(tickets'[t])
    BY <1>3, MarkKeeps DEF Kept, Dated
  <2>. QED
    BY <1>3, <2>1, <2>2, MarkKeeps DEF TypeOK, RequestsFit, Kept
<1>4. request[r].pc = "use" =>
        /\ request[r].ticket \in DOMAIN tickets /\ request[r].now \in Nat
        /\ tickets[request[r].ticket].issued_at <= request[r].now
        /\ request[r].now <= tickets[request[r].ticket].expire_at
  BY DEF TypeOK, RequestsFit, RequestFits, Request
<1>5. CASE UpdateUsedAt(r)
  BY <1>1, <1>3, <1>4, <1>5 DEF UpdateUsedAt, Mark
<1>6. CASE Cut(r)
  BY <1>1, <1>3, <1>4, <1>6 DEF Cut, Mark
<1>. QED
  BY <1>1, <1>2, <1>5, <1>6
     DEF Arrive, Advance, GetTicket, WebsocketUpgrade, FindTicket

-----------------------------------------------------------------------------
\* The record a step leaves to its request: of its type, and true of the ticket.
Fits(q) ==
  /\ q \in Request
  /\ q.now <= clock
  /\ q.pc = "insert" => q.user_id \in Users
  /\ q.pc \in {"find", "use", "upgraded"} => q.ticket \in DOMAIN tickets'
  /\ q.pc \in {"use", "upgraded"} =>
       /\ q.user_id = tickets'[q.ticket].user_id
       /\ tickets'[q.ticket].issued_at <= q.now
       /\ q.now <= tickets'[q.ticket].expire_at
  /\ q.pc = "upgraded" => tickets'[q.ticket].used_at = q.now

\* What is true of a request stays so while others move.
LEMMA OthersFit ==
  ASSUME TicketsAssumption, TypeOK, NEW r \in Requests, RequestFits(r), Kept
  PROVE  Fits(request[r])
<1>1. request[r] \in Request
  BY DEF TypeOK
<1>2. request[r].pc = "upgraded" =>
        tickets'[request[r].ticket].used_at = request[r].now
  <2>1. request[r].now # None
    BY <1>1 DEF Request, TicketsAssumption
  <2>. QED
    BY <2>1 DEF RequestFits, Kept
<1>. QED
  BY <1>1, <1>2 DEF RequestFits, Kept, Fits

\* One step of one request preserves the invariant: it is enough to look at the
\* record it writes and, if that opens a websocket, at the ticket before it.
LEMMA OneStep ==
  ASSUME TicketsAssumption, IInv, NEW r \in Requests, Arrive(r) \/ Advance(r),
         NEW x, request' = [request EXCEPT ![r] = x], Fits(x),
         x.pc = "upgraded" => tickets[x.ticket].used_at = None /\ x.ticket \in DOMAIN tickets
  PROVE  IInv'
<1>1. /\ DOMAIN tickets' \subseteq TicketIds
      /\ tickets' \in [DOMAIN tickets' -> Ticket]
      /\ Kept /\ clock' = clock
      /\ \A t \in DOMAIN tickets' : tickets'[t].issued_at <= clock /\ Dated(tickets'[t])
  BY StepsKeep DEF IInv
<1>2. request' \in [Requests -> Request] /\ request'[r] = x
      /\ \A q \in Requests : q # r => request'[q] = request[q]
  BY Overwrite DEF IInv, TypeOK, Fits
<1>3. TypeOK'
  BY <1>1, <1>2 DEF IInv, TypeOK
<1>4. ASSUME NEW q \in Requests PROVE Fits(request'[q])
  BY <1>1, <1>2, OthersFit DEF IInv, RequestsFit
<1>5. RequestsFit'
  BY <1>1, <1>4 DEF RequestsFit, RequestFits, Fits
<1>6. SingleUse'
  <2>1. ASSUME NEW q \in Requests, q # r, x.pc = "upgraded", request[q].pc = "upgraded",
               request[q].ticket = x.ticket
        PROVE  FALSE
    <3>1. tickets[x.ticket].used_at = request[q].now /\ request[q].now \in Nat
      BY <2>1 DEF IInv, RequestsFit, RequestFits, TypeOK, Request
    <3>. QED
      BY <2>1, <3>1 DEF TicketsAssumption
  <2>. QED
    BY <1>2, <2>1 DEF IInv, SingleUse
<1>. QED
  BY <1>3, <1>5, <1>6 DEF IInv

\* The invariant holds initially and every step keeps it.
LEMMA InvHolds == Spec => []IInv
<1>. USE TicketsAssumption
<1>1. Init => IInv
  BY DEF Init, IInv, TypeOK, RequestsFit, RequestFits, SingleUse, NewRequest, Request
<1>2. ASSUME IInv, [Next]_vars PROVE IInv'
  <2>. USE <1>2
  <2>1. ASSUME NEW r \in Requests
        PROVE  /\ request[r] \in Request /\ request[r].now <= clock /\ clock \in Nat
               /\ RequestFits(r)
    BY DEF IInv, TypeOK, RequestsFit, RequestFits
  <2>2. ASSUME NEW r \in Requests, NEW u \in Users, GetTicket(r, u) PROVE IInv'
    <3> DEFINE x == [pc |-> "insert", ticket |-> None, user_id |-> u, now |-> clock]
    <3>1. Fits(x) /\ x.pc # "upgraded"
      BY <2>1, <2>2 DEF Fits, Request
    <3>2. request' = [request EXCEPT ![r] = x]
      BY <2>2 DEF GetTicket
    <3>3. Arrive(r)
      BY <2>2 DEF Arrive
    <3> HIDE DEF x
    <3>. QED
      BY <3>1, <3>2, <3>3, OneStep
  <2>3. ASSUME NEW r \in Requests, NEW t \in TicketIds, InsertTicket(r, t) PROVE IInv'
    <3> DEFINE x == [request[r] EXCEPT !.pc = "issued"]
    <3>1. Fits(x) /\ x.pc # "upgraded"
      BY <2>1 DEF Fits, Request
    <3>2. request' = [request EXCEPT ![r] = x]
      BY <2>3 DEF InsertTicket
    <3>3. Advance(r)
      BY <2>3 DEF Advance
    <3> HIDE DEF x
    <3>. QED
      BY <3>1, <3>2, <3>3, OneStep
  <2>4. ASSUME NEW r \in Requests, NEW t \in TicketIds, WebsocketUpgrade(r, t) PROVE IInv'
    <3> DEFINE x == [pc |-> "find", ticket |-> t, user_id |-> None, now |-> clock]
    <3>1. Fits(x) /\ x.pc # "upgraded"
      BY <2>1, <2>4 DEF Fits, Request, WebsocketUpgrade
    <3>2. request' = [request EXCEPT ![r] = x]
      BY <2>4 DEF WebsocketUpgrade
    <3>3. Arrive(r)
      BY <2>4 DEF Arrive
    <3> HIDE DEF x
    <3>. QED
      BY <3>1, <3>2, <3>3, OneStep
  <2>5. ASSUME NEW r \in Requests, FindTicket(r) PROVE IInv'
    <3> DEFINE ticket == tickets[request[r].ticket]
               refused == ticket.used_at # None \/ Expired(ticket, clock)
               x == [pc |-> IF refused THEN "refused" ELSE "use",
                     ticket |-> request[r].ticket, user_id |-> ticket.user_id,
                     now |-> clock]
    <3>1. /\ request[r].ticket \in DOMAIN tickets /\ ticket \in Ticket
          /\ ticket.issued_at <= clock /\ clock \in Nat
          /\ request[r].ticket \in TicketIds
          /\ UNCHANGED tickets
      BY <2>1, <2>5 DEF FindTicket, RequestFits, IInv, TypeOK, RequestsFit
    <3>2. ~refused => clock <= ticket.expire_at
      BY <3>1 DEF Expired, Ticket
    <3>3. x \in Request /\ x.pc \in {"refused", "use"}
      BY <3>1 DEF Request, Ticket
    <3>4. Fits(x) /\ x.pc # "upgraded"
      BY <3>1, <3>2, <3>3 DEF Fits
    <3>5. request' = [request EXCEPT ![r] = x]
      BY <2>5 DEF FindTicket
    <3>6. Advance(r)
      BY <2>5 DEF Advance
    <3> HIDE DEF x
    <3>. QED
      BY <3>4, <3>5, <3>6, OneStep
  <2>6. ASSUME NEW r \in Requests, UpdateUsedAt(r) PROVE IInv'
    <3> DEFINE t == request[r].ticket
               x == [request[r] EXCEPT !.pc = IF Usable(tickets[t]) THEN "upgraded" ELSE "refused"]
    <3>1. t \in DOMAIN tickets /\ request[r].pc = "use"
      BY <2>1, <2>6 DEF UpdateUsedAt, RequestFits
    <3>2. Usable(tickets[t]) => Mark(t, request[r].now) /\ tickets[t].used_at = None
      BY <2>6 DEF UpdateUsedAt, Mark, Usable
    <3>3. Usable(tickets[t]) => tickets'[t].used_at = request[r].now /\ Kept
      BY <2>1, <3>1, <3>2, MarkKeeps DEF IInv, Request
    <3>4. Fits(x)
      <4>1. CASE Usable(tickets[t])
        BY <2>1, <3>1, <3>3, <4>1 DEF Fits, RequestFits, Request, Kept
      <4>2. CASE ~Usable(tickets[t])
        BY <2>1, <4>2 DEF Fits, RequestFits, Request
      <4>. QED BY <4>1, <4>2
    <3>5. request' = [request EXCEPT ![r] = x]
      BY <2>6 DEF UpdateUsedAt
    <3>6. x.pc = "upgraded" => tickets[x.ticket].used_at = None /\ x.ticket \in DOMAIN tickets
      BY <2>1, <3>1, <3>2 DEF Request
    <3>7. Advance(r)
      BY <2>6 DEF Advance
    <3> HIDE DEF x
    <3>. QED
      BY <3>4, <3>5, <3>6, <3>7, OneStep
  <2>7. ASSUME NEW r \in Requests, Cut(r) PROVE IInv'
    <3> DEFINE x == [request[r] EXCEPT !.pc = "failed"]
    <3>1. Fits(x) /\ x.pc # "upgraded"
      BY <2>1 DEF Fits, Request
    <3>2. request' = [request EXCEPT ![r] = x]
      BY <2>7 DEF Cut
    <3>3. Advance(r)
      BY <2>7 DEF Advance
    <3> HIDE DEF x
    <3>. QED
      BY <3>1, <3>2, <3>3, OneStep
  <2>8. CASE Tick
    BY <2>8 DEF Tick, IInv, TypeOK, RequestsFit, RequestFits, SingleUse, Request, Ticket, Dated
  <2>9. CASE UNCHANGED vars
    BY <2>9 DEF vars, IInv, TypeOK, RequestsFit, RequestFits, SingleUse
  <2>. QED
    BY <2>2, <2>3, <2>4, <2>5, <2>6, <2>7, <2>8, <2>9 DEF Next, Arrive, Advance
<1>. QED
  BY <1>1, <1>2, PTL DEF Spec

-----------------------------------------------------------------------------
\* Tickets and requests keep their types.
THEOREM TicketTypes == Spec => []TypeOK
<1>1. IInv => TypeOK
  BY DEF IInv
<1>. QED
  BY <1>1, InvHolds, PTL

\* update_used_at lets one upgrade through, whatever find returned to how many.
THEOREM OpensOnce == Spec => []SingleUse
<1>1. IInv => SingleUse
  BY DEF IInv
<1>. QED
  BY <1>1, InvHolds, PTL

\* A ticket is marked as used, for its own user, between issue and expiry.
THEOREM OpensInTime == Spec => []UsedInTime
<1>1. IInv => UsedInTime
  BY DEF IInv, RequestsFit, RequestFits, UsedInTime
<1>. QED
  BY <1>1, InvHolds, PTL
-----------------------------------------------------------------------------
(* Shutdown *)

\* What main of core has behind it when others no longer are or hold something.
CoreOrder ==
  /\ core_main \in {"serving", "stopping"} => core_open = CoreParts
  /\ core_main \notin {"serving", "stopping"} =>
       \A r \in Handlers : handler[r] \notin {"write", "announce"}
  /\ core_main \in {"connection", "database", "return", "returned"} =>
       "consumer" \notin core_open
  /\ \A n \in Notifications : task[n] = "ack" => n \in inserted

\* The same of ws-delivery.  What could still give a websocket a message is gone
\* when the producer is, and so are the messages.
WsOrder ==
  /\ ws_main \in {"serving", "stopping"} => ws_open = WsParts
  /\ ws_main \notin {"serving", "stopping"} => \A c \in Clients : client[c] # "request"
  /\ ws_main \notin {"serving", "stopping", "consumer"} => "consumer" \notin ws_open
  /\ "producer" \notin ws_open =>
       /\ "consumer" \notin ws_open
       /\ \A n \in Notifications : delivery[n] \notin {"deduplicate", "send"}
       /\ \A c \in Clients : held[c] = {}

CoreInUse ==
  /\ \A r \in Handlers :
       /\ handler[r] = "write" => {"database", "producer"} \subseteq core_open
       /\ handler[r] = "announce" => "producer" \in core_open
  /\ core_open \cap {"producer", "consumer"} # {} => "connection" \in core_open

WsInUse ==
  /\ \A c \in Clients :
       /\ client[c] = "request" => "database" \in ws_open
       /\ held[c] # {} => "producer" \in ws_open
  /\ \A n \in Notifications : delivery[n] = "send" => "producer" \in ws_open
  /\ ws_open \cap {"producer", "consumer"} # {} => "connection" \in ws_open

StopInv == /\ ShutdownTypeOK /\ ConfirmationsKept
           /\ CoreOrder /\ CoreInUse /\ WsOrder /\ WsInUse

CoreStep ==
  \/ CoreSignal \/ CoreCloses
  \/ \E r \in Handlers : Accept(r) \/ Handle(r) \/ DropRouter(r)
  \/ \E n \in Notifications : Deliver(n) \/ Insert(n) \/ Respond(n)

WsStep ==
  \/ WsSignal \/ WsCloses \/ DropCallback
  \/ \E n \in Notifications :
       Consume(n) \/ Deduplicate(n) \/ Send(n) \/ Publish(n)
  \/ \E c \in Clients :
       Connect(c) \/ Leave(c) \/ \E n \in Notifications : Confirm(c, n)

\* Each server leaves the other alone, but for the queue of confirmations.
LEMMA TwoServers ==
  /\ ShutdownNext <=> CoreStep \/ WsStep
  /\ CoreStep => UNCHANGED ws /\ published' = published
  /\ WsStep => UNCHANGED <<core, unacked>>
<1>1. ShutdownNext <=> CoreStep \/ WsStep
  BY DEF ShutdownNext, CoreStep, WsStep
<1>2. CoreStep => UNCHANGED ws /\ published' = published
  BY DEF CoreStep, CoreSignal, CoreCloses, CoreServeEnds, CloseProducer,
         CoreCloseConsumer, CoreCloseConnection, CoreCloseDatabase,
         CoreReturn, Accept, Handle, DropRouter, Deliver,
         Insert, Respond, ws, broker
<1>3. WsStep => UNCHANGED <<core, unacked>>
  BY DEF WsStep, WsSignal, WsCloses, WsServeEnds, WsCloseConsumer,
         CloseDeduplication, CloseConfirmations, WsCloseConnection,
         WsCloseDatabase, WsReturn, DropCallback, Consume,
         Deduplicate, Send, Publish, Connect, Leave, Confirm,
         core, broker
<1> QED  BY <1>1, <1>2, <1>3

\* ShutdownTypeOK, by server.
CoreTyped ==
  /\ core_main \in CoreSteps /\ core_open \subseteq CoreParts
  /\ handler \in [Handlers -> {"none", "write", "announce", "answered", "gone"}]
  /\ task \in [Notifications -> {"none", "insert", "ack", "requeue"}]
  /\ inserted \subseteq Notifications
  /\ queue \subseteq published /\ unacked \subseteq published \ queue

WsTyped ==
  /\ ws_main \in WsSteps /\ ws_open \subseteq WsParts /\ callback \in BOOLEAN
  /\ client \in [Clients -> {"none", "request", "upgrading", "open", "gone"}]
  /\ held \in [Clients -> SUBSET Notifications]
  /\ delivery \in [Notifications -> {"queued", "deduplicate", "send", "done"}]
  /\ was_called \subseteq Notifications /\ waiting \subseteq was_called
  /\ published \subseteq was_called \ waiting

LEMMA Types == ShutdownTypeOK <=> CoreTyped /\ WsTyped
BY DEF ShutdownTypeOK, CoreTyped, WsTyped

LEMMA CoreTypes ==
  ASSUME CoreTyped, CoreStep
  PROVE  CoreTyped'
<1>1. UNCHANGED ws /\ published' = published
  BY TwoServers
<1>2. CASE \E r \in Handlers : Accept(r) \/ Handle(r) \/ DropRouter(r)
  BY <1>1, <1>2 DEF CoreTyped, Accept, Handle, DropRouter, broker
<1>3. CASE \E n \in Notifications : Deliver(n) \/ Insert(n) \/ Respond(n)
  BY <1>1, <1>3 DEF CoreTyped, Deliver, Insert, Respond, broker
<1>4. CASE CoreSignal \/ CoreCloses
  BY <1>1, <1>4 DEF CoreTyped, CoreSignal, CoreCloses, CoreServeEnds,
     CloseProducer, CoreCloseConsumer, CoreCloseConnection,
     CoreCloseDatabase, CoreReturn, CoreGoes, CoreSteps, broker
<1> QED  BY <1>2, <1>3, <1>4 DEF CoreStep

LEMMA WsTypes ==
  ASSUME CoreTyped, WsTyped, WsStep
  PROVE  WsTyped' /\ CoreTyped'
<1>1. UNCHANGED <<core, unacked>>
  BY TwoServers
<1>2. CASE \E n \in Notifications :
            Consume(n) \/ Deduplicate(n) \/ Send(n) \/ Publish(n)
  BY <1>1, <1>2 DEF WsTyped, CoreTyped, Consume, Deduplicate, Send,
     Publish, broker, core
<1>3. CASE \E c \in Clients :
            Connect(c) \/ Leave(c) \/ \E n \in Notifications : Confirm(c, n)
  BY <1>1, <1>3 DEF WsTyped, CoreTyped, Connect, Leave, Confirm,
     broker, core
<1>4. CASE WsSignal \/ WsCloses \/ DropCallback
  BY <1>1, <1>4 DEF WsTyped, CoreTyped, WsSignal, WsCloses, DropCallback,
     WsServeEnds, WsCloseConsumer, CloseDeduplication,
     CloseConfirmations, WsCloseConnection, WsCloseDatabase, WsReturn,
     WsGoes, WsSteps, broker, core
<1> QED  BY <1>2, <1>3, <1>4 DEF WsStep

-----------------------------------------------------------------------------
(* What closes before what *)

LEMMA CoreOrderStays ==
  ASSUME CoreTyped, CoreOrder, CoreStep
  PROVE  CoreOrder'
<1>1. CASE \E r \in Handlers : Accept(r) \/ Handle(r) \/ DropRouter(r)
  BY <1>1 DEF CoreTyped, CoreOrder, Accept, Handle, DropRouter
<1>2. CASE \E n \in Notifications : Deliver(n) \/ Insert(n) \/ Respond(n)
  BY <1>2 DEF CoreTyped, CoreOrder, Deliver, Insert, Respond
<1>3. CASE CoreSignal \/ CoreCloses
  BY <1>3 DEF CoreTyped, CoreOrder, CoreSignal, CoreCloses, CoreServeEnds,
     CloseProducer, CoreCloseConsumer, CoreCloseConnection,
     CoreCloseDatabase, CoreReturn, CoreGoes
<1> QED  BY <1>1, <1>2, <1>3 DEF CoreStep

\* A handler that writes or announces keeps main from closing anything; the
\* connection outlives a producer that the router of an answered request holds.
LEMMA CoreInUseStays ==
  ASSUME CoreTyped, CoreOrder, CoreInUse, CoreStep
  PROVE  CoreInUse'
<1>1. CASE \E r \in Handlers : Accept(r) \/ Handle(r) \/ DropRouter(r)
  BY <1>1 DEF CoreTyped, CoreOrder, CoreInUse, Accept, Handle, DropRouter,
     CoreParts
<1>2. CASE \E n \in Notifications : Deliver(n) \/ Insert(n) \/ Respond(n)
  BY <1>2 DEF CoreInUse, Deliver, Insert, Respond
<1>3. CASE CoreSignal \/ CoreCloses
  BY <1>3 DEF CoreTyped, CoreOrder, CoreInUse, CoreSignal, CoreCloses,
     CoreServeEnds, CloseProducer, CoreCloseConsumer,
     CoreCloseConnection, CoreCloseDatabase, CoreReturn, CoreGoes
<1> QED  BY <1>1, <1>2, <1>3 DEF CoreStep

LEMMA WsOrderStays ==
  ASSUME WsTyped, WsOrder, WsStep
  PROVE  WsOrder'
<1>1. CASE \E n \in Notifications :
            Consume(n) \/ Deduplicate(n) \/ Send(n) \/ Publish(n)
  BY <1>1 DEF WsTyped, WsOrder, Consume, Deduplicate, Send, Publish
<1>2. CASE \E c \in Clients :
            Connect(c) \/ Leave(c) \/ \E n \in Notifications : Confirm(c, n)
  BY <1>2 DEF WsTyped, WsOrder, Connect, Leave, Confirm
<1>3. CASE WsSignal \/ WsCloses \/ DropCallback
  BY <1>3 DEF WsTyped, WsOrder, WsSignal, WsCloses, DropCallback,
     WsServeEnds, WsCloseConsumer, CloseDeduplication,
     CloseConfirmations, WsCloseConnection, WsCloseDatabase, WsReturn,
     WsGoes, HoldsConfirmations, HoldsWebsocketsService,
     HoldsDeduplication
<1> QED  BY <1>1, <1>2, <1>3 DEF WsStep

\* A message in a websocket keeps the producer of confirmations, and the producer
\* the connection; the database outlives the requests that axum waits for.
LEMMA WsInUseStays ==
  ASSUME WsTyped, WsOrder, WsInUse, WsStep
  PROVE  WsInUse'
<1>1. WsOrder'
  BY WsOrderStays
<1>2. \A c \in Clients : held'[c] # {} => "producer" \in ws_open'
  BY <1>1 DEF WsOrder
<1>3. \A n \in Notifications : delivery'[n] = "send" => "producer" \in ws_open'
  BY <1>1 DEF WsOrder
<1>4. \A c \in Clients : client'[c] = "request" => "database" \in ws_open'
  BY <1>1 DEF WsOrder, WsParts
<1>5. ws_open' \cap {"producer", "consumer"} # {} => "connection" \in ws_open'
  <2>1. ws_open' = ws_open \/ WsCloses
    BY DEF WsStep, WsSignal, DropCallback, Consume, Deduplicate,
       Send, Publish, Connect, Leave, Confirm
  <2>2. CASE WsCloses
    BY <2>2 DEF WsOrder, WsInUse, WsCloses, WsServeEnds, WsCloseConsumer,
       CloseDeduplication, CloseConfirmations, WsCloseConnection,
       WsCloseDatabase, WsReturn, WsGoes
  <2> QED  BY <2>1, <2>2 DEF WsInUse
<1> QED  BY <1>2, <1>3, <1>4, <1>5 DEF WsInUse

-----------------------------------------------------------------------------
(* Where a confirmation is *)

\* A delivery is answered by its task or queued again when the channel closes;
\* only what was inserted is acknowledged.
LEMMA KeptByCore ==
  ASSUME CoreTyped, WsTyped, CoreOrder, ConfirmationsKept, CoreStep
  PROVE  ConfirmationsKept'
<1>1. published' = published
  BY TwoServers
<1>2. CASE \E r \in Handlers : Accept(r) \/ Handle(r) \/ DropRouter(r)
  BY <1>1, <1>2 DEF ConfirmationsKept, Accept, Handle, DropRouter,
     broker
<1>3. ASSUME NEW n \in Notifications, Deliver(n) \/ Insert(n) \/ Respond(n)
      PROVE  ConfirmationsKept'
  <2>1. /\ published \subseteq queue \cup unacked \cup inserted
        /\ task \in [Notifications -> {"none", "insert", "ack", "requeue"}]
        /\ \A m \in unacked : m \in Notifications /\ "consumer" \in core_open /\ task[m] # "none"
    BY DEF CoreTyped, WsTyped, ConfirmationsKept
  <2>2. CASE Deliver(n)
    <3>1. \A m \in Notifications : m # n => task'[m] = task[m]
      BY <2>1, <2>2 DEF Deliver
    <3>2. task'[n] = "insert"
      BY <2>1, <2>2 DEF Deliver
    <3> QED  BY <1>1, <2>1, <2>2, <3>1, <3>2 DEF Deliver, ConfirmationsKept
  <2>3. CASE Insert(n)
    <3>1. /\ inserted \subseteq inserted' /\ UNCHANGED <<queue, unacked, core_open>>
          /\ task'[n] # "none" /\ \A m \in Notifications : m # n => task'[m] = task[m]
      BY <2>1, <2>3 DEF Insert, broker
    <3> QED  BY <1>1, <2>1, <3>1 DEF ConfirmationsKept
  <2>4. CASE Respond(n)
    <3>1. \A m \in Notifications : m # n => task'[m] = task[m]
      BY <2>1, <2>4 DEF Respond
    <3>2. n \in unacked => n \in queue' \cup inserted
      BY <2>4 DEF Respond, CoreOrder
    <3>3. /\ unacked' = unacked \ {n} /\ queue \subseteq queue'
          /\ UNCHANGED <<inserted, core_open>>
      BY <2>4 DEF Respond
    <3> QED  BY <1>1, <2>1, <3>1, <3>2, <3>3 DEF ConfirmationsKept
  <2> QED  BY <1>3, <2>2, <2>3, <2>4
<1>4. CASE CoreSignal \/ CoreCloses
  BY <1>1, <1>4 DEF CoreTyped, WsTyped, CoreOrder, ConfirmationsKept, CoreSignal,
     CoreCloses, CoreServeEnds, CloseProducer, CoreCloseConsumer,
     CoreCloseConnection, CoreCloseDatabase, CoreReturn, CoreGoes,
     broker
<1> QED  BY <1>2, <1>3, <1>4 DEF CoreStep

LEMMA KeptByWs ==
  ASSUME ConfirmationsKept, WsStep
  PROVE  ConfirmationsKept'
<1>1. UNCHANGED <<core, unacked>>
  BY TwoServers
<1>2. \/ queue' = queue /\ published' = published
      \/ \E n \in Notifications : queue' = queue \cup {n} /\ published' = published \cup {n}
  BY DEF WsStep, WsSignal, WsCloses, WsServeEnds, WsCloseConsumer,
     CloseDeduplication, CloseConfirmations, WsCloseConnection,
     WsCloseDatabase, WsReturn, DropCallback, Consume,
     Deduplicate, Send, Publish, Connect, Leave, Confirm,
     broker
<1> QED  BY <1>1, <1>2 DEF ConfirmationsKept, core

-----------------------------------------------------------------------------
(* Every step of both servers *)

LEMMA StopStarts == ShutdownInit => StopInv
BY DEF ShutdownInit, StopInv, ShutdownTypeOK, ConfirmationsKept, CoreOrder, CoreInUse,
   WsOrder, WsInUse, CoreParts, WsParts, CoreSteps, WsSteps

LEMMA StopStays == StopInv /\ [ShutdownNext]_shutdown_vars => StopInv'
<1> SUFFICES ASSUME StopInv, [ShutdownNext]_shutdown_vars PROVE StopInv'
  OBVIOUS
<1>1. CoreTyped /\ WsTyped
  BY Types DEF StopInv
<1>2. ASSUME CoreStep PROVE StopInv'
  <2>1. CoreTyped' /\ CoreOrder' /\ CoreInUse' /\ ConfirmationsKept'
    BY <1>1, <1>2, CoreTypes, CoreOrderStays, CoreInUseStays, KeptByCore DEF StopInv
  <2>2. WsTyped' /\ WsOrder' /\ WsInUse'
    BY <1>1, <1>2, TwoServers DEF StopInv, WsTyped, WsOrder, WsInUse, ws
  <2>3. ShutdownTypeOK'
    BY <2>1, <2>2 DEF ShutdownTypeOK, CoreTyped, WsTyped
  <2> QED  BY <2>1, <2>2, <2>3 DEF StopInv
<1>3. ASSUME WsStep PROVE StopInv'
  <2>1. WsTyped' /\ CoreTyped' /\ WsOrder' /\ WsInUse' /\ ConfirmationsKept'
    BY <1>1, <1>3, WsTypes, WsOrderStays, WsInUseStays, KeptByWs DEF StopInv
  <2>2. CoreOrder' /\ CoreInUse'
    BY <1>3, TwoServers DEF StopInv, CoreOrder, CoreInUse, core
  <2>3. ShutdownTypeOK'
    BY <2>1 DEF ShutdownTypeOK, CoreTyped, WsTyped
  <2> QED  BY <2>1, <2>2, <2>3 DEF StopInv
<1>4. ASSUME UNCHANGED shutdown_vars PROVE StopInv'
  BY <1>4 DEF StopInv, shutdown_vars, broker, core, ws, ShutdownTypeOK,
     ConfirmationsKept, CoreOrder, CoreInUse, WsOrder, WsInUse
<1> QED  BY <1>2, <1>3, <1>4, TwoServers

LEMMA SpecStop == ShutdownSpec => []StopInv
BY StopStarts, StopStays, PTL DEF ShutdownSpec

\* Both servers keep their types however their closing steps, requests,
\* deliveries and websockets interleave.
THEOREM StopTypes == ShutdownSpec => []ShutdownTypeOK
<1>1. StopInv => ShutdownTypeOK
  BY DEF StopInv
<1> QED  BY <1>1, SpecStop, PTL

\* Whatever closes in either server, nothing that is still running uses it:
\* handlers and upgrades by what axum waits for, messages with a callback by the
\* clone they hold, the connection by the producer that was left open.
THEOREM NothingTakenAway == ShutdownSpec => []NothingClosedInUse
<1>1. StopInv => NothingClosedInUse
  BY DEF StopInv, CoreInUse, WsInUse, NothingClosedInUse
<1> QED  BY <1>1, SpecStop, PTL

\* Core may close while it processes a confirmation: it is inserted, or with the
\* broker for the next instance.
THEOREM NoConfirmationLost == ShutdownSpec => []ConfirmationsKept
<1>1. StopInv => ConfirmationsKept
  BY DEF StopInv
<1> QED  BY <1>1, SpecStop, PTL
=============================================================================
