------------------------- MODULE TomNotifierProofs -------------------------
(***************************************************************************)
(* The composed system, for any users, devices and requests: its core is   *)
(* the one NotificationsService specifies, so what is proved of the        *)
(* service holds in the system; what the core calls delivered was fetched  *)
(* by the user or read by one of his devices; and a user who fetches once  *)
(* his websocket is connected misses nothing from then on.  What the other *)
(* parts are to the system is what their own modules show of them: its     *)
(* producers are AtLeastOnce, its consumer a Subscription, its websockets  *)
(* one Broadcast, and each of them a Mailbox.                              *)
(***************************************************************************)
EXTENDS TomNotifier, TLAPS

Safety == INSTANCE NotificationsServiceProofs

-----------------------------------------------------------------------------
(* Core and Safety are two instances of one specification *)

LEMMA SameInit == Core!Init <=> Safety!Init
BY DEF Core!Init, Safety!Init, Core!NewRequest, Safety!NewRequest

LEMMA SameNext == Core!Next <=> Safety!Next
BY DEF
  Core!Next, Core!Tick, Core!ArriveAny, Core!Advance, Core!Arrive, Core!At, Core!Goto,
  Core!Write, Core!NotPassed, Core!NewRequest, Core!PostUndelivered, Core!Insert,
  Core!InsertRejected, Core!SendNew, Core!GetUndelivered, Core!FindUndelivered,
  Core!InsertManyConfirmations, Core!RespondUndelivered, Core!PutSeen,
  Core!UpdateConfirmationSeen, Core!SendUpdated, Core!DeleteDelivered, Core!Delete,
  Core!SendDeleted, Core!PutInvalidateAt, Core!UpdateInvalidateAt,
  Core!ConsumeConfirmation, Core!InsertConfirmation, Core!Cut, Core!Addressed,
  Core!Valid, Core!Confirmed, Core!AcceptsConfirmation, Core!FindManyUndelivered,
  Core!Live, Core!FindManyDelivered, Core!UniqueViolation, Core!Inserted,
  Core!PushConfirmation, Core!SetSeen, Core!SetDeleted, Core!DeleteModifies,
  Core!SetInvalidateAt,
  Safety!Next, Safety!Tick, Safety!ArriveAny, Safety!Advance, Safety!Arrive, Safety!At,
  Safety!Goto, Safety!Write, Safety!NotPassed, Safety!NewRequest, Safety!PostUndelivered,
  Safety!Insert, Safety!InsertRejected, Safety!SendNew, Safety!GetUndelivered,
  Safety!FindUndelivered, Safety!InsertManyConfirmations, Safety!RespondUndelivered,
  Safety!PutSeen, Safety!UpdateConfirmationSeen, Safety!SendUpdated,
  Safety!DeleteDelivered, Safety!Delete, Safety!SendDeleted, Safety!PutInvalidateAt,
  Safety!UpdateInvalidateAt, Safety!ConsumeConfirmation, Safety!InsertConfirmation,
  Safety!Cut, Safety!Addressed, Safety!Valid, Safety!Confirmed,
  Safety!AcceptsConfirmation, Safety!FindManyUndelivered, Safety!Live,
  Safety!FindManyDelivered, Safety!UniqueViolation, Safety!Inserted,
  Safety!PushConfirmation, Safety!SetSeen, Safety!SetDeleted, Safety!DeleteModifies,
  Safety!SetInvalidateAt

LEMMA SameTypes == Core!TypeOK <=> Safety!TypeOK
BY DEF Core!TypeOK, Core!Document, Core!Option, Core!Confirmation, Core!Message, Core!New,
       Core!Updated, Core!Deleted, Core!Request, Core!Ops, Core!Phases,
       Safety!TypeOK, Safety!Document, Safety!Option, Safety!Confirmation, Safety!Message,
       Safety!New, Safety!Updated, Safety!Deleted, Safety!Request, Safety!Ops, Safety!Phases

LEMMA SameFits == Core!RequestsFit <=> Safety!RequestsFit
BY DEF Core!RequestsFit, Core!RequestFits, Core!At,
       Safety!RequestsFit, Safety!RequestFits, Safety!At

LEMMA SameStep == [Core!Next]_(Core!vars) <=> [Safety!Next]_(Safety!vars)
BY SameNext DEF Core!vars, Safety!vars

LEMMA SameSpec == Core!Spec <=> Safety!Spec
BY SameInit, SameStep, PTL DEF Core!Spec, Safety!Spec

-----------------------------------------------------------------------------
(* What a step of the core changes *)

\* What was published stays published, only a consumed confirmation makes a
\* request one, and no request changes invalidate_at.
Keeps(q, r) == q.op \in {"confirm", "invalidate"} =>
                 q.op = r.op /\ q.caller = r.caller /\ q.id = r.id

LEMMA MovesKeep ==
  ASSUME NEW f, NEW g, NEW S, NEW r \in S, NEW q, f \in [S -> Core!Request],
         g = [f EXCEPT ![r] = q], Keeps(q, f[r])
  PROVE  \A s \in S : Keeps(g[s], f[s])
BY DEF Keeps

LEMMA ServeKeeps ==
  ASSUME Core!TypeOK, NEW r \in Requests, Serve(r)
  PROVE  /\ published \subseteq published'
         /\ \A s \in Requests : Keeps(request'[s], request[s])
<1>1. request \in [Requests -> Core!Request]
  BY DEF Core!TypeOK
<1>2. ASSUME NEW q, q.op \notin {"confirm", "invalidate"}, request' = [request EXCEPT ![r] = q]
      PROVE  \A s \in Requests : Keeps(request'[s], request[s])
  BY <1>1, <1>2, MovesKeep DEF Keeps
<1>3. ASSUME NEW q, q.op \notin {"confirm", "invalidate"}, Core!Arrive(r, q)
      PROVE  /\ published \subseteq published'
             /\ \A s \in Requests : Keeps(request'[s], request[s])
  BY <1>2, <1>3 DEF Core!Arrive
<1>4. ASSUME NEW p \in Producers, NEW n \in Pnids, NEW to \in Audiences, NEW e \in Expiries,
             Core!PostUndelivered(r, p, n, to, e)
      PROVE  /\ published \subseteq published'
             /\ \A s \in Requests : Keeps(request'[s], request[s])
  BY <1>3, <1>4 DEF Core!PostUndelivered, Core!NewRequest
<1>5. ASSUME NEW u \in Users, Core!GetUndelivered(r, u)
      PROVE  /\ published \subseteq published'
             /\ \A s \in Requests : Keeps(request'[s], request[s])
  BY <1>3, <1>5 DEF Core!GetUndelivered, Core!NewRequest
<1>6. ASSUME NEW u \in Users, NEW i \in Ids, Core!DeleteDelivered(r, u, i)
      PROVE  /\ published \subseteq published'
             /\ \A s \in Requests : Keeps(request'[s], request[s])
  BY <1>3, <1>6 DEF Core!DeleteDelivered, Core!NewRequest
<1> QED  BY <1>4, <1>5, <1>6, SystemAssumption DEF Serve

LEMMA AdvanceKeeps ==
  ASSUME Core!TypeOK, NEW r \in Requests, Core!Advance(r)
  PROVE  /\ published \subseteq published'
         /\ \A s \in Requests : Keeps(request'[s], request[s])
<1>1. request \in [Requests -> Core!Request]
  BY DEF Core!TypeOK
<1>2. request[r] \in Core!Request
  BY <1>1
<1>3. CASE Core!Insert(r)
  BY <1>1, <1>2, <1>3 DEF Core!Insert, Core!At, Core!Request, Keeps
<1>4. CASE Core!FindUndelivered(r)
  BY <1>1, <1>2, <1>4 DEF Core!FindUndelivered, Core!At, Core!Request, Keeps
<1>5. ASSUME NEW i \in Ids, Core!InsertManyConfirmations(r, i)
      PROVE  /\ published \subseteq published'
             /\ \A s \in Requests : Keeps(request'[s], request[s])
  BY <1>1, <1>2, <1>5 DEF Core!InsertManyConfirmations, Core!At, Core!Request, Keeps
<1>6. ASSUME NEW pc, Core!Goto(r, pc)
      PROVE  \A s \in Requests : Keeps(request'[s], request[s])
  BY <1>1, <1>2, <1>6 DEF Core!Goto, Core!Request, Keeps
<1>7. \/ Core!InsertRejected(r) \/ Core!SendNew(r) \/ Core!RespondUndelivered(r)
      \/ Core!UpdateConfirmationSeen(r) \/ Core!SendUpdated(r)
      \/ Core!Delete(r) \/ Core!SendDeleted(r)
      \/ Core!UpdateInvalidateAt(r) \/ Core!InsertConfirmation(r) \/ Core!Cut(r)
      => /\ published \subseteq published'
         /\ \E pc : Core!Goto(r, pc)
  BY DEF Core!InsertRejected, Core!SendNew, Core!RespondUndelivered,
         Core!UpdateConfirmationSeen, Core!SendUpdated, Core!Delete, Core!SendDeleted,
         Core!UpdateInvalidateAt, Core!InsertConfirmation, Core!Cut
<1> QED  BY <1>3, <1>4, <1>5, <1>6, <1>7 DEF Core!Advance

LEMMA CoreGrows ==
  ASSUME Core!TypeOK, CoreStep
  PROVE  /\ published \subseteq published'
         /\ \A s \in Requests : Keeps(request'[s], request[s])
<1>1. CASE Core!Tick
  BY <1>1 DEF Core!Tick, Keeps
<1>2. CASE \E r \in Requests : Serve(r) \/ Core!Advance(r)
  BY <1>2, ServeKeeps, AdvanceKeeps
<1> QED  BY <1>1, <1>2 DEF CoreStep

-----------------------------------------------------------------------------
(* The refinement *)

\* Every step of the system is a step of the service or leaves it alone: the
\* confirmations ws-delivery sends are those the service expects.
LEMMA StepCore ==
  ASSUME TypeOK, Delivered, [Next]_vars
  PROVE  [Core!Next]_(Core!vars)
<1>1. CASE CoreStep
  <2>1. ASSUME NEW r \in Requests, Serve(r)
        PROVE  Core!ArriveAny(r)
    BY <2>1, SystemAssumption DEF Serve, Core!ArriveAny
  <2> QED  BY <1>1, <2>1 DEF CoreStep, Core!Next
<1>2. ASSUME NEW r \in Requests, NEW u \in Users, NEW i \in Ids, ConsumeConfirmation(r, u, i)
      PROVE  Core!ArriveAny(r)
  <2>1. PICK d \in Devices : /\ UserOf[d] = u
                             /\ \E m \in device[d].received : m.status = "NEW" /\ m.id = i
    BY <1>2 DEF ConsumeConfirmation, Delivered
  <2>2. PICK m \in device[d].received : m.status = "NEW" /\ m.id = i
    BY <2>1
  <2>3. m \in published /\ (u \in m.user_ids \/ m.user_ids = {})
    BY <2>1, <2>2 DEF Delivered, TypeOK, Recipient
  <2>4. Core!ConsumeConfirmation(r, u, i)
    BY <1>2, <2>2, <2>3 DEF ConsumeConfirmation, Core!ConsumeConfirmation
  <2> QED  BY <2>4 DEF Core!ArriveAny
<1>3. CASE UNCHANGED core
  BY <1>3 DEF core, Core!vars
<1>4. UNCHANGED core \/ CoreStep
      \/ \E r \in Requests, u \in Users, i \in Ids : ConsumeConfirmation(r, u, i)
  BY DEF Next, vars, core, Publish, Lose, LoseConnection, Recovering, Restore, Consuming,
         Execute, Send, HandleClient, Disconnect, Receive, Respond
<1> QED  BY <1>1, <1>2, <1>3, <1>4 DEF Core!Next

\* The service's own step lemma, for the instance that is part of the system.
LEMMA StepCoreTypes ==
  Core!TypeOK /\ Core!RequestsFit /\ [Core!Next]_(Core!vars)
    => Core!TypeOK' /\ Core!RequestsFit'
<1>1. Safety!TypeOK /\ Safety!RequestsFit /\ [Safety!Next]_(Safety!vars)
        => (Safety!TypeOK /\ Safety!RequestsFit)'
  BY SystemAssumption, Safety!StepTypes DEF Core!Option, Safety!Option
<1> QED  BY <1>1, SameTypes, SameFits, SameStep, PTL

LEMMA InitCoreTypes == Core!Init => Core!TypeOK /\ Core!RequestsFit
<1>1. Safety!Init => Safety!TypeOK /\ Safety!RequestsFit
  BY SystemAssumption, Safety!InitTypes DEF Core!Option, Safety!Option
<1> QED  BY <1>1, SameInit, SameTypes, SameFits

-----------------------------------------------------------------------------
(* The invariant: the parts that are not the core's *)

LEMMA MessageFields ==
  ASSUME NEW m \in Core!Message
  PROVE  m.id \in Ids /\ m.timestamp \in Nat
BY DEF Core!Message, Core!New, Core!Updated, Core!Deleted

LEMMA ToldTypes ==
  ASSUME TypeOK, NEW network \in {"Ok", "Error"}
  PROVE  /\ Told(network) \in [Devices -> Device]
         /\ \A d \in Devices : /\ Told(network)[d].inbox = device[d].inbox
                               /\ Told(network)[d].received = device[d].received
BY DEF Told, TypeOK, Device, Fetches

LEMMA StepSystemTypes ==
  ASSUME TypeOK, Core!TypeOK', Delivered, Next
  PROVE  TypeOK'
<1>1. CASE CoreStep
  BY <1>1, CoreGrows DEF CoreStep, TypeOK, delivery, clients
<1>2. CASE \E r \in Requests, u \in Users, i \in Ids : ConsumeConfirmation(r, u, i)
  BY <1>2 DEF ConsumeConfirmation, Core!Arrive, TypeOK, producers, delivery, clients
<1>3. ASSUME NEW m \in waiting, Publish(m) \/ Lose(m)
      PROVE  TypeOK'
  BY <1>3 DEF Publish, Lose, TypeOK, core, delivery, clients
<1>4. CASE LoseConnection
  <2>1. outages' \in 0 .. MaxOutages
    BY <1>4, SystemAssumption DEF LoseConnection, TypeOK
  <2> QED  BY <1>4, <2>1 DEF LoseConnection, TypeOK, core, producers, clients
<1>5. CASE Recovering \/ Restore \/ Consuming
  BY <1>5, ToldTypes DEF Recovering, Restore, Consuming, TypeOK, core, producers, clients
<1>6. ASSUME NEW m \in queue, Execute(m)
      PROVE  TypeOK'
  <2>1. m \in stored /\ m \in Core!Message
    BY DEF TypeOK, Core!TypeOK
  <2>2. DOMAIN last_updates' \subseteq Ids /\ last_updates' \in [DOMAIN last_updates' -> Nat]
    BY <1>6, <2>1, MessageFields DEF Execute, TypeOK
  <2>3. queue' \subseteq stored /\ sending' \subseteq stored
    BY <1>6, <2>1 DEF Execute, TypeOK
  <2> QED  BY <1>6, <2>2, <2>3 DEF Execute, TypeOK, core, producers, clients
<1>7. ASSUME NEW m \in sending, Send(m)
      PROVE  TypeOK'
  <2>1. m \in Core!Message
    BY DEF TypeOK, Core!TypeOK
  <2>2. device' \in [Devices -> Device]
    BY <1>7, <2>1 DEF Send, TypeOK, Device
  <2> QED  BY <1>7, <2>2 DEF Send, TypeOK, core, producers
<1>8. ASSUME NEW d \in Devices, HandleClient(d) \/ Disconnect(d)
      PROVE  TypeOK'
  <2>1. device \in [Devices -> Device] /\ device[d] \in Device
    BY DEF TypeOK
  <2>2. CASE HandleClient(d)
    <3>1. [device[d] EXCEPT !.pc = "connected", !.before = Fetches,
                            !.told = IF status = "Consuming" THEN "Ok" ELSE "Error"] \in Device
      BY <2>1 DEF Device, Fetches
    <3> QED
      BY <2>1, <2>2, <3>1
         DEF HandleClient, TypeOK, core, producers, delivery
  <2>3. CASE Disconnect(d)
    <3>1. device' = [device EXCEPT ![d] = [@ EXCEPT !.pc = "gone", !.inbox = {}]]
      BY <2>1, <2>3 DEF Disconnect, Device
    <3>2. [device[d] EXCEPT !.pc = "gone", !.inbox = {}] \in Device
      BY <2>1 DEF Device
    <3> QED
      BY <2>1, <2>3, <3>1, <3>2 DEF Disconnect, TypeOK, core, producers, delivery
  <2> QED  BY <1>8, <2>2, <2>3
<1>9. ASSUME NEW d \in Devices, NEW m \in device[d].inbox, Receive(d, m)
      PROVE  TypeOK'
  <2> DEFINE other == [device[d] EXCEPT !.inbox = device[d].inbox \ {m},
                                        !.received = device[d].received \cup {m}]
  <2>1. device[d] \in Device
    BY DEF TypeOK
  <2>2. other \in Device
    BY <2>1 DEF Device
  <2>3. device' = [device EXCEPT ![d] = other]
    BY <1>9, <2>1 DEF Receive, Device
  <2> HIDE DEF other
  <2>4. device' \in [Devices -> Device]
    BY <2>2, <2>3 DEF TypeOK
  <2> QED  BY <1>9, <2>4 DEF Receive, TypeOK, core, producers, delivery
<1>10. ASSUME NEW d \in Devices, NEW m \in device[d].received, Respond(d, m)
       PROVE  TypeOK'
  <2>1. m \in stored /\ m.id \in Ids /\ UserOf[d] \in Users
    BY MessageFields, SystemAssumption DEF TypeOK, Core!TypeOK, Delivered
  <2> QED
    BY <1>10, <2>1 DEF Respond, TypeOK, core, producers, delivery
<1> QED  BY <1>1, <1>2, <1>3, <1>4, <1>5, <1>6, <1>7, <1>8, <1>9, <1>10 DEF Next

\* Three parts, each disturbed by few actions.
FromPublished ==
  \A d \in Devices : \A m \in device[d].inbox \cup device[d].received :
    m \in stored /\ Recipient(m, UserOf[d])

ReadOn(d, i) == \E m \in device[d].received : m.status = "NEW" /\ m.id = i

FromReading == \A c \in confirmations : \E d \in Devices : UserOf[d] = c[1] /\ ReadOn(d, c[2])

FromConfirmation ==
  \A r \in Requests :
    request[r].op = "confirm" => <<request[r].caller, request[r].id>> \in confirmations

LEMMA DeliveredParts == Delivered <=> FromPublished /\ FromReading /\ FromConfirmation
BY DEF Delivered, FromPublished, FromReading, ReadOn, FromConfirmation

\* A websocket that opens holds nothing more, one that ends less.
LEMMA HandleClientKeeps ==
  ASSUME TypeOK, NEW d \in Devices, HandleClient(d) \/ Disconnect(d)
  PROVE  \A e \in Devices : /\ device'[e].inbox \subseteq device[e].inbox
                            /\ device'[e].received = device[e].received
<1>1. device \in [Devices -> Device] /\ device[d] \in Device
  BY DEF TypeOK
<1>2. ASSUME NEW v, device' = [device EXCEPT ![d] = v],
             v.inbox \subseteq device[d].inbox, v.received = device[d].received
      PROVE  \A e \in Devices : /\ device'[e].inbox \subseteq device[e].inbox
                                /\ device'[e].received = device[e].received
  BY <1>1, <1>2
<1>3. CASE HandleClient(d)
  <2> DEFINE v == [device[d] EXCEPT !.pc = "connected", !.before = Fetches,
                     !.told = IF status = "Consuming" THEN "Ok" ELSE "Error"]
  <2>1. v.inbox = device[d].inbox /\ v.received = device[d].received
    BY <1>1 DEF Device
  <2>2. device' = [device EXCEPT ![d] = v]
    BY <1>3 DEF HandleClient
  <2> HIDE DEF v
  <2> QED  BY <1>2, <2>1, <2>2
<1>4. CASE Disconnect(d)
  <2> DEFINE v == [device[d] EXCEPT !.pc = "gone", !.inbox = {}]
  <2>1. v.inbox \subseteq device[d].inbox /\ v.received = device[d].received
    BY <1>1 DEF Device
  <2>2. device' = [device EXCEPT ![d] = v]
    BY <1>1, <1>4 DEF Disconnect, Device
  <2> HIDE DEF v
  <2> QED  BY <1>2, <2>1, <2>2
<1> QED  BY <1>3, <1>4

LEMMA DeviceSteps ==
  Next => \/ UNCHANGED device \/ Recovering \/ Consuming
          \/ \E m \in sending : Send(m)
          \/ \E d \in Devices : \/ HandleClient(d) \/ Disconnect(d)
                                \/ \E m \in device[d].inbox : Receive(d, m)
BY DEF Next, CoreStep, ConsumeConfirmation, Publish, Lose, LoseConnection, Restore, Execute,
       Respond, clients

LEMMA ConfirmationSteps ==
  Next => \/ UNCHANGED confirmations
          \/ \E d \in Devices : \E m \in device[d].received : Respond(d, m)
BY DEF Next, CoreStep, ConsumeConfirmation, Publish, Lose, LoseConnection, Recovering, Restore,
       Consuming, Execute, Send, HandleClient, Disconnect, Receive, clients

\* What a device has read it keeps, and a confirmation that was sent stays sent.
LEMMA HistoriesGrow ==
  ASSUME TypeOK, Next
  PROVE  /\ stored \subseteq stored'
         /\ \A d \in Devices : device[d].received \subseteq device'[d].received
         /\ confirmations \subseteq confirmations'
<1>1. device \in [Devices -> Device]
  BY DEF TypeOK
<1>2. ASSUME NEW m \in sending, Send(m)
      PROVE  \A d \in Devices : device'[d].received = device[d].received
  BY <1>1, <1>2 DEF Send, Device
<1>4. ASSUME NEW d \in Devices, NEW m \in device[d].inbox, Receive(d, m)
      PROVE  \A e \in Devices : device[e].received \subseteq device'[e].received
  BY <1>1, <1>4 DEF Receive, Device
<1>5. CASE Recovering \/ Consuming
  BY <1>5, ToldTypes DEF Recovering, Consuming, producers
<1>6. \A d \in Devices : device[d].received \subseteq device'[d].received
  <2>1. CASE UNCHANGED device
    BY <2>1
  <2> QED  BY <1>2, <1>4, <1>5, <2>1, DeviceSteps, HandleClientKeeps
<1>7. stored \subseteq stored'
  BY DEF Next, CoreStep, ConsumeConfirmation, Publish, Lose, LoseConnection, Recovering, Restore,
         Consuming, Execute, Send, HandleClient, Disconnect, Receive, Respond, producers
<1>8. confirmations \subseteq confirmations'
  BY ConfirmationSteps DEF Respond
<1> QED  BY <1>6, <1>7, <1>8

LEMMA StepFromPublished ==
  ASSUME TypeOK, FromPublished, Next
  PROVE  FromPublished'
<1>1. device \in [Devices -> Device] /\ stored \subseteq stored' /\ sending \subseteq stored
  BY HistoriesGrow DEF TypeOK
<1>2. ASSUME NEW d \in Devices, NEW m \in device'[d].inbox \cup device'[d].received
      PROVE  \/ m \in device[d].inbox \cup device[d].received
             \/ m \in sending /\ Recipient(m, UserOf[d])
  <2>1. ASSUME NEW n \in sending, Send(n)
        PROVE  \/ m \in device[d].inbox \cup device[d].received
               \/ m = n /\ Recipient(n, UserOf[d])
    BY <1>1, <1>2, <2>1 DEF Send, Device
  <2>2. ASSUME NEW e \in Devices, HandleClient(e) \/ Disconnect(e)
        PROVE  m \in device[d].inbox \cup device[d].received
    BY <1>2, <2>2, HandleClientKeeps
  <2>3. ASSUME NEW e \in Devices, NEW n \in device[e].inbox, Receive(e, n)
        PROVE  m \in device[d].inbox \cup device[d].received
    BY <1>1, <1>2, <2>3 DEF Receive, Device
  <2>4. CASE Recovering \/ Consuming
    BY <1>2, <2>4, ToldTypes DEF Recovering, Consuming
  <2>5. CASE UNCHANGED device
    BY <1>2, <2>5
  <2> QED  BY <2>1, <2>2, <2>3, <2>4, <2>5, DeviceSteps
<1> QED  BY <1>1, <1>2 DEF FromPublished, Recipient

LEMMA StepFromReading ==
  ASSUME TypeOK, FromReading, Next
  PROVE  FromReading'
<1>1. ASSUME NEW c \in confirmations'
      PROVE  \E d \in Devices : UserOf[d] = c[1] /\ ReadOn(d, c[2])
  <2>1. CASE c \in confirmations
    BY <2>1 DEF FromReading
  <2>2. ASSUME NEW d \in Devices, NEW m \in device[d].received, Respond(d, m),
               c = <<UserOf[d], m.id>>
        PROVE  UserOf[d] = c[1] /\ ReadOn(d, c[2])
    BY <2>2 DEF Respond, ReadOn
  <2>3. CASE UNCHANGED confirmations
    BY <1>1, <2>1, <2>3
  <2>4. ASSUME NEW d \in Devices, NEW m \in device[d].received, Respond(d, m)
        PROVE  c \in confirmations \/ c = <<UserOf[d], m.id>>
    BY <1>1, <2>4 DEF Respond
  <2> QED  BY <2>1, <2>2, <2>3, <2>4, ConfirmationSteps
<1> QED  BY <1>1, HistoriesGrow DEF FromReading, ReadOn

LEMMA StepFromConfirmation ==
  ASSUME TypeOK, FromConfirmation, Next
  PROVE  FromConfirmation'
<1>1. request \in [Requests -> Core!Request]
  BY DEF TypeOK, Core!TypeOK
<1>2. CASE CoreStep
  BY <1>2, CoreGrows DEF TypeOK, CoreStep, FromConfirmation, Keeps, clients
<1>3. ASSUME NEW r \in Requests, NEW u \in Users, NEW i \in Ids, ConsumeConfirmation(r, u, i)
      PROVE  FromConfirmation'
  BY <1>1, <1>3
     DEF ConsumeConfirmation, Core!Arrive, Core!NewRequest, FromConfirmation, clients
<1>4. CASE UNCHANGED request
  BY <1>4, HistoriesGrow DEF FromConfirmation
<1>5. \/ UNCHANGED request \/ CoreStep
      \/ \E r \in Requests, u \in Users, i \in Ids : ConsumeConfirmation(r, u, i)
  BY DEF Next, core, Publish, Lose, LoseConnection, Recovering, Restore, Consuming,
         Execute, Send, HandleClient, Disconnect, Receive, Respond
<1> QED  BY <1>2, <1>3, <1>4, <1>5

-----------------------------------------------------------------------------
(* The theorems *)

Inv == TypeOK /\ Core!RequestsFit /\ Delivered

LEMMA InitInv == Init => Inv
<1> SUFFICES ASSUME Init PROVE Inv
  OBVIOUS
<1>1. Core!TypeOK /\ Core!RequestsFit
  BY InitCoreTypes DEF Init
<1>2. device \in [Devices -> Device]
  BY DEF Init, Device
<1>3. outages \in 0 .. MaxOutages
  BY SystemAssumption DEF Init
<1>4. TypeOK
  BY <1>1, <1>2, <1>3 DEF Init, TypeOK
<1>5. Delivered
  BY DEF Init, Delivered, Core!Init, Core!NewRequest
<1> QED  BY <1>1, <1>4, <1>5 DEF Inv

LEMMA StepInv == Inv /\ [Next]_vars => Inv'
<1> SUFFICES ASSUME Inv, [Next]_vars PROVE Inv'
  OBVIOUS
<1>1. Core!TypeOK' /\ Core!RequestsFit'
  BY StepCore, StepCoreTypes DEF Inv, TypeOK
<1>2. CASE Next
  BY <1>1, <1>2, StepSystemTypes, StepFromPublished, StepFromReading, StepFromConfirmation,
     DeliveredParts, PTL DEF Inv
<1>3. CASE UNCHANGED vars
  <2>1. Delivered'
    BY <1>3 DEF Inv, Delivered, Recipient, vars, core, producers, clients
  <2>2. TypeOK'
    BY <1>1, <1>3 DEF Inv, TypeOK, vars, core, producers, delivery, clients
  <2> QED  BY <1>1, <2>1, <2>2 DEF Inv
<1> QED  BY <1>2, <1>3

LEMMA SpecInv == Spec => []Inv
BY InitInv, StepInv, PTL DEF Spec

\* The states of the whole system stay well-typed: ws-delivery holds only what
\* the core has published, and confirms only known notifications of known users.
THEOREM SystemTypes == Spec => []TypeOK
BY SpecInv, PTL DEF Inv

\* Whatever the brokers, the websockets and the clients do, the core behaves as
\* the service on its own does: in particular every confirmation it consumes is
\* for a notification that was announced to that user.
THEOREM SystemImplementsCore == Spec => CoreSpec
<1>1. Init => Core!Init
  BY DEF Init
<1>2. Inv /\ [Next]_vars => [Core!Next]_(Core!vars)
  BY StepCore DEF Inv
<1> QED  BY <1>1, <1>2, SpecInv, PTL DEF Spec, CoreSpec, Core!Spec

\* A notification is marked as delivered to a user only if he fetched it, or a
\* NEW of it was read by one of his own devices.
THEOREM DeliveredWasReceived == Spec => []ConfirmedWasReceived
<1>1. Core!Spec => []Safety!DeliveredOnRequest
  <2>1. Safety!Spec => []Safety!DeliveredOnRequest
    BY SystemAssumption, Safety!DeliveredOnlyOnRequest DEF Core!Option, Safety!Option
  <2> QED  BY <2>1, SameSpec, PTL
<1>2. Inv /\ Safety!DeliveredOnRequest => ConfirmedWasReceived
  <2> SUFFICES ASSUME Inv, Safety!DeliveredOnRequest,
                      NEW i \in DOMAIN notifications, NEW u \in Users,
                      Core!Confirmed(notifications[i], u)
               PROVE  \/ Fetched(u, i)
                      \/ \E d \in Devices : UserOf[d] = u /\ ReadOn(d, i)
    BY DEF ConfirmedWasReceived, ReadOn
  <2>1. PICK r \in Requests : Safety!HandedBy(r, i, u)
    BY DEF Safety!DeliveredOnRequest, Safety!Confirmed, Core!Confirmed
  <2>2. CASE request[r].op = "fetch"
    BY <2>1, <2>2 DEF Safety!HandedBy, Fetched, Fetches
  <2>3. CASE request[r].op = "confirm"
    BY <2>1, <2>3, DeliveredParts
       DEF Inv, Safety!HandedBy, FromConfirmation, FromReading
  <2> QED  BY <2>1, <2>2, <2>3 DEF Safety!HandedBy
<1> QED  BY <1>1, <1>2, SpecInv, SystemImplementsCore, PTL DEF CoreSpec

\* What core promises of one notification and one user it promises in the system
\* too: undelivered, delivered once, seen, deleted, and never back.
THEOREM SystemKeepsLifecycle == Spec => Safety!LifecycleSpec
<1>1. Safety!Spec => Safety!LifecycleSpec
  BY SystemAssumption, Safety!ServiceImplementsLifecycle DEF Core!Option, Safety!Option
<1> QED  BY <1>1, SameSpec, SystemImplementsCore, PTL DEF CoreSpec

-----------------------------------------------------------------------------
(* The producers of the core *)

\* A message that was stored is not sent again.
StoredOnce == waiting \cap stored = {}

\* What a step of the system does to the producers.
LEMMA ProducerSteps ==
  ASSUME TypeOK, [Next]_vars
  PROVE  \/ /\ published \subseteq published'
            /\ waiting' = waiting \cup (published' \ published) /\ stored' = stored
         \/ \E m \in waiting : /\ waiting' = waiting \ {m} /\ stored' = stored \cup {m}
                               /\ published' = published
         \/ \E m \in waiting : /\ waiting' = waiting \ {m} /\ stored' = stored
                               /\ published' = published
<1>1. CASE CoreStep
  BY <1>1, CoreGrows DEF TypeOK, CoreStep
<1>2. CASE \E m \in waiting : Publish(m) \/ Lose(m)
  BY <1>2 DEF Publish, Lose, core
<1>3. CASE UNCHANGED <<published, waiting, stored>>
  BY <1>3
<1>4. \/ CoreStep \/ (\E m \in waiting : Publish(m) \/ Lose(m))
      \/ UNCHANGED <<published, waiting, stored>>
  BY DEF Next, vars, core, producers, ConsumeConfirmation, Core!Arrive, LoseConnection,
         Recovering, Restore, Consuming, Execute, Send, HandleClient, Disconnect, Receive,
         Respond
<1> QED  BY <1>1, <1>2, <1>3, <1>4

LEMMA StepStoredOnce == TypeOK /\ StoredOnce /\ [Next]_vars => StoredOnce'
<1> SUFFICES ASSUME TypeOK, StoredOnce, [Next]_vars PROVE StoredOnce'
  OBVIOUS
<1>1. stored \subseteq published
  BY DEF TypeOK
<1> QED  BY <1>1, ProducerSteps DEF StoredOnce

LEMMA ProducerStep ==
  ASSUME NEW n \in Core!Message, TypeOK, StoredOnce, [Next]_vars
  PROVE  [Producer(n)!Next]_(Producer(n)!vars)
<1>1. waiting \subseteq published /\ stored \subseteq published
  BY DEF TypeOK
<1>2. CASE /\ published \subseteq published'
           /\ waiting' = waiting \cup (published' \ published) /\ stored' = stored
  <2>1. CASE n \in published' \ published
    <3>1. Producer(n)!Send(n)
      BY <1>1, <1>2, <2>1 DEF Producer!Send
    <3> QED  BY <3>1 DEF Producer!Next
  <2>2. CASE n \notin published' \ published
    BY <1>1, <1>2, <2>2 DEF Producer!vars
  <2> QED  BY <2>1, <2>2
<1>3. ASSUME NEW m \in waiting, waiting' = waiting \ {m}, stored' = stored \cup {m},
             published' = published
      PROVE  [Producer(n)!Next]_(Producer(n)!vars)
  <2>1. CASE m = n
    <3>1. Producer(n)!Store(n)
      BY <1>1, <1>3, <2>1 DEF Producer!Store
    <3> QED  BY <3>1 DEF Producer!Next
  <2>2. CASE m # n
    BY <1>3, <2>2 DEF Producer!vars
  <2> QED  BY <2>1, <2>2
<1>4. ASSUME NEW m \in waiting, waiting' = waiting \ {m}, UNCHANGED <<stored, published>>
      PROVE  [Producer(n)!Next]_(Producer(n)!vars)
  <2>1. CASE m = n
    <3>1. Producer(n)!Close
      BY <1>1, <1>4, <2>1 DEF Producer!Close, StoredOnce
    <3> QED  BY <3>1 DEF Producer!Next
  <2>2. CASE m # n
    BY <1>4, <2>2 DEF Producer!vars
  <2> QED  BY <2>1, <2>2
<1> QED  BY <1>2, <1>3, <1>4, ProducerSteps

\* To each message the producers of the core are what RabbitmqProducer was shown to
\* be: it waits until the broker has it, or is given up with its server for good.
THEOREM SystemKeepsMessages == ASSUME NEW n \in Core!Message PROVE Spec => Producer(n)!Spec
<1>1. Init => Producer(n)!Init
  BY DEF Init, Producer!Init, Core!Init
<1>2. Init => StoredOnce
  BY DEF Init, StoredOnce
<1>3. Inv /\ StoredOnce /\ [Next]_vars => [Producer(n)!Next]_(Producer(n)!vars)
  BY ProducerStep DEF Inv
<1>4. Inv /\ StoredOnce /\ [Next]_vars => StoredOnce'
  BY StepStoredOnce DEF Inv
<1> QED  BY <1>1, <1>2, <1>3, <1>4, SpecInv, PTL DEF Spec, Producer!Spec

-----------------------------------------------------------------------------
(* The websockets of ws-delivery *)

\* What Broadcast sees a device as having got.
Held(d) == device[d].inbox \cup device[d].received

\* A device that has not connected yet has nothing.
AwayIsEmpty == \A d \in Devices : device[d].pc = "away" => Held(d) = {}

\* What the operations do to what Broadcast sees.
LEMMA HandleClientConnects ==
  ASSUME TypeOK, NEW d \in Devices, HandleClient(d)
  PROVE  /\ device[d].pc = "away" /\ device'[d].pc = "connected" /\ Held(d)' = Held(d)
         /\ \A e \in Devices \ {d} : device'[e] = device[e]
<1> DEFINE v == [device[d] EXCEPT !.pc = "connected", !.before = Fetches,
                   !.told = IF status = "Consuming" THEN "Ok" ELSE "Error"]
<1>1. device \in [Devices -> Device] /\ device[d] \in Device
  BY DEF TypeOK
<1>2. v.pc = "connected" /\ v.inbox = device[d].inbox /\ v.received = device[d].received
  BY <1>1 DEF Device
<1>3. device[d].pc = "away" /\ device' = [device EXCEPT ![d] = v]
  BY DEF HandleClient
<1> HIDE DEF v
<1> QED  BY <1>1, <1>2, <1>3 DEF Held

LEMMA DisconnectLeaves ==
  ASSUME TypeOK, NEW d \in Devices, Disconnect(d)
  PROVE  /\ device'[d].pc = "gone"
         /\ \A e \in Devices \ {d} : device'[e] = device[e]
<1>1. device \in [Devices -> Device] /\ device[d] \in Device
  BY DEF TypeOK
<1> QED  BY <1>1 DEF Disconnect, Device

LEMMA ReceiveMoves ==
  ASSUME TypeOK, NEW d \in Devices, NEW m \in device[d].inbox, Receive(d, m)
  PROVE  \A e \in Devices : device'[e].pc = device[e].pc /\ Held(e)' = Held(e)
<1> DEFINE v == [device[d] EXCEPT !.inbox = @ \ {m}, !.received = @ \cup {m}]
<1>1. device \in [Devices -> Device] /\ device[d] \in Device
  BY DEF TypeOK
<1>2. /\ v.pc = device[d].pc /\ v.inbox = device[d].inbox \ {m}
      /\ v.received = device[d].received \cup {m}
  BY <1>1 DEF Device
<1>3. device' = [device EXCEPT ![d] = v]
  BY <1>1 DEF Receive, Device
<1> HIDE DEF v
<1>4. \A e \in Devices \ {d} : device'[e] = device[e]
  BY <1>1, <1>3
<1>5. device'[d] = v
  BY <1>1, <1>3
<1> QED  BY <1>2, <1>4, <1>5 DEF Held

LEMMA SendGives ==
  ASSUME TypeOK, NEW m \in sending, Send(m), NEW d \in Devices
  PROVE  /\ device'[d].pc = device[d].pc
         /\ device[d].pc = "connected" =>
              Held(d)' = Held(d) \cup {n \in {m} : Recipient(n, UserOf[d])}
         /\ device[d].pc # "connected" => Held(d)' = Held(d)
<1>1. device[d] \in Device
  BY DEF TypeOK
<1>2. device'[d] = IF device[d].pc = "connected" /\ Recipient(m, UserOf[d])
                   THEN [device[d] EXCEPT !.inbox = @ \cup {m}] ELSE device[d]
  BY DEF Send
<1>3. CASE device[d].pc = "connected" /\ Recipient(m, UserOf[d])
  <2>1. /\ device'[d].pc = device[d].pc /\ device'[d].inbox = device[d].inbox \cup {m}
        /\ device'[d].received = device[d].received
    BY <1>1, <1>2, <1>3 DEF Device
  <2>2. {n \in {m} : Recipient(n, UserOf[d])} = {m}
    BY <1>3
  <2> QED  BY <1>3, <2>1, <2>2 DEF Held
<1>4. CASE device[d].pc = "connected" /\ ~Recipient(m, UserOf[d])
  <2>1. {n \in {m} : Recipient(n, UserOf[d])} = {}
    BY <1>4
  <2> QED  BY <1>2, <1>4, <2>1 DEF Held
<1>5. CASE device[d].pc # "connected"
  BY <1>2, <1>5 DEF Held
<1> QED  BY <1>3, <1>4, <1>5

LEMMA ToldHolds ==
  ASSUME TypeOK, Recovering \/ Consuming, NEW d \in Devices
  PROVE  device'[d].pc = device[d].pc /\ Held(d)' = Held(d)
<1>1. PICK network \in {"Ok", "Error"} : device' = Told(network)
  BY DEF Recovering, Consuming
<1>2. device'[d].pc = device[d].pc
  BY <1>1 DEF Told, TypeOK, Device
<1> QED  BY <1>1, <1>2, ToldTypes DEF Held

LEMMA StepAwayIsEmpty == TypeOK /\ AwayIsEmpty /\ [Next]_vars => AwayIsEmpty'
<1> SUFFICES ASSUME TypeOK, AwayIsEmpty, [Next]_vars,
                    NEW d \in Devices, device'[d].pc = "away"
             PROVE  Held(d)' = {}
  BY DEF AwayIsEmpty
<1>1. device[d].pc = "away" => Held(d) = {}
  BY DEF AwayIsEmpty
<1>2. CASE UNCHANGED device
  BY <1>1, <1>2 DEF Held
<1>3. CASE Recovering \/ Consuming
  BY <1>1, <1>3, ToldHolds
<1>4. ASSUME NEW m \in sending, Send(m) PROVE Held(d)' = {}
  BY <1>1, <1>4, SendGives
<1>5. ASSUME NEW e \in Devices, HandleClient(e) PROVE Held(d)' = {}
  BY <1>1, <1>5, HandleClientConnects DEF Held
<1>6. ASSUME NEW e \in Devices, Disconnect(e) PROVE Held(d)' = {}
  BY <1>1, <1>6, DisconnectLeaves DEF Held
<1>7. ASSUME NEW e \in Devices, NEW m \in device[e].inbox, Receive(e, m) PROVE Held(d)' = {}
  BY <1>1, <1>7, ReceiveMoves
<1> QED  BY <1>2, <1>3, <1>4, <1>5, <1>6, <1>7, DeviceSteps DEF vars, clients

\* Nobody connects or leaves, and nothing is given.
LEMMA WebsocketsStay ==
  ASSUME \A d \in Devices : device'[d].pc = device[d].pc /\ Held(d)' = Held(d)
  PROVE  UNCHANGED Websockets!vars
<1>1. Connected' = Connected
  BY DEF Connected
<1>2. [d \in Connected |-> device[d].inbox \cup device[d].received]'
        = [d \in Connected |-> device[d].inbox \cup device[d].received]
  BY <1>1 DEF Held, Connected
<1>3. [d \in Connected |-> UserOf[d]]' = [d \in Connected |-> UserOf[d]]
  BY <1>1
<1> QED  BY <1>2, <1>3 DEF Websockets!vars

LEMMA WebsocketsStep ==
  ASSUME TypeOK, AwayIsEmpty, [Next]_vars
  PROVE  [Websockets!Next]_(Websockets!vars)
<1> DEFINE user == [d \in Connected |-> UserOf[d]]
           got == [d \in Connected |-> device[d].inbox \cup device[d].received]
<1>1. CASE UNCHANGED device
  BY <1>1, WebsocketsStay DEF Held
<1>2. CASE Recovering \/ Consuming
  BY <1>2, ToldHolds, WebsocketsStay
<1>3. ASSUME NEW m \in sending, Send(m) PROVE Websockets!Next
  <2>1. Connected' = Connected
    BY <1>3, SendGives DEF Connected
  <2>2. \A d \in Connected : Held(d)' = Held(d) \cup {n \in {m} : Recipient(n, UserOf[d])}
    BY <1>3, SendGives DEF Connected
  <2>3. \A n, u : Websockets!Recipient(n, u) <=> Recipient(n, u)
    BY DEF Websockets!Recipient, Recipient
  <2>4. got' = [d \in Connected |-> got[d] \cup
                  {n \in {m} : Websockets!Recipient(n, user[d])}]
    BY <2>1, <2>2, <2>3 DEF Held
  <2>5. user' = user /\ DOMAIN user = Connected
    BY <2>1
  <2>6. Websockets!Send(m)
    BY <2>4, <2>5 DEF Websockets!Send, Websockets!Connected
  <2>7. m \in Core!Message
    BY DEF TypeOK, Core!TypeOK
  <2> QED  BY <2>6, <2>7 DEF Websockets!Next
<1>4. ASSUME NEW d \in Devices, HandleClient(d) PROVE Websockets!Next
  <2>1. /\ device[d].pc = "away" /\ device'[d].pc = "connected" /\ Held(d)' = {}
        /\ \A e \in Devices \ {d} : device'[e] = device[e]
    BY <1>4, HandleClientConnects DEF AwayIsEmpty
  <2>2. d \notin Connected /\ Connected' = Connected \cup {d}
    BY <2>1 DEF Connected
  <2>3. /\ user' = [e \in Connected \cup {d} |-> IF e = d THEN UserOf[d] ELSE user[e]]
        /\ got' = [e \in Connected \cup {d} |-> IF e = d THEN {} ELSE got[e]]
    BY <2>1, <2>2 DEF Held, Connected
  <2>4. DOMAIN user = Connected
    OBVIOUS
  <2>5. Websockets!Connect(d, UserOf[d])
    BY <2>2, <2>3, <2>4 DEF Websockets!Connect, Websockets!Connected
  <2> QED  BY <2>5, SystemAssumption DEF Websockets!Next
<1>5. ASSUME NEW d \in Devices, Disconnect(d) PROVE Websockets!Next
  <2>1. Connected' = Connected \ {d} /\ \A e \in Connected' : device'[e] = device[e]
    BY <1>5, DisconnectLeaves DEF Connected
  <2>2. /\ user' = [e \in Connected \ {d} |-> user[e]]
        /\ got' = [e \in Connected \ {d} |-> got[e]]
    BY <2>1
  <2>3. DOMAIN user = Connected
    OBVIOUS
  <2>4. Websockets!Leave({d})
    BY <2>2, <2>3 DEF Websockets!Leave, Websockets!Connected
  <2> QED  BY <2>4 DEF Websockets!Next
<1>6. ASSUME NEW d \in Devices, NEW m \in device[d].inbox, Receive(d, m)
      PROVE  UNCHANGED Websockets!vars
  BY <1>6, ReceiveMoves, WebsocketsStay
<1> QED
  BY <1>1, <1>2, <1>3, <1>4, <1>5, <1>6, DeviceSteps DEF vars, clients

\* To the rest of the system ws-delivery is what WebSocketsService was shown to be:
\* send gives a message to every websocket of its users that is connected, and none
\* of them loses what it was given before it ends.
THEOREM SystemBroadcasts == Spec => WebsocketsSpec
<1>1. Init => Websockets!Init /\ AwayIsEmpty
  <2> SUFFICES ASSUME Init PROVE Websockets!Init /\ AwayIsEmpty
    OBVIOUS
  <2>1. Connected = {}
    BY DEF Init, Connected
  <2>2. AwayIsEmpty
    BY DEF Init, AwayIsEmpty, Held
  <2> QED  BY <2>1, <2>2 DEF Websockets!Init
<1>2. Inv /\ AwayIsEmpty /\ [Next]_vars => [Websockets!Next]_(Websockets!vars)
  BY WebsocketsStep DEF Inv
<1>3. Inv /\ AwayIsEmpty /\ [Next]_vars => AwayIsEmpty'
  BY StepAwayIsEmpty DEF Inv
<1> QED  BY <1>1, <1>2, <1>3, SpecInv, PTL DEF Spec, WebsocketsSpec, Websockets!Spec

-----------------------------------------------------------------------------
(* The consumer of ws-delivery *)

\* To the rest of the system the consumer is what RabbitmqConsumer was shown to be: the
\* queue is bound again only after the clients were told that it was lost
\* (StatusChangeCallback), and they are told that it is back only after it is.
THEOREM SystemSubscribes == Spec => ConsumerSpec
<1>1. Init => Consumer!Init
  BY DEF Init, Consumer!Init
<1>2. [Next]_vars => [Consumer!Next]_(Consumer!vars)
  <2> SUFFICES ASSUME [Next]_vars PROVE [Consumer!Next]_(Consumer!vars)
    OBVIOUS
  <2> USE DEF Consumer!Next, Consumer!vars, core, producers, delivery, clients
  <2>1. CASE LoseConnection
    BY <2>1 DEF LoseConnection, Consumer!Lose
  <2>2. CASE Recovering
    BY <2>2 DEF Recovering, Consumer!TellRecovering
  <2>3. CASE Restore
    BY <2>3 DEF Restore, Consumer!Restore
  <2>4. CASE Consuming
    BY <2>4 DEF Consuming, Consumer!TellConsuming
  <2>5. CASE UNCHANGED <<bound, status>>
    BY <2>5
  <2>6. UNCHANGED <<bound, status>> \/ LoseConnection \/ Recovering \/ Restore \/ Consuming
    BY DEF vars, Next, CoreStep, ConsumeConfirmation, Publish, Lose, Execute, Send,
           HandleClient, Disconnect, Receive, Respond
  <2> QED  BY <2>1, <2>2, <2>3, <2>4, <2>5, <2>6
<1> QED  BY <1>1, <1>2, PTL DEF Spec, ConsumerSpec, Consumer!Spec

-----------------------------------------------------------------------------
(* Each websocket *)

\* A device that waits for what it waited for, and ends no sooner, does nothing that its
\* Mailbox sees.
LEMMA MailboxStays ==
  ASSUME NEW d \in Devices,
         /\ device'[d].inbox = device[d].inbox /\ device'[d].received = device[d].received
         /\ device'[d].pc = "gone" <=> device[d].pc = "gone"
  PROVE  UNCHANGED Connection(d)!vars
BY DEF Connection!vars

LEMMA SendPuts ==
  ASSUME TypeOK, NEW d \in Devices, NEW m \in sending, Send(m)
  PROVE  Connection(d)!Next \/ UNCHANGED Connection(d)!vars
<1>1. device[d] \in Device /\ m \in Core!Message
  BY DEF TypeOK, Core!TypeOK
<1>2. device'[d] = IF device[d].pc = "connected" /\ Recipient(m, UserOf[d])
                   THEN [device[d] EXCEPT !.inbox = @ \cup {m}] ELSE device[d]
  BY DEF Send
<1>3. CASE device[d].pc = "connected" /\ Recipient(m, UserOf[d])
  <2>1. /\ device'[d].pc = device[d].pc /\ device'[d].inbox = device[d].inbox \cup {m}
        /\ device'[d].received = device[d].received
    BY <1>1, <1>2, <1>3 DEF Device
  <2>2. Connection(d)!Put(m)
    BY <1>3, <2>1 DEF Connection!Put
  <2> QED  BY <1>1, <2>2 DEF Connection!Next
<1>4. CASE ~(device[d].pc = "connected" /\ Recipient(m, UserOf[d]))
  BY <1>2, <1>4, MailboxStays
<1> QED  BY <1>3, <1>4

LEMMA DisconnectEnds ==
  ASSUME TypeOK, NEW d \in Devices, Disconnect(d)
  PROVE  Connection(d)!Next
<1>1. device \in [Devices -> Device] /\ device[d] \in Device
  BY DEF TypeOK
<1>2. /\ device'[d].pc = "gone" /\ device'[d].inbox = {}
      /\ device'[d].received = device[d].received
  BY <1>1 DEF Disconnect, Device
<1>3. Connection(d)!End
  BY <1>2 DEF Connection!End
<1> QED  BY <1>3 DEF Connection!Next

LEMMA ReceiveReads ==
  ASSUME TypeOK, NEW d \in Devices, NEW m \in device[d].inbox, Receive(d, m)
  PROVE  Connection(d)!Next
<1>1. device \in [Devices -> Device] /\ device[d] \in Device
  BY DEF TypeOK
<1>2. /\ device'[d].pc = device[d].pc /\ device'[d].inbox = device[d].inbox \ {m}
      /\ device'[d].received = device[d].received \cup {m}
  BY <1>1 DEF Receive, Device
<1>3. m \in Core!Message
  BY <1>1 DEF Device
<1>4. Connection(d)!Read(m)
  BY <1>2 DEF Connection!Read
<1> QED  BY <1>3, <1>4 DEF Connection!Next

LEMMA MailboxStep ==
  ASSUME TypeOK, NEW d \in Devices, [Next]_vars
  PROVE  Connection(d)!Next \/ UNCHANGED Connection(d)!vars
<1>1. CASE UNCHANGED device
  BY <1>1, MailboxStays
<1>2. CASE Recovering \/ Consuming
  <2>1. PICK network \in {"Ok", "Error"} : device' = Told(network)
    BY <1>2 DEF Recovering, Consuming
  <2>2. device[d] \in Device
    BY DEF TypeOK
  <2>3. /\ device'[d].pc = device[d].pc /\ device'[d].inbox = device[d].inbox
        /\ device'[d].received = device[d].received
    BY <2>1, <2>2 DEF Told, Device
  <2> QED  BY <2>3, MailboxStays
<1>3. ASSUME NEW m \in sending, Send(m)
      PROVE  Connection(d)!Next \/ UNCHANGED Connection(d)!vars
  BY <1>3, SendPuts
<1>4. ASSUME NEW e \in Devices, HandleClient(e) PROVE UNCHANGED Connection(d)!vars
  <2>1. device \in [Devices -> Device] /\ device[e] \in Device /\ device[e].pc = "away"
    BY <1>4 DEF TypeOK, HandleClient
  <2>2. /\ device'[e].inbox = device[e].inbox /\ device'[e].received = device[e].received
        /\ device'[e].pc = "connected"
    BY <1>4, <2>1 DEF HandleClient, Device
  <2>3. d # e => device'[d] = device[d]
    BY <1>4, <2>1 DEF HandleClient
  <2> QED  BY <2>1, <2>2, <2>3, MailboxStays
<1>5. ASSUME NEW e \in Devices, Disconnect(e)
      PROVE  Connection(d)!Next \/ UNCHANGED Connection(d)!vars
  <2>1. d # e => device'[d] = device[d]
    BY <1>5, DisconnectLeaves
  <2> QED  BY <1>5, <2>1, DisconnectEnds, MailboxStays
<1>6. ASSUME NEW e \in Devices, NEW m \in device[e].inbox, Receive(e, m)
      PROVE  Connection(d)!Next \/ UNCHANGED Connection(d)!vars
  <2>1. d # e => device'[d] = device[d]
    BY <1>6 DEF Receive, TypeOK
  <2> QED  BY <1>6, <2>1, ReceiveReads, MailboxStays
<1> QED  BY <1>1, <1>2, <1>3, <1>4, <1>5, <1>6, DeviceSteps DEF vars, clients

\* To the rest of the system each websocket is what WebSocketConnection was shown to be:
\* what send gave it is read by its client, or waits, until the websocket ends.
THEOREM SystemMailboxes == ASSUME NEW d \in Devices PROVE Spec => Connection(d)!Spec
<1>1. Init => Connection(d)!Init
  BY DEF Init, Connection!Init
<1>2. Inv /\ [Next]_vars => [Connection(d)!Next]_(Connection(d)!vars)
  BY MailboxStep DEF Inv
<1> QED  BY <1>1, <1>2, SpecInv, PTL DEF Spec, Connection!Spec

-----------------------------------------------------------------------------
(* Nothing is missed: the invariant *)

\* A message is published once, and the map of the deduplication holds the
\* timestamps of messages that left the queue.
Processed ==
  /\ waiting \cap stored = {}
  /\ \A i \in DOMAIN last_updates :
       \E n \in stored \ queue : n.id = i /\ n.timestamp = last_updates[i]

NoInvalidation == \A r \in Requests : request[r].op # "invalidate"

HasRead(u, i) == \E d \in Devices : UserOf[d] = u /\ ReadOn(d, i)

\* As NothingMissed has it, but of what other devices hold only what they have
\* read: the rest is lost when they disconnect.
OnItsWay(d, m) ==
  \/ m \in queue \cup sending \/ m \in device[d].inbox
  \/ HasRead(UserOf[d], m.id) \/ Fetched(UserOf[d], m.id)
  \/ Overtaken(m, UserOf[d])

For(m, d) ==
  /\ m.status = "NEW" /\ Recipient(m, UserOf[d])
  /\ Core!Valid(notifications[m.id], clock)

\* Since the device was told of the state of the network a fetch was answered,
\* though the answer may not have reached the client.
Caught(d) ==
  /\ device[d].pc = "connected"
  /\ \E r \in Requests \ device[d].before :
       Safety!Answering(r) /\ request[r].caller = UserOf[d]

NothingLost ==
  bound /\ status = "Consuming" =>
    \A d \in Devices, m \in stored : Caught(d) /\ For(m, d) => OnItsWay(d, m)

\* What is proved of the core and of the system before.
Known ==
  /\ Inv /\ NoInvalidation /\ Processed
  /\ Safety!AnnouncementsTrue /\ Safety!NothingFoundYet /\ ConfirmedWasReceived

LEMMA StepNoInvalidation == Inv /\ NoInvalidation /\ [Next]_vars => NoInvalidation'
<1> SUFFICES ASSUME Inv, NoInvalidation, [Next]_vars PROVE NoInvalidation'
  OBVIOUS
<1>1. request \in [Requests -> Core!Request] /\ Core!TypeOK
  BY DEF Inv, TypeOK, Core!TypeOK
<1>2. CASE CoreStep
  BY <1>1, <1>2, CoreGrows DEF NoInvalidation, Keeps
<1>3. ASSUME NEW r \in Requests, NEW u \in Users, NEW i \in Ids, ConsumeConfirmation(r, u, i)
      PROVE  NoInvalidation'
  BY <1>1, <1>3 DEF ConsumeConfirmation, Core!Arrive, Core!NewRequest, NoInvalidation
<1>4. CASE UNCHANGED request
  BY <1>4 DEF NoInvalidation
<1>5. \/ UNCHANGED request \/ CoreStep
      \/ \E r \in Requests, u \in Users, i \in Ids : ConsumeConfirmation(r, u, i)
  BY DEF Next, core, vars, Publish, Lose, LoseConnection, Recovering, Restore, Consuming,
         Execute, Send, HandleClient, Disconnect, Receive, Respond
<1> QED  BY <1>2, <1>3, <1>4, <1>5

LEMMA StepProcessed == Inv /\ Processed /\ [Next]_vars => Processed'
<1> SUFFICES ASSUME Inv, Processed, [Next]_vars PROVE Processed'
  OBVIOUS
<1> USE DEF producers, delivery, clients
<1>1. stored \subseteq published /\ queue \subseteq stored
  BY DEF Inv, TypeOK
<1>2. CASE CoreStep
  BY <1>1, <1>2 DEF CoreStep, Processed
<1>3. ASSUME NEW m \in waiting, Publish(m)
      PROVE  Processed'
  <2>1. m \notin stored
    BY DEF Processed
  <2>2. stored \ queue \subseteq stored' \ queue' /\ UNCHANGED last_updates
    BY <1>3, <2>1 DEF Publish
  <2>3. waiting' \cap stored' = {}
    BY <1>3 DEF Publish, Processed
  <2> QED  BY <2>2, <2>3 DEF Processed
<1>4. ASSUME NEW m \in waiting, Lose(m)
      PROVE  Processed'
  BY <1>4 DEF Lose, Processed
<1>5. CASE LoseConnection
  BY <1>5 DEF LoseConnection, Processed
<1>6. ASSUME NEW m \in queue, Execute(m)
      PROVE  Processed'
  <2>1. stored \ queue \subseteq stored' \ queue' /\ m \in stored' \ queue'
        /\ UNCHANGED <<waiting, stored>>
    BY <1>1, <1>6 DEF Execute
  <2>2. CASE UNCHANGED last_updates
    BY <2>1, <2>2 DEF Processed
  <2>3. CASE last_updates' = [i \in DOMAIN last_updates \cup {m.id} |->
                                IF i = m.id THEN m.timestamp ELSE last_updates[i]]
    <3>1. ASSUME NEW i \in DOMAIN last_updates'
          PROVE  \E n \in stored' \ queue' : n.id = i /\ n.timestamp = last_updates'[i]
      <4>1. CASE i = m.id
        BY <2>1, <2>3, <4>1
      <4>2. CASE i # m.id
        <5>1. i \in DOMAIN last_updates /\ last_updates'[i] = last_updates[i]
          BY <2>3, <4>2
        <5>2. PICK n \in stored \ queue : n.id = i /\ n.timestamp = last_updates[i]
          BY <5>1 DEF Processed
        <5> QED  BY <2>1, <5>1, <5>2
      <4> QED  BY <4>1, <4>2
    <3> QED  BY <2>1, <3>1 DEF Processed
  <2> QED  BY <1>6, <2>2, <2>3 DEF Execute
<1>7. UNCHANGED <<waiting, stored, queue, last_updates>> => Processed'
  BY DEF Processed
<1> QED
  BY <1>2, <1>3, <1>4, <1>5, <1>6, <1>7
     DEF Next, vars, ConsumeConfirmation, Recovering, Restore, Consuming, Send,
         HandleClient, Disconnect, Receive, Respond

-----------------------------------------------------------------------------
(* What the messages say *)

LEMMA AboutMessages ==
  ASSUME Known, NEW n \in stored
  PROVE  /\ n \in Core!Message /\ n.id \in DOMAIN notifications /\ n.id \in Ids
         /\ n.timestamp \in Nat
         /\ n.status = "NEW" => n.user_ids = notifications[n.id].user_ids
         /\ n.status # "NEW" =>
              \A u \in n.user_ids : u \in Users /\ Core!Confirmed(notifications[n.id], u)
<1>1. /\ n \in published /\ n \in Core!Message /\ Core!RequestsFit
      /\ Safety!AnnouncedHappened
  BY DEF Known, Inv, TypeOK, Core!TypeOK, Safety!AnnouncementsTrue
<1>2. /\ n.status \in {"NEW", "UPDATED", "DELETED"} /\ n.user_ids \subseteq Users
      /\ n.id \in Ids /\ n.timestamp \in Nat
  BY <1>1 DEF Core!Message, Core!New, Core!Updated, Core!Deleted
<1>3. n.id \in DOMAIN notifications
  BY <1>1 DEF Core!RequestsFit
<1>4. n.status = "NEW" => n.user_ids = notifications[n.id].user_ids
  BY <1>1 DEF Safety!AnnouncedHappened
<1>5. n.status # "NEW" => \A u \in n.user_ids : Core!Confirmed(notifications[n.id], u)
  BY <1>1, <1>2 DEF Safety!AnnouncedHappened, Safety!Confirmed, Core!Confirmed
<1> QED  BY <1>1, <1>2, <1>3, <1>4, <1>5

\* There is one NEW of a notification.
LEMMA OneNew ==
  ASSUME Known, NEW m \in stored, NEW n \in stored,
         m.status = "NEW", n.status = "NEW", m.id = n.id
  PROVE  m = n
<1>1. m \in published /\ n \in published
  BY DEF Known, Inv, TypeOK
<1>2. m.timestamp <= n.timestamp /\ n.timestamp <= m.timestamp
  BY <1>1 DEF Known, Safety!AnnouncementsTrue, Safety!NewIsOldest
<1>3. m.timestamp = n.timestamp /\ m.user_ids = n.user_ids
  BY <1>2, AboutMessages
<1>4. m \in Core!New /\ n \in Core!New
  BY AboutMessages DEF Core!Message, Core!New, Core!Updated, Core!Deleted
<1>5. m.seen = n.seen /\ m.status = n.status
  BY <1>4 DEF Core!New
<1>6. ASSUME NEW x \in Core!New
      PROVE  x = [status |-> x.status, id |-> x.id, user_ids |-> x.user_ids,
                  seen |-> x.seen, timestamp |-> x.timestamp]
  BY DEF Core!New
<1>7. /\ m = [status |-> m.status, id |-> m.id, user_ids |-> m.user_ids, seen |-> m.seen,
              timestamp |-> m.timestamp]
      /\ n = [status |-> n.status, id |-> n.id, user_ids |-> n.user_ids, seen |-> n.seen,
              timestamp |-> n.timestamp]
  BY <1>4, <1>6
<1> QED  BY <1>3, <1>5, <1>7

\* What is delivered to a user he has fetched or read.
LEMMA ConfirmedGives ==
  ASSUME Known, NEW i \in DOMAIN notifications, NEW u \in Users,
         Core!Confirmed(notifications[i], u)
  PROVE  Fetched(u, i) \/ HasRead(u, i)
BY DEF Known, ConfirmedWasReceived, HasRead, ReadOn

\* A NEW that is refused as a duplicate was overtaken by a message for others, or
\* by one that is about a notification the user has.
LEMMA Refused ==
  ASSUME Known, NEW m \in queue, NEW u \in Users, m.status = "NEW",
         m.id \in DOMAIN last_updates, m.timestamp <= last_updates[m.id]
  PROVE  Fetched(u, m.id) \/ HasRead(u, m.id) \/ Overtaken(m, u)
<1>1. PICK n \in stored \ queue : n.id = m.id /\ n.timestamp = last_updates[m.id]
  BY DEF Known, Processed
<1>2. m \in stored
  BY DEF Known, Inv, TypeOK
<1>3. n.status # "NEW"
  BY <1>1, <1>2, OneNew
<1>4. CASE u \in n.user_ids
  <2>1. n.id \in DOMAIN notifications /\ Core!Confirmed(notifications[n.id], u)
    BY <1>3, <1>4, AboutMessages
  <2> QED  BY <1>1, <2>1, ConfirmedGives
<1>5. CASE u \notin n.user_ids
  <2>1. n.timestamp \in Nat
    BY AboutMessages
  <2>2. n.timestamp <= last_updates[n.id]
    BY <1>1, <2>1
  <2> QED  BY <1>1, <1>3, <1>5, <2>2 DEF Overtaken
<1> QED  BY <1>4, <1>5

-----------------------------------------------------------------------------
(* What happens to a message *)

LEMMA CoreFetches ==
  ASSUME Known, [Next]_vars, NEW r \in Requests
  PROVE  /\ request[r].op = "fetch" =>
              /\ request'[r].op = "fetch" /\ request'[r].caller = request[r].caller
              /\ request[r].found \subseteq request'[r].found
         /\ Safety!Answering(r)' =>
              \/ Safety!Answering(r)
              \/ /\ request[r].op = "fetch"
                 /\ request'[r].found
                      = Core!FindManyUndelivered(notifications, request[r].caller,
                                                 request[r].now)
<1>1. Safety!TypeOK /\ Safety!RequestsFit /\ Safety!NothingFoundYet
  BY SameTypes, SameFits DEF Known, Inv, TypeOK
<1>2. [Safety!Next]_(Safety!vars)
  BY StepCore, SameStep DEF Known, Inv
<1> QED
  BY <1>1, <1>2, SystemAssumption, Safety!FetchSteps
     DEF Core!Option, Safety!Option, Safety!At, Safety!FindManyUndelivered,
         Core!FindManyUndelivered, Safety!Addressed, Core!Addressed, Safety!Valid,
         Core!Valid, Safety!Confirmed, Core!Confirmed

LEMMA CoreValidity ==
  ASSUME Known, [Next]_vars, NEW i \in DOMAIN notifications
  PROVE  /\ i \in DOMAIN notifications' /\ clock <= clock'
         /\ notifications'[i].invalidate_at = notifications[i].invalidate_at
<1>1. Safety!TypeOK /\ Safety!RequestsFit
  BY SameTypes, SameFits DEF Known, Inv, TypeOK
<1>2. [Safety!Next]_(Safety!vars)
  BY StepCore, SameStep DEF Known, Inv
<1> QED
  BY <1>1, <1>2, SystemAssumption, Safety!ValidityStays
     DEF Known, NoInvalidation, Core!Option, Safety!Option

LEMMA FetchedStays ==
  ASSUME Known, [Next]_vars, NEW u, NEW i, Fetched(u, i)
  PROVE  Fetched(u, i)'
<1>1. PICK r \in Requests : /\ request[r].op = "fetch" /\ request[r].caller = u
                            /\ i \in request[r].found
  BY DEF Fetched, Fetches
<1>2. /\ request'[r].op = "fetch" /\ request'[r].caller = u /\ i \in request'[r].found
  BY <1>1, CoreFetches
<1> QED  BY <1>2 DEF Fetched, Fetches

LEMMA HasReadStays ==
  ASSUME Known, Next, NEW u, NEW i, HasRead(u, i)
  PROVE  HasRead(u, i)'
BY HistoriesGrow DEF Known, Inv, HasRead, ReadOn

LEMMA OvertakenStays ==
  ASSUME Known, Next, NEW m, NEW u, Overtaken(m, u)
  PROVE  Overtaken(m, u)'
<1>1. stored \subseteq stored' /\ last_updates \in [DOMAIN last_updates -> Nat]
  BY HistoriesGrow DEF Known, Inv, TypeOK
<1>2. \A i \in DOMAIN last_updates :
        i \in DOMAIN last_updates' /\ last_updates[i] <= last_updates'[i]
  <2>1. CASE UNCHANGED last_updates
    BY <1>1, <2>1
  <2>2. ASSUME NEW n \in queue, Execute(n), ~UNCHANGED last_updates
        PROVE  \A i \in DOMAIN last_updates :
                 i \in DOMAIN last_updates' /\ last_updates[i] <= last_updates'[i]
    <3>1. n.timestamp \in Nat
      BY AboutMessages DEF Known, Inv, TypeOK
    <3>2. /\ last_updates' = [i \in DOMAIN last_updates \cup {n.id} |->
                                IF i = n.id THEN n.timestamp ELSE last_updates[i]]
          /\ ~(n.id \in DOMAIN last_updates /\ n.timestamp <= last_updates[n.id])
      BY <2>2 DEF Execute
    <3> QED  BY <1>1, <3>1, <3>2
  <2> QED
    BY <2>1, <2>2
       DEF Next, CoreStep, ConsumeConfirmation, Publish, Lose, LoseConnection, Recovering,
           Restore, Consuming, Send, HandleClient, Disconnect, Receive, Respond, delivery
<1>3. PICK n \in stored : /\ n.id = m.id /\ n.status # "NEW" /\ u \notin n.user_ids
                          /\ m.timestamp <= n.timestamp
                          /\ n.id \in DOMAIN last_updates /\ n.timestamp <= last_updates[n.id]
  BY DEF Overtaken
<1>4. n.timestamp \in Nat /\ last_updates[n.id] \in Nat
  BY <1>1, <1>3, AboutMessages
<1>5. n.id \in DOMAIN last_updates' /\ n.timestamp <= last_updates'[n.id]
  <2>1. last_updates'[n.id] \in Int
    BY <1>2, <1>3, StepInv DEF Known, Inv, TypeOK
  <2> QED  BY <1>2, <1>3, <1>4, <2>1
<1> QED  BY <1>1, <1>3, <1>5 DEF Overtaken

\* A websocket that is connected after a step was connected before it, and told
\* what it was told then, or it was just opened or told.
LEMMA DeviceStays ==
  ASSUME TypeOK, Next, NEW d \in Devices, device'[d].pc = "connected"
  PROVE  \/ /\ device[d].pc = "connected" /\ device'[d].before = device[d].before
            /\ \A m \in device[d].inbox : m \in device'[d].inbox \/ m \in device'[d].received
         \/ HandleClient(d) \/ Recovering \/ Consuming
<1>1. device \in [Devices -> Device] /\ device[d] \in Device
  BY DEF TypeOK
<1>2. CASE UNCHANGED device
  BY <1>2
<1>3. ASSUME NEW m \in sending, Send(m)
      PROVE  /\ device[d].pc = "connected" /\ device'[d].before = device[d].before
             /\ device[d].inbox \subseteq device'[d].inbox
  BY <1>1, <1>3 DEF Send, Device
<1>4. ASSUME NEW e \in Devices, HandleClient(e) \/ Disconnect(e), e # d
      PROVE  device'[d] = device[d]
  BY <1>1, <1>4 DEF HandleClient, Disconnect
<1>5. ~Disconnect(d)
  BY <1>1 DEF Disconnect, Device
<1>6. ASSUME NEW e \in Devices, NEW m \in device[e].inbox, Receive(e, m)
      PROVE  /\ device[d].pc = "connected" /\ device'[d].before = device[d].before
             /\ device[d].inbox \subseteq device'[d].inbox \cup device'[d].received
  <2>1. CASE e # d
    BY <1>1, <1>6, <2>1 DEF Receive
  <2>2. CASE e = d
    BY <1>1, <1>6, <2>2 DEF Receive, Device
  <2> QED  BY <2>1, <2>2
<1> QED  BY <1>2, <1>3, <1>4, <1>5, <1>6, DeviceSteps

LEMMA OnItsWayStays ==
  ASSUME Known, Next, bound', NEW d \in Devices, NEW m \in stored, m.status = "NEW",
         device'[d].pc = "connected", ~HandleClient(d), ~Recovering, ~Consuming,
         Recipient(m, UserOf[d]), OnItsWay(d, m)
  PROVE  OnItsWay(d, m)'
<1>1. /\ TypeOK /\ UserOf[d] \in Users
  BY SystemAssumption DEF Known, Inv
<1>2. /\ device[d].pc = "connected"
      /\ m \in device[d].inbox => m \in device'[d].inbox \/ m \in device'[d].received
  BY <1>1, DeviceStays
<1>3. CASE m \in queue
  <2>1. CASE Execute(m)
    <3>1. CASE m.id \in DOMAIN last_updates /\ m.timestamp <= last_updates[m.id]
      <4>1. \/ Fetched(UserOf[d], m.id) \/ HasRead(UserOf[d], m.id)
            \/ Overtaken(m, UserOf[d])
        BY <1>1, <1>3, <3>1, Refused
      <4> QED  BY <4>1, FetchedStays, HasReadStays, OvertakenStays DEF OnItsWay
    <3>2. CASE ~(m.id \in DOMAIN last_updates /\ m.timestamp <= last_updates[m.id])
      BY <2>1, <3>2 DEF Execute, OnItsWay
    <3> QED  BY <3>1, <3>2
  <2>2. CASE ~Execute(m)
    <3>1. m \in queue'
      BY <1>3, <2>2
         DEF Next, CoreStep, ConsumeConfirmation, Publish, Lose, LoseConnection, Recovering,
             Restore, Consuming, Execute, Send, HandleClient, Disconnect, Receive, Respond,
             delivery
    <3> QED  BY <3>1 DEF OnItsWay
  <2> QED  BY <2>1, <2>2
<1>4. CASE m \in sending
  <2>1. CASE Send(m)
    <3>1. device'[d] = [device[d] EXCEPT !.inbox = @ \cup {m}] /\ device[d] \in Device
      BY <1>1, <1>2, <2>1 DEF Send, TypeOK
    <3>2. m \in device'[d].inbox
      BY <3>1 DEF Device
    <3> QED  BY <3>2 DEF OnItsWay
  <2>2. CASE ~Send(m)
    <3>1. m \in sending'
      BY <1>4, <2>2
         DEF Next, CoreStep, ConsumeConfirmation, Publish, Lose, LoseConnection, Recovering,
             Restore, Consuming, Execute, Send, HandleClient, Disconnect, Receive, Respond,
             delivery
    <3> QED  BY <3>1 DEF OnItsWay
  <2> QED  BY <2>1, <2>2
<1>5. CASE m \in device[d].inbox
  BY <1>2, <1>5 DEF OnItsWay, HasRead, ReadOn
<1>6. CASE \/ HasRead(UserOf[d], m.id) \/ Fetched(UserOf[d], m.id)
           \/ Overtaken(m, UserOf[d])
  BY <1>6, FetchedStays, HasReadStays, OvertakenStays DEF OnItsWay
<1> QED  BY <1>3, <1>4, <1>5, <1>6 DEF OnItsWay

\* What reaches the broker while the queue is bound is in it.
LEMMA Arriving ==
  ASSUME Next, bound', NEW m \in stored', m \notin stored
  PROVE  m \in queue'
BY DEF Next, CoreStep, ConsumeConfirmation, Publish, Lose, LoseConnection, Recovering,
       Restore, Consuming, Execute, Send, HandleClient, Disconnect, Receive, Respond, producers

\* The query of a fetch selects what is valid and was not delivered, unless the
\* user has it already.
LEMMA Finding ==
  ASSUME Known, NEW d \in Devices, NEW m \in stored, For(m, d), NEW r \in Requests
  PROVE  \/ HasRead(UserOf[d], m.id) \/ Fetched(UserOf[d], m.id)
         \/ m.id \in Core!FindManyUndelivered(notifications, UserOf[d], request[r].now)
<1> DEFINE u == UserOf[d]
           i == m.id
<1>1. /\ u \in Users /\ i \in DOMAIN notifications
      /\ m.user_ids = notifications[i].user_ids
  BY SystemAssumption, AboutMessages DEF For
<1>2. Core!Addressed(notifications[i], u)
  BY <1>1 DEF For, Recipient, Core!Addressed
<1>3. request[r].now <= clock /\ request[r].now \in Nat /\ clock \in Nat
      /\ notifications[i].invalidate_at \in Nat \cup {None}
  BY <1>1 DEF Known, Inv, TypeOK, Core!TypeOK, Core!RequestsFit, Core!RequestFits, Core!Request,
              Core!Document, Core!Option
<1>4. Core!Valid(notifications[i], request[r].now)
  BY <1>3 DEF For, Core!Valid
<1>5. CASE Core!Confirmed(notifications[i], u)
  BY <1>1, <1>5, ConfirmedGives
<1>6. CASE ~Core!Confirmed(notifications[i], u)
  BY <1>1, <1>2, <1>4, <1>6 DEF Core!FindManyUndelivered
<1> QED  BY <1>5, <1>6

LEMMA StepNothingLost ==
  ASSUME Known, NothingLost, Next
  PROVE  NothingLost'
<1> SUFFICES ASSUME bound', status' = "Consuming", NEW d \in Devices, NEW m \in stored',
                    Caught(d)', For(m, d)'
             PROVE  OnItsWay(d, m)'
  BY DEF NothingLost
<1>1. TypeOK /\ device \in [Devices -> Device] /\ device'[d].pc = "connected"
  BY DEF Known, Inv, TypeOK, Caught
<1>2. PICK r \in Requests : /\ r \notin device'[d].before /\ Safety!Answering(r)'
                            /\ request'[r].caller = UserOf[d]
  BY DEF Caught
<1>3. CASE m \notin stored
  BY <1>3, Arriving DEF OnItsWay
<1>4. CASE m \in stored
  <2>1. r \notin device'[d].before /\ request'[r].op = "fetch"
    BY <1>2 DEF Safety!Answering
  \* A device that was just told has no fetch yet.
  <2>2. ~HandleClient(d)
    <3> SUFFICES ASSUME HandleClient(d) PROVE FALSE
      OBVIOUS
    <3>1. device'[d].before = Fetches /\ request' = request
      BY <1>1 DEF HandleClient, Device, core
    <3> QED  BY <2>1, <3>1 DEF Fetches
  <2>3. ~Consuming
    <3> SUFFICES ASSUME Consuming PROVE FALSE
      OBVIOUS
    <3>1. device'[d] = IF device[d].pc = "connected"
                       THEN [device[d] EXCEPT !.told = "Ok", !.before = Fetches] ELSE device[d]
      BY DEF Consuming, Told
    <3>2. device'[d].before = Fetches /\ request' = request
      BY <1>1, <3>1 DEF Consuming, Device, core
    <3> QED  BY <2>1, <3>2 DEF Fetches
  <2>4. ~Recovering /\ ~Restore
    BY DEF Recovering, Restore
  <2>5. bound /\ status = "Consuming"
    BY <2>3, <2>4
       DEF Next, CoreStep, ConsumeConfirmation, Publish, Lose, LoseConnection, Execute, Send,
           HandleClient, Disconnect, Receive, Respond, delivery
  <2>6. device[d].pc = "connected" /\ device'[d].before = device[d].before
    BY <1>1, <2>2, <2>3, <2>4, DeviceStays
  \* The notification was as valid before.
  <2>7. For(m, d)
    <3>1. m.id \in DOMAIN notifications
      BY <1>4, AboutMessages
    <3>2. /\ clock <= clock' /\ notifications'[m.id].invalidate_at
                                  = notifications[m.id].invalidate_at
      BY <3>1, CoreValidity
    <3>3. clock \in Nat /\ clock' \in Nat
          /\ notifications[m.id].invalidate_at \in Nat \cup {None}
      BY <3>1, StepInv DEF Known, Inv, TypeOK, Core!TypeOK, Core!Document, Core!Option
    <3>4. Core!Valid(notifications[m.id], clock)
      BY <3>2, <3>3 DEF For, Core!Valid
    <3> QED  BY <3>4 DEF For, Recipient
  <2>8. CASE OnItsWay(d, m)
    BY <1>1, <1>4, <2>2, <2>3, <2>4, <2>7, <2>8, OnItsWayStays DEF For
  <2>9. CASE ~OnItsWay(d, m)
    <3>1. ~Caught(d)
      BY <1>4, <2>5, <2>7, <2>9 DEF NothingLost
    <3>2. request'[r].caller = request[r].caller \/ request[r].op # "fetch"
      BY CoreFetches
    <3>3. ~Safety!Answering(r)
      <4> SUFFICES ASSUME Safety!Answering(r) PROVE FALSE
        OBVIOUS
      <4>1. request[r].caller = UserOf[d]
        BY <1>2, <3>2 DEF Safety!Answering
      <4> QED  BY <1>2, <2>6, <3>1, <4>1 DEF Caught
    <3>4. /\ request[r].op = "fetch"
          /\ request'[r].found = Core!FindManyUndelivered(notifications, request[r].caller,
                                                          request[r].now)
      BY <1>2, <3>3, CoreFetches
    <3>5. m.id \in Core!FindManyUndelivered(notifications, UserOf[d], request[r].now)
      BY <1>4, <2>7, <2>9, Finding DEF OnItsWay
    <3>6. m.id \in request'[r].found
      BY <1>2, <3>2, <3>4, <3>5
    <3> QED  BY <1>2, <2>1, <3>6 DEF OnItsWay, Fetched, Fetches
  <2> QED  BY <2>8, <2>9
<1> QED  BY <1>3, <1>4

LEMMA SpecKnown == Spec => []Known
<1>1. Init => NoInvalidation /\ Processed
  BY DEF Init, NoInvalidation, Processed, Core!Init, Core!NewRequest
<1>2. Spec => [](NoInvalidation /\ Processed)
  BY <1>1, SpecInv, StepNoInvalidation, StepProcessed, PTL DEF Spec
<1>3. Safety!Spec => []Safety!AnnouncementsTrue
  BY SystemAssumption, Safety!AnnouncementsTruthful DEF Core!Option, Safety!Option
<1>4. Safety!Spec => []Safety!NothingFoundYet
  BY SystemAssumption, Safety!NeverFoundBefore DEF Core!Option, Safety!Option
<1> QED
  BY <1>2, <1>3, <1>4, SameSpec, SpecInv, SystemImplementsCore, DeliveredWasReceived, PTL
     DEF CoreSpec, Known

LEMMA SpecNothingLost == Spec => []NothingLost
<1>1. Init => NothingLost
  BY DEF Init, NothingLost
<1>2. Known /\ NothingLost /\ [Next]_vars => NothingLost'
  <2> SUFFICES ASSUME Known, NothingLost, UNCHANGED vars PROVE NothingLost'
    BY StepNothingLost
  <2> QED
    BY DEF NothingLost, Caught, For, OnItsWay, HasRead, ReadOn, Fetched, Fetches, Overtaken,
           Recipient, Core!Valid, Safety!Answering, vars, core, producers, delivery, clients
<1> QED  BY <1>1, <1>2, SpecKnown, PTL DEF Spec

\* README.md: a client that opens a websocket, or is told that the network is back,
\* and fetches afterwards can rely on the websocket: no notification for him that
\* has reached the broker is missed, whatever outages, fetches, lost confirms and
\* other users come in between.
THEOREM NoneMissed == Spec => []NothingMissed
<1>1. Known /\ NothingLost => NothingMissed
  <2> SUFFICES ASSUME Known, NothingLost, NEW d \in Devices, NEW m \in stored,
                      bound, status = "Consuming", Relies(d), For(m, d)
               PROVE  \/ m \in queue \cup sending
                      \/ Sent(UserOf[d], m) \/ Fetched(UserOf[d], m.id)
                      \/ Overtaken(m, UserOf[d])
    BY DEF NothingMissed, For
  <2>1. Caught(d)
    BY DEF Relies, Caught, Fetches, Safety!Answering
  <2>2. OnItsWay(d, m)
    BY <2>1 DEF NothingLost
  <2>3. ASSUME HasRead(UserOf[d], m.id)
        PROVE  Sent(UserOf[d], m)
    <3>1. PICK e \in Devices : /\ UserOf[e] = UserOf[d]
                               /\ \E n \in device[e].received : n.status = "NEW" /\ n.id = m.id
      BY <2>3 DEF HasRead, ReadOn
    <3>2. PICK n \in device[e].received : n.status = "NEW" /\ n.id = m.id
      BY <3>1
    <3>3. n \in stored
      BY <3>2 DEF Known, Inv, Delivered
    <3>4. n = m
      BY <3>2, <3>3, OneNew DEF For
    <3> QED  BY <3>1, <3>2, <3>4 DEF Sent
  <2> QED  BY <2>2, <2>3 DEF OnItsWay, Sent
<1> QED  BY <1>1, SpecKnown, SpecNothingLost, PTL
=============================================================================
