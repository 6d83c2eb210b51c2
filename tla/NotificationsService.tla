------------------------ MODULE NotificationsService ------------------------
(***************************************************************************)
(* tom-notifier-core: the HTTP handlers of routing.rs, the service behind  *)
(* them (notifications_service_impl.rs), the consumer of confirmations     *)
(* (confirmations_consumer_service.rs) and the messages handed to the      *)
(* RabbitMQ producer (notifications_producer_service_impl.rs).             *)
(*                                                                         *)
(* Any number of instances and handlers run concurrently over one MongoDB  *)
(* collection.  A request is one handler, or the processing of one         *)
(* confirmation delivery; it advances by one step at a time, and a step    *)
(* ends where the code awaits the database.  A request may be cut at any   *)
(* await: the database returns an error, the client disconnects and the    *)
(* server drops the handler, or the process stops.  A redelivered          *)
(* confirmation and a retried HTTP call are further requests with the same *)
(* arguments.  Clocks of instances are taken to agree.                     *)
(***************************************************************************)
EXTENDS NotificationsRepository

CONSTANTS
  Requests,    \* handlers and confirmation deliveries
  Audiences,   \* the user_ids a producer sends
  Expiries,    \* the invalidate_at a producer sends
  MaxTime      \* bound on the clock

ASSUME ConstantsAssumption ==
  /\ Audiences \subseteq SUBSET Users
  /\ Expiries \subseteq Option(Nat)
  /\ None \notin Ids
  /\ Users # {}

VARIABLES
  notifications,  \* the collection: a function on the inserted ObjectIds
  published,      \* every message given to RabbitmqProducer::send
  clock,          \* OffsetDateTime::now_utc()
  request         \* the local variables of each request

vars == <<notifications, published, clock, request>>

-----------------------------------------------------------------------------
(* Local state of a request *)

Ops == {"none", "save", "fetch", "seen", "delete", "invalidate", "confirm"}

\* "new" has not arrived; "ok", "conflict", "not_found" and "failed" have
\* ended; the others name the await the request is at.
Phases == {"new", "find", "write", "announce", "respond",
           "ok", "conflict", "not_found", "failed"}

Request ==
  [op            : Ops,
   pc            : Phases,
   caller        : Option(Users \cup Producers),
   id            : Option(Ids),
   pnid          : Option(Pnids),
   user_ids      : SUBSET Users,
   invalidate_at : Option(Nat),
   seen          : BOOLEAN,
   now           : Nat,              \* the last now_utc() of the request
   found         : SUBSET Ids,       \* result of find_many_undelivered
   left          : SUBSET Ids]       \* of them, not yet visited by update_many

NewRequest ==
  [op |-> "none", pc |-> "new", caller |-> None, id |-> None, pnid |-> None,
   user_ids |-> {}, invalidate_at |-> None, seen |-> FALSE, now |-> 0,
   found |-> {}, left |-> {}]

New        == [status : {"NEW"}, id : Ids, user_ids : SUBSET Users,
               seen : {FALSE}, timestamp : Nat]
Updated    == [status : {"UPDATED"}, id : Ids, user_ids : SUBSET Users,
               seen : BOOLEAN, timestamp : Nat]
Deleted    == [status : {"DELETED"}, id : Ids, user_ids : SUBSET Users,
               seen : {None}, timestamp : Nat]
Message    == New \cup Updated \cup Deleted

TypeOK ==
  /\ DOMAIN notifications \subseteq Ids
  /\ notifications \in [DOMAIN notifications -> Document]
  /\ published \in SUBSET Message
  /\ clock \in Nat
  /\ request \in [Requests -> Request]

Init ==
  /\ notifications = [i \in {} |-> None]
  /\ published = {}
  /\ clock = 0
  /\ request = [r \in Requests |-> NewRequest]

-----------------------------------------------------------------------------
At(r, op, pc) == request[r].op = op /\ request[r].pc = pc

Goto(r, pc) == request' = [request EXCEPT ![r].pc = pc]

\* The route accepts the request and its handler runs to the first await.  An
\* id in a path is one a client was told (an unknown one writes nothing).
Arrive(r, args) ==
  /\ request[r].pc = "new"
  /\ request' = [request EXCEPT ![r] = args]
  /\ UNCHANGED <<notifications, published, clock>>

Write(i, d) == notifications' = [notifications EXCEPT ![i] = d]

-----------------------------------------------------------------------------
(* POST notifications/undelivered *)

\* validate_invalidate_at_not_passed: the request is refused (422) otherwise.
NotPassed(invalidate_at) == invalidate_at # None => invalidate_at > clock

\* created_at is read from the clock before the insert is sent.
PostUndelivered(r, p, n, user_ids, invalidate_at) ==
  /\ NotPassed(invalidate_at)
  /\ Arrive(r, [NewRequest EXCEPT !.op = "save", !.pc = "write", !.caller = p,
                  !.pnid = n, !.user_ids = user_ids,
                  !.invalidate_at = invalidate_at, !.now = clock])

Insert(r) ==
  /\ At(r, "save", "write")
  /\ ~UniqueViolation(notifications, request[r].caller, request[r].pnid)
  /\ \E i \in Ids \ DOMAIN notifications :
       /\ notifications' =
            [j \in DOMAIN notifications \cup {i} |->
               IF j = i
               THEN Inserted(request[r].caller, request[r].pnid, request[r].now,
                             request[r].invalidate_at, request[r].user_ids)
               ELSE notifications[j]]
       /\ request' = [request EXCEPT ![r] = [@ EXCEPT !.pc = "announce", !.id = i]]
  /\ UNCHANGED <<published, clock>>

InsertRejected(r) ==
  /\ At(r, "save", "write")
  /\ UniqueViolation(notifications, request[r].caller, request[r].pnid)
  /\ Goto(r, "conflict")
  /\ UNCHANGED <<notifications, published, clock>>

\* Mutant: NEW is stamped when it is sent, not with created_at.
SendNew_Stamped(r) ==
  /\ At(r, "save", "announce")
  /\ published' = published \cup
       {[status |-> "NEW", id |-> request[r].id, user_ids |-> request[r].user_ids,
         seen |-> FALSE, timestamp |-> clock]}
  /\ Goto(r, "ok")
  /\ UNCHANGED <<notifications, clock>>

\* send_new queues the message and the handler answers, without an await.
SendNew(r) ==
  /\ At(r, "save", "announce")
  /\ published' = published \cup
       {[status |-> "NEW", id |-> request[r].id, user_ids |-> request[r].user_ids,
         seen |-> FALSE, timestamp |-> request[r].now]}
  /\ Goto(r, "ok")
  /\ UNCHANGED <<notifications, clock>>

-----------------------------------------------------------------------------
(* GET notifications/undelivered *)

GetUndelivered(r, u) ==
  Arrive(r, [NewRequest EXCEPT !.op = "fetch", !.pc = "find", !.caller = u,
               !.now = clock])

\* The query uses the time read before it was sent; when it returns, a
\* non-empty result goes to insert_many_confirmations, which reads the clock.
\* The cursor is no snapshot: where several notifications change while it is read, their
\* states are of different moments; here they are of one.
FindUndelivered(r) ==
  /\ At(r, "fetch", "find")
  /\ LET found == FindManyUndelivered(notifications, request[r].caller, request[r].now)
     IN request' = [request EXCEPT ![r] =
                      [@ EXCEPT !.found = found, !.left = found, !.now = clock,
                                !.pc = IF found = {} THEN "ok" ELSE "write"]]
  /\ UNCHANGED <<notifications, published, clock>>

\* update_many tests its filter again on each document it visits.
InsertManyConfirmations(r, i) ==
  /\ At(r, "fetch", "write")
  /\ i \in request[r].left
  /\ Write(i, IF AcceptsConfirmation(notifications[i], request[r].caller, request[r].now)
              THEN PushConfirmation(notifications[i], request[r].caller)
              ELSE notifications[i])
  /\ request' = [request EXCEPT ![r] =
                   [@ EXCEPT !.left = request[r].left \ {i},
                             !.pc = IF request[r].left = {i} THEN "respond" ELSE "write"]]
  /\ UNCHANGED <<published, clock>>

\* The answer holds what was found, marked or not.
RespondUndelivered(r) ==
  /\ At(r, "fetch", "respond")
  /\ Goto(r, "ok")
  /\ UNCHANGED <<notifications, published, clock>>

-----------------------------------------------------------------------------
(* PUT notifications/delivered/:id/seen *)

PutSeen(r, u, i, seen) ==
  /\ i \in DOMAIN notifications
  /\ Arrive(r, [NewRequest EXCEPT !.op = "seen", !.pc = "write", !.caller = u,
                  !.id = i, !.seen = seen])

\* matched_count decides: writing the value that is already there is Ok.
UpdateConfirmationSeen(r) ==
  LET i == request[r].id  u == request[r].caller
  IN /\ At(r, "seen", "write")
     /\ IF i \in FindManyDelivered(notifications, u)
        THEN Write(i, SetSeen(notifications[i], u, request[r].seen)) /\ Goto(r, "announce")
        ELSE UNCHANGED notifications /\ Goto(r, "not_found")
     /\ UNCHANGED <<published, clock>>

\* The timestamp is read after the update has returned.
SendUpdated(r) ==
  /\ At(r, "seen", "announce")
  /\ published' = published \cup
       {[status |-> "UPDATED", id |-> request[r].id, user_ids |-> {request[r].caller},
         seen |-> request[r].seen, timestamp |-> clock]}
  /\ Goto(r, "ok")
  /\ UNCHANGED <<notifications, clock>>

-----------------------------------------------------------------------------
(* DELETE notifications/delivered/:id *)

DeleteDelivered(r, u, i) ==
  /\ i \in DOMAIN notifications
  /\ Arrive(r, [NewRequest EXCEPT !.op = "delete", !.pc = "write", !.caller = u,
                  !.id = i])

\* Mutant: the handler answers without send_deleted.
Delete_Unannounced(r) ==
  LET i == request[r].id  u == request[r].caller
  IN /\ At(r, "delete", "write")
     /\ IF i \in DOMAIN notifications /\ DeleteModifies(notifications[i], u)
        THEN Write(i, SetDeleted(notifications[i], u)) /\ Goto(r, "ok")
        ELSE UNCHANGED notifications /\ Goto(r, "not_found")
     /\ UNCHANGED <<published, clock>>

\* modified_count decides: a second deletion does not exist any more.
Delete(r) ==
  LET i == request[r].id  u == request[r].caller
  IN /\ At(r, "delete", "write")
     /\ IF i \in DOMAIN notifications /\ DeleteModifies(notifications[i], u)
        THEN Write(i, SetDeleted(notifications[i], u)) /\ Goto(r, "announce")
        ELSE UNCHANGED notifications /\ Goto(r, "not_found")
     /\ UNCHANGED <<published, clock>>

SendDeleted(r) ==
  /\ At(r, "delete", "announce")
  /\ published' = published \cup
       {[status |-> "DELETED", id |-> request[r].id, user_ids |-> {request[r].caller},
         seen |-> None, timestamp |-> clock]}
  /\ Goto(r, "ok")
  /\ UNCHANGED <<notifications, clock>>

-----------------------------------------------------------------------------
(* PUT notifications/undelivered/:id/invalidate_at *)

PutInvalidateAt(r, p, i, invalidate_at) ==
  /\ i \in DOMAIN notifications
  /\ NotPassed(invalidate_at)
  /\ Arrive(r, [NewRequest EXCEPT !.op = "invalidate", !.pc = "write",
                  !.caller = p, !.id = i, !.invalidate_at = invalidate_at])

UpdateInvalidateAt(r) ==
  LET i == request[r].id
  IN /\ At(r, "invalidate", "write")
     /\ IF i \in DOMAIN notifications /\ notifications[i].producer_id = request[r].caller
        THEN Write(i, SetInvalidateAt(notifications[i], request[r].invalidate_at))
             /\ Goto(r, "ok")
        ELSE UNCHANGED notifications /\ Goto(r, "not_found")
     /\ UNCHANGED <<published, clock>>

-----------------------------------------------------------------------------
(* A delivery from the confirmations queue *)

\* tom-notifier-ws-delivery confirms a NEW it was sent for one of its users.
ConsumeConfirmation(r, u, i) ==
  /\ \E m \in published : /\ m.status = "NEW" /\ m.id = i
                          /\ u \in m.user_ids \/ m.user_ids = {}
  /\ Arrive(r, [NewRequest EXCEPT !.op = "confirm", !.pc = "write", !.caller = u,
                  !.id = i, !.now = clock])

\* NoDocumentUpdated is acknowledged like Ok.
InsertConfirmation(r) ==
  LET i == request[r].id  u == request[r].caller
  IN /\ At(r, "confirm", "write")
     /\ IF i \in DOMAIN notifications
           /\ AcceptsConfirmation(notifications[i], u, request[r].now)
        THEN Write(i, PushConfirmation(notifications[i], u))
        ELSE UNCHANGED notifications
     /\ Goto(r, "ok")
     /\ UNCHANGED <<published, clock>>

-----------------------------------------------------------------------------
\* A request is cut at the await it is at: an error of the database (500, or
\* nack and requeue), the client gone, the process stopped.
Cut(r) ==
  /\ request[r].pc \in {"find", "write", "announce", "respond"}
  /\ Goto(r, "failed")
  /\ UNCHANGED <<notifications, published, clock>>

Tick ==
  /\ clock < MaxTime
  /\ clock' = clock + 1
  /\ UNCHANGED <<notifications, published, request>>

ArriveAny(r) ==
  \/ \E p \in Producers, n \in Pnids, to \in Audiences, e \in Expiries :
       PostUndelivered(r, p, n, to, e)
  \/ \E u \in Users : GetUndelivered(r, u)
  \/ \E u \in Users, i \in Ids, s \in BOOLEAN : PutSeen(r, u, i, s)
  \/ \E u \in Users, i \in Ids : DeleteDelivered(r, u, i)
  \/ \E p \in Producers, i \in Ids, e \in Expiries : PutInvalidateAt(r, p, i, e)
  \/ \E u \in Users, i \in Ids : ConsumeConfirmation(r, u, i)

Advance(r) ==
  \/ Insert(r) \/ InsertRejected(r) \/ SendNew(r)
  \/ FindUndelivered(r) \/ RespondUndelivered(r)
  \/ \E i \in Ids : InsertManyConfirmations(r, i)
  \/ UpdateConfirmationSeen(r) \/ SendUpdated(r)
  \/ Delete(r) \/ SendDeleted(r)
  \/ UpdateInvalidateAt(r) \/ InsertConfirmation(r)
  \/ Cut(r)

Next == Tick \/ \E r \in Requests : ArriveAny(r) \/ Advance(r)

Spec == Init /\ [][Next]_vars
-----------------------------------------------------------------------------
(* Safety *)

\* A user has at most one entry in the confirmations of a notification, though
\* GET undelivered finds and marks in two queries and a confirmation, a
\* redelivery of it or another GET can come between them.
OneConfirmation ==
  \A i \in DOMAIN notifications, u \in Users :
    Len(notifications[i].confirmations[u]) <= 1

\* Retried and concurrent POSTs of one notification leave one document, and
\* only one of them is answered 200 and announced.
OneDocumentPerPost ==
  /\ \A i, j \in DOMAIN notifications :
       /\ notifications[i].producer_id = notifications[j].producer_id
       /\ notifications[i].producer_notification_id
            = notifications[j].producer_notification_id
       => i = j
  /\ \A r, q \in Requests :
       /\ At(r, "save", "ok") /\ At(q, "save", "ok")
       /\ request[r].caller = request[q].caller /\ request[r].pnid = request[q].pnid
       => r = q

\* A notification leaves the undelivered list of a user only through a request
\* made for that user: a GET that returned it, or a confirmation he caused.
HandedBy(r, i, u) ==
  /\ request[r].caller = u
  /\ \/ request[r].op = "fetch" /\ i \in request[r].found \ request[r].left
     \/ request[r].op = "confirm" /\ request[r].id = i /\ request[r].pc = "ok"

DeliveredOnRequest ==
  \A i \in DOMAIN notifications, u \in Users :
    Confirmed(notifications[i], u) =>
      /\ Addressed(notifications[i], u)
      /\ \E r \in Requests : HandedBy(r, i, u)

\* Whatever was published really happened, to that user, before: a NEW is the
\* announcement of a stored document, an UPDATED of a delivered notification,
\* a DELETED of a deleted one.
AnnouncedHappened ==
  \A m \in published :
    /\ m.id \in DOMAIN notifications
    /\ LET d == notifications[m.id] IN
         CASE m.status = "NEW"     -> m.user_ids = d.user_ids
           [] m.status = "UPDATED" -> \A u \in m.user_ids : Confirmed(d, u)
           [] m.status = "DELETED" -> \A u \in m.user_ids : Confirmed(d, u) /\ Live(d, u) = {}

\* The timestamps of the messages about a notification never put an UPDATED or
\* a DELETED before its NEW, even if another instance handles the update while
\* the POST has not published yet: tom-notifier-ws-delivery orders by them.
NewIsOldest ==
  \A m, n \in published :
    m.status = "NEW" /\ m.id = n.id => m.timestamp <= n.timestamp

\* The messages about a notification tell what happened, and ws-delivery, which drops what
\* is older than what it processed, takes none of them for older than its NEW.  (An UPDATED
\* and a DELETED are dated after their writes, so these two may change places.)
AnnouncementsTrue == AnnouncedHappened /\ NewIsOldest

\* Concurrent DELETEs by a user of one notification: one is answered 204 and
\* announced, the others 404.
OneDeletion ==
  \A r, q \in Requests :
    /\ request[r].op = "delete" /\ request[q].op = "delete"
    /\ request[r].caller = request[q].caller /\ request[r].id = request[q].id
    /\ request[r].pc \in {"announce", "ok"} /\ request[q].pc \in {"announce", "ok"}
    => r = q

\* Of concurrent and repeated requests that can succeed once, one does.
OneSucceeds == OneDocumentPerPost /\ OneDeletion

\* A seen flag and a deletion are visible in the collection only if they were
\* announced, are about to be, or the request that wrote them was cut between
\* its update and its announcement.
CutOrAnnouncing(r, op, i, u) ==
  /\ request[r].op = op /\ request[r].pc \in {"announce", "failed"}
  /\ request[r].id = i /\ request[r].caller = u

ChangesAnnounced ==
  \A i \in DOMAIN notifications, u \in Users :
    \A k \in DOMAIN notifications[i].confirmations[u] :
      LET entry == notifications[i].confirmations[u][k] IN
      /\ entry.seen =>
           \/ \E m \in published : /\ m.status = "UPDATED" /\ m.id = i
                                   /\ m.user_ids = {u} /\ m.seen
           \/ \E r \in Requests : CutOrAnnouncing(r, "seen", i, u) /\ request[r].seen
      /\ entry.deleted =>
           \/ \E m \in published : /\ m.status = "DELETED" /\ m.id = i
                                   /\ m.user_ids = {u}
           \/ \E r \in Requests : CutOrAnnouncing(r, "delete", i, u)

-----------------------------------------------------------------------------
(* The facts about requests and messages that make the above inductive *)

\* The arguments of a request fit its operation, and the documents requests
\* and messages name exist: no document is ever removed.
RequestFits(r) ==
  LET q == request[r] IN
  /\ q.op = "none" <=> q.pc = "new"
  /\ q.op = "save" => q.caller \in Producers /\ q.pnid \in Pnids
  /\ At(r, "save", "announce") => q.id \in DOMAIN notifications
  /\ q.op \in {"seen", "delete", "confirm"} =>
       q.caller \in Users /\ q.id \in DOMAIN notifications
  /\ q.op = "invalidate" => q.caller \in Producers /\ q.id \in DOMAIN notifications
  /\ q.op = "fetch" =>
       /\ q.caller \in Users
       /\ q.left \subseteq q.found /\ q.found \subseteq DOMAIN notifications
  /\ q.now <= clock

RequestsFit ==
  /\ \A r \in Requests : RequestFits(r)
  /\ \A m \in published : m.id \in DOMAIN notifications

\* What a request is about to announce has been written.
AnnouncementFits(r) ==
  LET q == request[r] IN
  /\ At(r, "save", "announce") =>
       /\ q.user_ids = notifications[q.id].user_ids
       /\ q.now = notifications[q.id].created_at
  /\ At(r, "seen", "announce") => Confirmed(notifications[q.id], q.caller)
  /\ At(r, "delete", "announce") =>
       /\ Confirmed(notifications[q.id], q.caller)
       /\ Live(notifications[q.id], q.caller) = {}

AnnouncementsFit == \A r \in Requests : AnnouncementFits(r)

\* A message is no older than its notification, a NEW exactly as old.
MessagesDated ==
  /\ \A i \in DOMAIN notifications : notifications[i].created_at <= clock
  /\ \A m \in published :
       /\ notifications[m.id].created_at <= m.timestamp
       /\ m.status = "NEW" => m.timestamp = notifications[m.id].created_at

-----------------------------------------------------------------------------
(* Refinement *)

\* The stage a user's copy of a notification is at.
StageOf(i, u) ==
  IF i \notin DOMAIN notifications THEN "absent"
  ELSE LET d == notifications[i] IN
       CASE ~Addressed(d, u)                                     -> "absent"
         [] Addressed(d, u) /\ ~Confirmed(d, u)                  -> "undelivered"
         [] Addressed(d, u) /\ Confirmed(d, u) /\ d.confirmations[u][1].deleted -> "deleted"
         [] OTHER -> IF d.confirmations[u][1].seen THEN "seen" ELSE "delivered"

Lifecycle == INSTANCE NotificationLifecycle
               WITH status <- [x \in Ids \X Users |-> StageOf(x[1], x[2])]

\* Every step of the service is, for every notification and user, a step of the
\* lifecycle or none: nothing is delivered twice and a deletion is final.
LifecycleSpec == Lifecycle!Spec

=============================================================================
