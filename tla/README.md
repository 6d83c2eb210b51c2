# Tom-Notifier: TLA+ specification and proofs

Tom-Notifier delivers notifications: producers post them over HTTP, users fetch
them by long polling or receive them over websockets.  Two servers
(`tom-notifier-core`, `tom-notifier-ws-delivery`) talk through RabbitMQ and keep
their data in MongoDB; any number of instances of each may run.  This directory
holds TLA+ modules translated from the sources, TLC configurations that check
them on small instances, and proofs checked by TLAPS.

## 1. The system

```
 producer --HTTP--> core --NEW/UPDATED/DELETED--> RabbitMQ --> ws-delivery ==websocket==> user
 user     --HTTP--> core <-----confirmations----- RabbitMQ <-- ws-delivery <==response==== user
```

Paths below are relative to `src/`.

| component | state | operations | what makes it correct |
|---|---|---|---|
| notifications repository and service (`tom-notifier-core/src/{repository,service/notifications_service,routing.rs}`) | the collection `notifications`: audience, expiry, one confirmation entry per user | POST, GET undelivered, PUT invalidate_at, GET/DELETE delivered, PUT seen | one document per post; delivered once per user; deletion final; what is published happened |
| notifications producer service | none: encodes and calls the RabbitMQ producer | send_new, send_updated, send_deleted | timestamps never put an update before its NEW |
| confirmations consumer | none: one task per delivery | insert_confirmation, ack, nack with requeue | idempotent under redelivery |
| rabbitmq_client connection (`shared/rabbitmq_client/src/connection`) | state machine, watch channels `connection` and `blocked` | restore after a failure, close | never hands out a connection that is gone; always restores |
| rabbitmq_client producer (`.../producer`) | state machine, queue of messages, unconfirmed messages, channel, flow | send, publish, confirms, recreate, close | at least once; a confirm hits its own message |
| rabbitmq_client consumer (`.../consumer`) | state machine, channel, one task per delivery | consume, ack, nack, cancel, recreate, close | nothing acknowledged before it is processed; status callbacks alternate |
| deduplication (`tom-notifier-ws-delivery/src/service/notifications_deduplication_service`) | map id -> last timestamp, garbage collector | deduplicate, collect | an update is passed once and never after a newer one, within its lifespan |
| notifications consumer | none | deduplicate, then send; status change | accepted updates are sent |
| websockets service | map user -> broadcast sender, network status flag | handle_client, send, close_connections, update_network_status | each connected user gets each message; the last network status a client gets is the current one |
| websocket connection | unconfirmed messages, ping state | ping, pong, confirmation, message, retry | a message is retried until confirmed or the connection closes; a responsive client is kept |
| confirmation callback, confirmations service | `was_called` per message | execute, send | the confirmation of each user who responded is published |
| tickets | collection `tickets` | create, consume | a ticket opens one connection, before it expires |
| shutdown | order of closing | close | the task that uses something ends before what it uses |
| HTTP layer, jwt_auth, error mapping | none | authorize, limit the body, extract, check roles, map errors to statuses | nothing is done before it is allowed; every documented status and no other |
| environment, tracing, DTOs | none | | stateless, not modelled |

The behaviours that are hard here: handlers of several instances interleave at
every `await`, and no two database operations are atomic together; a handler can
be dropped at any await; deliveries are redelivered and processed in any order;
connections and channels fail between a publish and its confirm; watch channels
keep only the last value.  `PROJECT.json` lists the hazards line by line.

## 2. Modules

| module | models |
|---|---|
| `NotificationsRepository` | documents, filters and writes of `notifications_repository_impl.rs`, as operators |
| `NotificationsService` | handlers, confirmations, published messages, over the collection |
| `NotificationLifecycle` | abstract: the stages of one notification for one user |
| `MCNotificationsService` | audiences, expiries and symmetry for TLC |
| `NotificationsServiceProofs` | theorems about `NotificationsService` |
| `RabbitmqConnection` | the connection task, its callback and the network |
| `RabbitmqProducer` | the producer task, its callback and the broker, over `RabbitmqConnection` |
| `RabbitmqProducerProofs` | theorems about `RabbitmqProducer`; it implements `AtLeastOnce` |
| `AtLeastOnce` | abstract: what `RabbitmqProducer::send` promises |
| `Tickets` | `tickets_service_impl.rs`, `tickets_repository_impl.rs` and the routes of ws-delivery that call them |
| `TicketsAndShutdownProofs`, `MCTickets` | theorems about `Tickets` and `Shutdown`; symmetry for TLC |
| `Deduplication` | the processing of deliveries in ws-delivery, the map of last updates, the garbage collector |
| `DeduplicationProofs`, `MCDeduplication` | theorems about `Deduplication`; updates and symmetry for TLC |
| `RabbitmqConsumer` | the consumer task, its callback, the tasks of its deliveries and the broker, over `RabbitmqConnection` |
| `RabbitmqConsumerProofs` | theorems about `RabbitmqConsumer`; it implements `Subscription` |
| `Subscription` | abstract: what `RabbitmqConsumer` promises to who watches its status |
| `WebSocketConnection` | the task of one websocket, its client and its socket |
| `WebSocketConnectionProofs` | theorems about `WebSocketConnection`; it implements `Mailbox` |
| `Mailbox` | abstract: what becomes of a message put into a websocket's channel |
| `WebSocketsService` | `users_connections`, the network status and the shared confirmation callback |
| `WebSocketsServiceProofs`, `MCWebSocketsService` | theorems about `WebSocketsService`, which implements `Broadcast`; notifications and symmetry for TLC |
| `Broadcast` | abstract: which devices get a notification that is sent |
| `TomNotifier`, `MCTomNotifier` | core, RabbitMQ, ws-delivery and clients composed, over `NotificationsService` |
| `TomNotifierProofs` | theorems about `TomNotifier`; it implements `NotificationsService` and the abstract specifications of its other parts |
| `Shutdown` | how both servers stop, and what other tasks hold meanwhile |
| `NotificationsRepositoryImpl`, `NotificationsRepositoryTests` | the methods of the repository as functions of the collection, and its tests |
| `JwtAuth` | `shared/jwt_auth`, and its tests |
| `CoreHttp`, `CoreHttpTests` | what core makes of a request and an outcome, the tests of its service and routes, its doc comments |
| `DeliveryHttp` | the same for ws-delivery and its tickets, with the tests |

### NotificationsService

A *request* is one HTTP handler or the processing of one confirmation; the
function `request` holds its local variables and the await it is at.  `Arrive`
is the part of a handler up to its first await; each later action is the part
between two awaits, or one operation of the database, which is atomic on one
document only: `InsertManyConfirmations(r, i)` is the visit of one document by
`update_many`.  `Cut` drops the handler at an await (client gone, error of the
database, process stopped); a crash of an instance is a `Cut` of each of its
requests.  `published` is the set of messages handed to the producer.  The clock
is read where the code reads it: `created_at` before the insert, the find and the
update_many each once, UPDATED and DELETED after the write.

`confirmations` is represented by the entries of each user in the order of the
pushes, so that two entries of one user would be visible.  Ids in paths are ids
of existing documents (an id that does not exist takes the same branch as a
document that does not match).  Instances are assumed to have agreeing clocks.
A find is one step; its cursor is no snapshot, which shows only where several
notifications change while it is read.

`NotificationLifecycle` says what all this amounts to: for each notification and
user, absent, undelivered, delivered or seen, deleted, each delivery happening
once.  `LifecycleSpec` is the refinement: `StageOf(i, u)` reads the stage off the
document.

### RabbitmqConnection and RabbitmqProducer

Connections are numbered; `link` says whether the newest works.  The task's
states are those of `connection/state_machine.rs`.  The producer's states are
those of `producer/state_machine.rs` plus `"Stopped"`.  The `biased` select! is
in the guards: a changed connection first, then confirms, then a message.
`Publish` is `basic_publish` returning Ok, which it does also when the channel
already fails; the broker gets the message only if `Works`.  `log`, `outcome` and
`settled` are the broker's side of the current channel: what it received, what it
decided for a prefix, and what it has told.  A confirm with `multiple` is
processed one entry per step.

The broker and the AMQP library are not in the repository.  What is assumed of
them: publishes of a channel are numbered from 1 in order; a confirm names a tag,
or all tags up to one, that it has decided the same way; confirms of a channel
are handed to the callback in order, before the channel is seen closed, and those
of a connection before the next is opened.  The last one is what the comment at
`producer/state_machine.rs:208` relies on.

`AtLeastOnce` is the promise: a message waits until it is stored, unless the
producer is closed.  `ReliableSpec` is the refinement.

### Tickets

As in the service, a request is one handler: GET ticket reads the clock and
inserts, an upgrade finds the ticket, checks it and marks it as used in a second
query whose filter (`Usable`) looks at `used_at` only.  `upgraded` is the state of
a request whose websocket was opened.  `Cut` may lose the answer of the marking
query after it had its effect: the ticket is then spent and nobody connected.
Random strings are taken to be distinct.

### Deduplication

`delivery` is the state of one task per delivery of an instance's queue:
`Consume` decodes, `Deduplicate` is the critical section of the mutex, `Send`
hands the notification to the websockets service; then it is acknowledged.  Which
update a delivery carries is free, so updates come repeated, late or not at all.
`Wake` reads the clock and `Collect` holds the mutex: deliveries are deduplicated
in between.  `accepted` is history: what passed, and when.  The queue is exclusive
to the instance and goes away with it, so a crash loses the whole state and is not
an action.  Clocks of the two servers are assumed to agree.

### RabbitmqConsumer

The states are those of `consumer/state_machine.rs`, plus `"Stopped"`; `status` is
the last value the status callback was given, so that `ok_state`'s two calls are
steps of their own (`TellStatus`) and a cancellation can come in between.
`consumer_cancelled` is the permit of the `Notify`.  A delivery is `Consume`, its
task `Process` (the callback ends, for good or asking for a requeue) and `Respond`
(the response task acks or nacks on the channel the delivery came from; on a
channel that is gone the answer is dropped).  Tags restart with each channel, so
the same tag means another delivery after a reconnection.

Assumed of the broker and the library: a closed channel or lost connection puts
what was unanswered back into the queue, a cancelled consumer gets no further
deliveries, and its tasks still answer on the open channel.

`Subscription` is what the status callback may rely on: what the broker keeps for a
consumer (`bound`: there is a consumer on a channel that works) is set up again only
after its loss was told, and Consuming is told only after that.  It may be lost
unnoticed, which is the defect of section 3.  `SubscriptionSpec` is the refinement;
`"Restored"` is the time between the consumer and the call that tells of it.

### WebSocketConnection

`pc` is `"select"` or the send the task awaits; the order of the branches of the
`biased` select! is in the guards (ping, socket, channel, retry).  Deadlines are
kept as what remains of them: `Tick` counts them down, and nothing bounds time.
`Tick` can happen at any point, so the task can be late by any amount, in the
select! or in a send.  `wire` holds `SocketBuffer` frames until the client reads,
`incoming` as many until the task does; `inbox` is the broadcast channel, which overwrites its oldest message and then
reports `Lagged`.  A client reads, answers late, repeats an answer (to a message
that was resent), stays silent or leaves.

`read` is history: what the client has read.  `Mailbox` is what the service and the
client see: a message put into the channel is there until it is read, unless the
websocket ends.  `MailboxSpec` is the refinement; for the channel the websocket ends
when the task does, or when the channel has overwritten something (`Open`), and the
client may still read what was in the socket then.

### WebSocketsService

What runs under the lock of `users_connections` is one step: the lookup, the
subscription and the network status of a new client; the removal of an entry
without receivers; `close_connections`; a broadcast.  Storing the network status
and broadcasting it are two.  A sender is named after the connection that created
it, so that the entry of a user who was closed by force and came back is another
one.  A connection is its receiver here: what it `received` was put into its
channel, and `WebSocketConnection!InTurnUntilConfirmed` says what becomes of
it.  `Broadcast` says it without a map: who is connected and what each was given;
`BroadcastSpec` is the refinement.

### TomNotifier

The core is an instance of `NotificationsService`, taken step by step: `CoreStep`
is any of its steps but the arrival of a confirmation, which is
`ConsumeConfirmation` and takes one that ws-delivery sent.  The rest is what the
component modules promise.  `waiting` is the producers of core seen through
`AtLeastOnce`: a message is stored later, in any order (`Publish`), or lost with
its server (`Lose`).  The queue of ws-delivery is exclusive and `auto_delete`, so
`LoseConnection` empties and unbinds it; `Recovering`, `Restore` and `Consuming`
are the steps of the consumer and its status callback.  `Execute` is the critical
section of the deduplication, `Send` the broadcast.  A device is a websocket and
its client: it is told the network status, reads, responds and ends.

The abstract specifications are stated of the composed system again: `Producer(m)`
(one `AtLeastOnce` for each message), `ConsumerSpec`, `WebsocketsSpec` and
`Connection(d)` (one `Mailbox` for each device).  Proved are both halves: the
component implements the abstract specification, and the system's steps are steps
of it.  That the system leaves out nothing that matters of what the abstract
specification allows is read, not proved; what it does leave out only shortens
behaviours (a device that is gone reads nothing more, though `Mailbox` lets it read
what was in its socket).  `Execute`, the critical section of the deduplication,
has no abstract specification and is translated from the source a second time.

`Relies` is what the README asks of a client: it is connected, the last status it
was told is OK, and it has the answer of a fetch it made after it was told.
Without the second fetch after an outage a user misses what was published
meanwhile, which the README leaves to the reader.

### Shutdown

`core_main` and `ws_main` are what each `main` does next, in the order of
`application_shutdown.rs`.  `core_open` and `ws_open` are what is not closed yet;
a service that others hold is not closed but dropped later, with its last clone
(`Arc::try_unwrap`).  Those others are the handlers, which axum waits for, and
what nobody waits for: upgrades, websockets, deliveries being processed, and every
NEW whose `WebSocketConfirmationCallback` still waits for its response (`held`),
through which a websocket keeps the confirmations service and its producer open,
and with it the connection.  The end of `main` drops the runtime with all tasks,
taken as one step.
Two stages are left out that only keep more open than here: a connection that still
holds the router after its request, and deliveries the library has buffered when the
channel is closed.

### The methods and the HTTP layer as functions

`NotificationsRepositoryImpl` puts the filters and updates of
`NotificationsRepository` together the way each method does, with what it answers
and with the sort, skip and limit of the queries; `CoreHttp`, `DeliveryHttp` and
`JwtAuth` say in which order a request is refused and which status an outcome
gets.  None of them has a state of its own: the actions of `NotificationsService`
and `Tickets` are where these operations interleave.

The repository's unit tests are the only evidence in the sources for what the
MongoDB server makes of the queries, so they are asked of the model: a definition
with the name of a test holds its fixture, its call and its assertion, and the
assumptions `RepositoryTestsPass`, `HttpTestsPass`, `DeliveryTestsPass` and
`JwtAuthTestsPass` are evaluated by TLC when it starts the runs `tom_notifier`,
`notifications` and `websockets_service`.  They are not properties of behaviours;
they keep the operators under the state machines honest: each of the
mutants of `NotificationsRepository` makes at least one of them fail.  Left out
are six tests of the repository about content and delivery dates, and
`create_ticket_unique_tickets_returned`, which is about `Uuid::new_v4`.

Three more statements are checked with them.  `AnswersAsDocumented`: a handler
answers the statuses its doc comment lists and 500, and each of them can happen.
`RefusedInOrder`: the token is looked at before the length of the body, that
before anything is extracted, that before the roles.  `PagingAsRead`: pages of a
collection nobody changes partition what is found (`PagesPartition`, against a
reference that counts newer documents), except that a far page shows the first one
again (`FarPageIsFirstPage`) and documents of one instant may be shown twice or
never (`TiesMayRepeat`).  A u32 has 64 values there.

Modules whose constants are plain sets and numbers are checked as they are; runs
with a liveness property use no symmetry.

## 3. What the runs show

| run | bounds | result |
|---|---|---|
| `notifications` | 1 notification (2 ids: a repeated POST invents another), 2 users, 4 requests, broadcast or one recipient, expiry, 2 clock values | holds: `TypeOK`, `OneConfirmation`, `DeliveredOnRequest`, `AnnouncementsTrue`, `OneSucceeds`, `ChangesAnnounced`, `LifecycleSpec` |
| `tom_notifier` | 1 broadcast (with or without expiry), 2 users, 1 device, a POST, two racing GETs (one may be cut), a DELETE, a confirmation, 1 outage, 2 clock values | holds: `TypeOK`, `NothingMissed`, `ConfirmedWasReceived` |
| `shutdown` | 1 request, 2 websockets, 2 NEW messages | holds: `ShutdownTypeOK`, `NothingClosedInUse`, `ConfirmationsKept`, `ShutdownCompletes` |
| `producer` | 2 messages, 3 connections, 1 throttle, 1 channel closed by the broker, 1 nack | holds: `TypeOK`, `KeptOnce`, `TagsAgree`, `OnCurrentConnection`, `ReliableSpec`, `EventuallyStored` |
| `tickets` | 2 tickets, 2 users, 5 requests, lifespan 1, 3 clock values | holds: `TypeOK`, `SingleUse`, `UsedInTime` |
| `deduplication` | 4 deliveries of 4 updates (a broadcast, one of each of 2 users, one of another notification), lifespan 1, 4 clock values | holds: `TypeOK`, `PassedInOrder`, `NewestSent` |
| `deduplication_users` | 3 deliveries | `AnyUpdatePassed` is violated |
| `consumer` | 2 messages, 2 connections, 1 cancellation, 1 channel closed by the broker, 1 requeue | holds: `TypeOK`, `AnsweredOrKept`, `ConsumingIsTrue`, `SubscriptionSpec`, `EventuallyConcluded` |
| `consumer_channel_closed` | 1 message, 1 connection, 1 channel closed by the broker | `IssuesDetected` is violated |
| `websocket` | 2 messages, ping interval 3, retry interval 2, 1 retry, channel of 1, socket of 2 in each direction, 4 ping numbers | holds: `TypeOK`, `QueueInOrder`, `InTurnUntilConfirmed`, `GivenUpAfterAll`, `UnresponsiveClosed` |
| `websockets_service` | 3 connections, 2 users, a broadcast NEW and an update for one user, 3 status changes | holds: `TypeOK`, `MapExact`, `StatusReaches`, `BroadcastSpec` |
| `websockets_confirmation` | 2 connections, 2 users | `ResponseConfirmed` is violated |

What each property says is in the comment above it.  Several name their parts:
`AnnouncementsTrue` is `AnnouncedHappened` and `NewIsOldest`; `OneSucceeds` is
`OneDeletion` and `OneDocumentPerPost`; `KeptOnce` is `NothingLost` and
`QueuedOnce`; `OnCurrentConnection` is `HeldIsCurrent` and
`ConnectionNeverStale`; `AnsweredOrKept` is `NothingLost` and `NoneForgotten`;
`InTurnUntilConfirmed` is `UntilConfirmed` and `NoGap`; `MapExact` is `MapServes`
and `NoLeak`.  `OneConsumer`, `EachDeviceReceives` and `ConfirmedWasRead` are
invariants of the same modules that are proved and in no run.

Bounds.  Properties of the service relate one notification, one or two users and
at most three requests (the POST and two that compete); four requests let a
further one interfere, and two clock values let a notification expire between any
two steps.  Two documents at once, which `update_many` visits one after the other, are
left to the proofs, which hold for any number.  In the producer a message can be
confused with another one only (2 messages), stale state has to survive one
failure and a failure can interrupt a recovery (3 connections), and each kind of
disturbance is allowed once.  A ticket takes a GET and the upgrades that compete for
it; five requests are both tickets issued and three upgrades.  Two updates of one
notification, a repetition and the time for one entry to be collected need three
deliveries and a clock one past the lifespan; one of each is to spare.  The
consumer's disturbances meet in pairs (a cancellation overtaken by a lost
connection, an answer that outlives its channel while the same tag is in use on
the next).  Ping and retry intervals that differ let every order of their
deadlines occur; two messages and one retry each make the queue rotate, and a
channel of one overflows with the second.  A pong in flight is at most three pings old,
so four ping numbers tell all of them apart; nothing else bounds how long a client goes
on answering pings.  Two devices of one user and a third
that joins or replaces them, next to another user, are what the map can confuse;
three status changes are OK, ERROR and OK again.  In the composition one
notification is told from nothing else; what it can lose between the servers it
loses in one outage, and two fetches are needed to rely on a websocket after it and
to race the confirmation; several notifications, users' devices and failures of
the producer are in the component runs.  A shutdown needs one handler, a websocket
that leaves and one that stays, and a confirmation for each.

Runs over terminating requests and bounded failures end in states without successors, so deadlock is not checked there.

Fairness (`FairSpec` of the producer).  Tokio runs both tasks (`WF(Task)`, the
steps of the connection); retries never give up, so an attempt to reconnect
eventually succeeds once failures stop; the broker takes every publish it holds,
tells of it, and lifts a throttle; the library sees a channel that was closed.
Nothing is assumed of senders, of failures, or of close.  `EventuallyStored` and
`EventuallyConcluded` leave out the behaviours that end with a channel which the
broker closed and the task never notices (`Unnoticed`), the defect below; all
others are covered, a closed channel that a later failure repairs included.  The consumer's
`FairSpec` is alike: tasks run, executions end and in the end succeed, the broker
delivers what it may; nothing obliges it to cancel or close.  For the websocket,
the task runs and time passes (`WF(Run)`, `WF(Tick)`); nothing is assumed of the
client, which may read or not and answer or not.  What the code does not promise is
in the property: `HeartbeatCloses` (a ping is answered or the websocket ends)
leaves out the behaviours that end in a send which waits forever (`Blocked`), and
`RetriesClose` (a message is confirmed or the websocket ends, although the client
may answer every ping) those in which from some time on the task always has
something left to do (`Busy`): it is blocked, or late by a ping interval each time.  The
retries come last in the `biased` select!, so such a task never gets to them; a real
one has steps of microseconds and intervals of seconds.  The servers of `Shutdown` run their `main`,
axum runs the handlers and the upgrades it waits for, and requests end
(`FairShutdownSpec`); which includes that a request that was begun arrives completely,
and that a close or cancel which awaits the broker or the database returns.  Nothing is
assumed of deliveries, clients and websockets.

What the violated runs say about the code:

- *Updates of other users.* The map has one timestamp for a notification.  After
  an UPDATED for one user was processed, an older UPDATED for another user, or a
  NEW that arrives late, is dropped as a duplicate.  `README.md:13` says that any
  update is passed to the connected users.
- *Closed channel.* `ChannelCallback::close` only logs: the consumer stays in `Ok`,
  the clients are told that the network is fine, and nothing is consumed until the
  connection is lost, although `README.md:59` says that issues are detected and
  told.  The producer's callback does the same: a message published before the
  library saw the channel closed stays unconfirmed until another publish fails.
- *One confirmation for all.* `was_called` belongs to the message, which all
  recipients share: after the first answer to a NEW, the answers of other users are
  not published (`README.md:53`), and for them it stays undelivered in core.

Seen while modelling, not stated as a run:

- A deletion (or seen flag, or new notification) is stored, then published in a
  later part of the handler; a cut between the two leaves it unpublished, and a
  retry gets 404 (409 for a POST).  `README.md:38` says a message is published
  whenever notifications are updated or deleted; `ChangesAnnounced` is what holds.
- The sends of the select! have no time limit: a client that stays connected and
  stops reading is never closed once its socket is full, neither by the heartbeat nor
  by the retries nor by `close_connections`, although `README.md:50` says so.
  `UnresponsiveClosed` excludes it by name (`Blocked`); without that disjunct TLC
  shows a send, or the close frame, that waits forever.
- UPDATED and DELETED are dated after their writes: of a PUT seen and a DELETE that race,
  the UPDATED can be the younger message and pass after the DELETED.
- A POST whose content is not base64 is documented as 400; serde reports it and
  axum's `Json` answers 422.
- A role is checked after the path, the query and the body are extracted: a user
  without the role who sends a malformed body gets the status of the extractor.
- The product of page size and page wraps in the release build.
- An expiry that is extended after it passed makes the notification undelivered
  again, without an announcement: who fetched in between is not told.
- The consumer's `close` cancels with an empty tag, so the broker may deliver until
  the channel is closed; what it delivers then stays with the broker.
- A notification that expires between the find and the `update_many` of GET
  undelivered is returned unmarked.
- A GET cut after its `update_many` leaves notifications marked that the user
  never got.
- Two accepted updates of one notification can be sent in the order opposite to
  their deduplication.
- A notification always carries `network_status` OK, also one whose processing
  outlasts the connection.
- A pong that waits behind a slow send when the next ping is due is not read
  before the connection is given up.

## 4. What is proved

`NotificationsServiceProofs` proves, for any sets of ids, users, producers and
requests and any bound of the clock, under `ConstantsAssumption` (the inputs have
their types, there is a user, `None` is not an id):

| theorem | statement |
|---|---|
| `TypeCorrect` | `Spec => [](TypeOK /\ RequestsFit)` |
| `NeverConfirmedTwice` | `Spec => []OneConfirmation` |
| `AnnouncementsTruthful` | `Spec => []AnnouncementsTrue` |
| `DeliveredOnlyOnRequest` | `Spec => []DeliveredOnRequest` |
| `SucceedsOnce` | `Spec => []OneSucceeds` |
| `NoChangeSilent` | `Spec => []ChangesAnnounced` |
| `ServiceImplementsLifecycle` | `Spec => LifecycleSpec` |

The argument.  `TypeOK` is not inductive: a step that writes document
`request[r].id` keeps the type only if that document exists.  `RequestsFit` adds
that ids in requests and messages are in the collection, which holds as nothing
is ever removed, that `left` is part of `found`, and that a time a request read
is not in the future.  `OneConfirmation` then follows because the filter is
evaluated in the same atomic step as the push.  `AnnouncedHappened` and
`NewIsOldest` need what lies between the write and the announcement
(`AnnouncementsFit`: a request about to announce has written, and nobody undoes
it) and that messages are dated no earlier than their notification
(`MessagesDated`).  `CollectionSteps` reduces every action to one of the effects
on the collection; the refinement needs only those effects and
`OneConfirmation`.

`OneSucceeds` says that of two requests only one succeeded; what makes it inductive
is that a success leaves something in the collection which no other can have left:
a POST its document, which holds its key (`SuccessesStored`, `UniqueKeys`), a
deletion an entry that is no longer live.  A second request then finds the key
taken, or nothing to modify.  `ChangesAnnounced` goes through `CollectionSteps`: an
effect that sets a flag belongs to one request, which is then about to announce
(`SeenTold`, `DeletedTold`), and leaves that state by announcing or by being cut.

`TicketsAndShutdownProofs` and `DeduplicationProofs` do the same, for any requests, tickets
and users, and for any updates and deliveries:

| theorem | statement |
|---|---|
| `TicketTypes`, `OpensOnce`, `OpensInTime` | `Spec => []TypeOK`, `[]SingleUse`, `[]UsedInTime` |
| `TypesKept`, `OnlyNewerPass`, `NewestIsSent` | `Spec => []TypeOK`, `[]PassedInOrder`, `[]NewestSent` |

Tickets: `RequestsFit` says that what an upgrade found still holds when it marks
the ticket, except `used_at`, because nothing else is ever written; the filter on
`used_at` decides among those that found it unused, and an upgraded request's
ticket stays marked.  Deduplication: an update that passed is covered by the entry
of its notification until it outlives the lifespan (`MapCovers`), since the
collector's bound is never above `clock - Lifespan` (`CollectorFits`), however long
it waits for the mutex; and every entry stands for an update that was sent or is
about to be (`MapSent`), which is what an acknowledged duplicate relies on.

`RabbitmqProducerProofs`, for any messages, connections, channel closes, throttles
and refusals:

| theorem | statement |
|---|---|
| `ProducerTypes` | `Spec => []TypeOK` |
| `MessagesKept` | `Spec => []KeptOnce` |
| `TagsNamePublishes` | `Spec => []TagsAgree` |
| `ConnectionFollowed` | `Spec => []OnCurrentConnection` |
| `ProducerReliable` | `Spec => ReliableSpec` |

What has to be shown is that an ack never takes a message the broker refused,
although a multiple ack may cover its tag.  The invariant `Tags` says why: the tags
of `unconfirmed_messages` increase up to `message_count` (`Numbered`), which agrees
with the broker while the channel works and can only be ahead when it does not
(`CountAgrees`); so a tag the broker has is that of the same message (`OwnPublish`).
A settled tag that is still unconfirmed has a confirm in the queue that covers it
(`SettledCovered`), and the first such confirm tells the outcome (`FirstDecides`).
An ack at the front therefore takes what is stored (`AckedIsStored`).  `Hands` adds
that nothing but what was sent is anywhere.  With it, what waits is what was sent
and is not stored, and the refinement of `AtLeastOnce` follows: only `Send`, the
broker's `Decide` and `Stop` are seen there.

`RabbitmqConsumerProofs`, for any messages and bounds:

| theorem | statement |
|---|---|
| `ConsumerTypes` | `Spec => []TypeOK` |
| `DeliveriesAnswered` | `Spec => []AnsweredOrKept` |
| `AtMostOneConsumer` | `Spec => []OneConsumer` |
| `ConsumingIsReal` | `Spec => []ConsumingIsTrue` |
| `ConsumerSubscribes` | `Spec => SubscriptionSpec` |

A task of the present channel carries the tag the broker gave its delivery, and no
task is of a later one (`TasksMatch`): hence its answer acknowledges its own
delivery.  A permit in the `Notify` means the consumer is gone (`PermitMeansGone`):
hence nobody consumes again where a consumer is.  In `Ok` the channel is on the
held connection and the consumer is there, or its cancellation waits, or the channel
was closed (`OkHasConsumer`); and a task whose connection is not the one handed out
was told (`HeldIsCurrent`).  The refinement needs one thing more: once the task is
told of a change, its channel is no longer that of a working connection
(`ChangeMeansGone`), so that Recovering is never told of a consumer that is there.

`WebSocketsServiceProofs`, for any users, websockets and notifications:

| theorem | statement |
|---|---|
| `ServiceTypes` | `Spec => []TypeOK` |
| `ServiceMapExact` | `Spec => []MapExact` |
| `ServiceReceives` | `Spec => []EachDeviceReceives` |
| `ServiceStatus` | `Spec => []StatusReaches` |
| `ServiceBroadcasts` | `Spec => BroadcastSpec` |

`MapExact` needs that a websocket's channel is in the map for one user only
(`OneUserEach`), that a channel dropped by `close_connections` is in no entry
(`DroppedIsGone`), and that the channel a new user gets was never used
(`NewIsFresh`).  `EachDeviceReceives` rests on the map; `StatusReaches` on the status
that is stored before it is broadcast (`StatusAgrees`).  In the refinement a broadcast
reaches whom `Broadcast` says because the map is exact: no device is served that is
not in the entry of its user, and no entry serves another user.

`WebSocketConnectionProofs`, for any messages, intervals, numbers of retries and
sizes of the channel and of the socket:

| theorem | statement |
|---|---|
| `TypeCorrect` | `Spec => []TypeOK` |
| `FrontIsDueFirst` | `Spec => []QueueInOrder` |
| `InTurn` | `Spec => []InTurnUntilConfirmed` |
| `AllRetriesUsed` | `Spec => []GivenUpAfterAll` |
| `CalledForRead` | `Spec => []ConfirmedWasRead` |
| `ConnectionIsMailbox` | `Spec => MailboxSpec` |

The invariant has one part for each thing that moves.  `Control`: what is in hand
at which await.  `Order`: an entry goes to the back with the whole interval left, no
entry has more left than that, and one that is being resent is due after all that
are queued; time takes the same from all, so the order stays.  `Flow`: sent,
in hand and in the channel are together what was published, in that order, until
the channel overwrites; from then on the task sends nothing more before it notices.
`Books`: a queued or resent message was sent and not confirmed, and the number of
times it was sent and of retries it has left make up `RetryMaxCount + 1`; every
message sent is in the queue, in hand or confirmed once.  `GivenUp` follows: with
no retries left it was sent as often as it may be, and nothing waits to be read,
for the socket comes before the retry in the `biased` select!.  `Sight` is about the
other end: what is in the queue or being resent is in the socket or was read, and a
confirmation, on its way or processed, is of a message that was read.  With it a
step of the task that moves a message (from the channel to its hand, from there
to the socket) changes nothing a `Mailbox` shows, and a message leaves it by being
read or by the end.

`TomNotifierProofs`, for any users, devices, requests and outages:

| theorem | statement |
|---|---|
| `SystemTypes` | `Spec => []TypeOK` |
| `SystemImplementsCore` | `Spec => CoreSpec` |
| `SystemKeepsLifecycle` | `Spec => Safety!LifecycleSpec` |
| `SystemKeepsMessages` | `Spec => Producer(n)!Spec`, for each message `n` |
| `SystemSubscribes` | `Spec => ConsumerSpec` |
| `SystemBroadcasts` | `Spec => WebsocketsSpec` |
| `SystemMailboxes` | `Spec => Connection(d)!Spec`, for each device `d` |
| `DeliveredWasReceived` | `Spec => []ConfirmedWasReceived` |
| `NoneMissed` | `Spec => []NothingMissed` |

`CoreSpec` is the specification of `NotificationsService`.  The service on its own
lets a confirmation arrive for any notification that was announced to the user; in
the system it arrives if a device sent it.  The refinement shows that those are
announced: what is in the queue, in ws-delivery and on a device was published.  The
invariant adds `RequestsFit` of the service and `Delivered`: a confirming request had
a confirmation, and a confirmation a device of that user that read the NEW.  So
what is proved of the service holds of the core in the system, and
`DeliveredOnRequest` is taken over through an instance of its proofs; with
`Delivered` it gives `DeliveredWasReceived`; so is the lifecycle of each notification
(`SystemKeepsLifecycle`).

The four theorems after that are the refinements of section 2.  For the producers a
message must not come back after it was stored (`StoredOnce`): then it is waiting,
stored or lost, and lost is the closed producer.  It is stated for each message
because messages of a server that was lost are lost and those of another are not.
For the websockets a device that is not connected yet has nothing (`AwayIsEmpty`), so
`Connect` begins with an empty device as `Broadcast` does.  The specifications with
a parameter cannot be properties of a run.

`NothingMissed` is not inductive for two reasons.  It counts what any device of the
user holds, and a device that leaves loses what it has not read; `NothingLost`
therefore lets other devices count with what they read only.  And it begins with the
answer of a fetch, whereas the obligation begins earlier: once the find of a fetch
made since the status was told is over (`Caught`), each NEW in the broker that was
valid then was found, or was delivered to the user before, hence in the answer of
another fetch or read on a device (`ConfirmedWasReceived`), or was deduplicated as
outdated (`Overtaken`), or was published later and is in the queue.  A NEW in the
queue stays on its way while the connection holds: the deduplication passes it, or
the entry that refuses it is that of another message that left the queue
(`Processed`); there is one NEW of a notification (`OneNew`), so it is an update,
which by `AnnouncementsTrue` means that its users have the notification already, and
for any other it is what `Overtaken` says.  What makes a notification valid again
after it expired is PUT invalidate_at, which the composed system leaves out
(`NoInvalidation`): core announces nothing then, and a user who fetched before would
indeed miss it (section 3).

`TicketsAndShutdownProofs` also has the theorems about `Shutdown`, for any requests,
websockets and notifications (its names are its own, so that one module can extend
both):

| theorem | statement |
|---|---|
| `StopTypes` | `ShutdownSpec => []ShutdownTypeOK` |
| `NothingTakenAway` | `ShutdownSpec => []NothingClosedInUse` |
| `NoConfirmationLost` | `ShutdownSpec => []ConfirmationsKept` |

Each server leaves the other alone, but for the queue (`TwoServers`), so the
invariant has a part for each.  `CoreOrder`: nothing is closed before axum ended, and
then no handler writes or announces; the consumer is closed before the runtime drops
the tasks, so that no delivery is left unanswered; an ack follows an insertion.
`WsOrder`: no upgrade asks the database once axum ended; and where the producer is
closed, the consumer is too, no delivery is on its way to the websockets and no
websocket holds a message, hence none of them can come to need it again.

The assumptions (`ConstantsAssumption`, `ProducerAssumption`, `ConsumerAssumption`,
`ServiceAssumption`, `SystemAssumption` and those of `Tickets` and `Deduplication`)
give the constants their types, keep `None` apart from the values it stands
next to, and are evaluated by TLC in the runs.

Only model-checked: the liveness properties (`EventuallyStored`,
`EventuallyConcluded`, `UnresponsiveClosed`, `ShutdownCompletes`), since temporal
properties under fairness are beyond the prover; and the tests of the sources, which
TLC evaluates as assumptions (the prover cannot evaluate a sort or an induction over
data).

## 5. Plan

Done: `NotificationsService`, `RabbitmqConnection` with `RabbitmqProducer` refining
`AtLeastOnce`, `Tickets`, `Deduplication`, `RabbitmqConsumer` refining `Subscription`,
`WebSocketConnection` refining `Mailbox`, `WebSocketsService` refining `Broadcast`,
`Shutdown` and `TomNotifier` are checked, and every invariant and refinement their
runs check is proved; `TomNotifier` refines the same abstract specifications; the
functions of the repository and the HTTP layer are checked.  What could be added:

1. An abstract filter that `Deduplication` and `Execute` of `TomNotifier` both refine;
   `TomNotifier` would have to remember what passed.
2. Lemmas about the operators of `NotificationsRepositoryImpl` that need no sort, for
   any collection.

## 6. Not modelled

- The content of notifications and of messages, their encoding (serde, prost,
  base64), wording of errors, and the tests about them.
- Reading the environment, tracing, and start-up: a server that fails to start serves
  nothing.
- Dates of delivery that are stored and never compared (`notification_delivered_at`).
- The inside of MongoDB, RabbitMQ, amqprs, axum and tokio: they are modelled from how
  `src/` uses them, and what is assumed of each is said in section 2.
- What takes no effect: deliveries that cannot be decoded, attempts to reconnect that
  fail, pings of clients.
- Several instances of ws-delivery in one run: each has its own queue and state, and
  what two of them share is the confirmations, which may come repeated.
