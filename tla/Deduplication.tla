--------------------------- MODULE Deduplication ---------------------------
(***************************************************************************)
(* tom-notifier-ws-delivery: what one instance does with the deliveries of *)
(* its notifications queue (notifications_consumer_service.rs), the map of *)
(* last updates they share and the task that cleans it (module             *)
(* notifications_deduplication_service).                                   *)
(*                                                                         *)
(* Every delivery is processed by a task of its own, so deliveries advance *)
(* in any order; the producers may publish an update again, and a broker   *)
(* that lost an acknowledgement may deliver it again.  The map is guarded  *)
(* by a mutex.  Clocks are taken to agree: no update is from the future.   *)
(***************************************************************************)
EXTENDS Integers, Sequences

CONSTANTS
  Ids,
  Users,
  Updates,     \* what the core published: NEW, UPDATED, DELETED
  Deliveries,  \* deliveries of the queue
  Lifespan,    \* notification_lifespan
  MaxTime,     \* bound on the clock
  None

ASSUME DeduplicationAssumption ==
  /\ Updates \subseteq [id : Ids, user_ids : SUBSET Users, timestamp : Nat]
  /\ Lifespan \in Nat
  /\ None \notin Int

VARIABLES
  last_updates,  \* the shared map: a function on the ids it holds
  delivery,      \* the state of each processing task
  sent,          \* what went to WebSocketsService::send, in order
  min_timestamp, \* of the collector, or None while it sleeps
  clock,
  accepted       \* history: what deduplicate let pass, in order, and when

vars == <<last_updates, delivery, sent, min_timestamp, clock, accepted>>

Delivery == [pc : {"queued", "deduplicate", "send", "acked"}, update : Updates \cup {None}]

TypeOK ==
  /\ DOMAIN last_updates \subseteq Ids
  /\ last_updates \in [DOMAIN last_updates -> Nat]
  /\ delivery \in [Deliveries -> Delivery]
  /\ sent \in Seq(Updates)
  /\ min_timestamp \in Int \cup {None}
  /\ clock \in Nat
  /\ accepted \in Seq([update : Updates, at : Nat])

Init ==
  /\ last_updates = [i \in {} |-> 0]
  /\ delivery = [d \in Deliveries |-> [pc |-> "queued", update |-> None]]
  /\ sent = << >>
  /\ min_timestamp = None
  /\ clock = 0
  /\ accepted = << >>

-----------------------------------------------------------------------------
(* DeliveryCallback::execute *)

Goto(d, pc) == delivery' = [delivery EXCEPT ![d].pc = pc]

\* A delivery that does not decode is refused and changes nothing.
Consume(d, u) ==
  /\ delivery[d].pc = "queued" /\ u.timestamp <= clock
  /\ delivery' = [delivery EXCEPT ![d] = [pc |-> "deduplicate", update |-> u]]
  /\ UNCHANGED <<last_updates, sent, min_timestamp, clock, accepted>>

\* Mutant: an update as old as the last one passes too.
IsDuplicate_Older(u) ==
  u.id \in DOMAIN last_updates /\ u.timestamp < last_updates[u.id]

IsDuplicate(u) ==
  u.id \in DOMAIN last_updates /\ u.timestamp <= last_updates[u.id]

\* A duplicate is acknowledged like what was sent.
Deduplicate(d) ==
  LET u == delivery[d].update
  IN /\ delivery[d].pc = "deduplicate"
     /\ IF IsDuplicate(u)
        THEN Goto(d, "acked") /\ UNCHANGED <<last_updates, accepted>>
        ELSE /\ Goto(d, "send")
             /\ last_updates' = [i \in DOMAIN last_updates \cup {u.id} |->
                                   IF i = u.id THEN u.timestamp ELSE last_updates[i]]
             /\ accepted' = Append(accepted, [update |-> u, at |-> clock])
     /\ UNCHANGED <<sent, min_timestamp, clock>>

\* Mutant: the task ends without sending.
Send_Skipped(d) ==
  /\ delivery[d].pc = "send"
  /\ Goto(d, "acked")
  /\ UNCHANGED <<last_updates, sent, min_timestamp, clock, accepted>>

Send(d) ==
  /\ delivery[d].pc = "send"
  /\ sent' = Append(sent, delivery[d].update)
  /\ Goto(d, "acked")
  /\ UNCHANGED <<last_updates, min_timestamp, clock, accepted>>

-----------------------------------------------------------------------------
(* NotificationsDeduplicationServiceGarbageCollector *)

\* The clock is read before the mutex is awaited.
Wake ==
  /\ min_timestamp = None
  /\ min_timestamp' = clock - Lifespan
  /\ UNCHANGED <<last_updates, delivery, sent, clock, accepted>>

\* Mutant: entries are emptied instead of removed.
Collect_Emptied ==
  /\ min_timestamp # None
  /\ last_updates' = [i \in DOMAIN last_updates |->
                        IF last_updates[i] > min_timestamp THEN last_updates[i] ELSE None]
  /\ min_timestamp' = None
  /\ UNCHANGED <<delivery, sent, clock, accepted>>

Collect ==
  /\ min_timestamp # None
  /\ last_updates' =
       [i \in {j \in DOMAIN last_updates : last_updates[j] > min_timestamp} |->
          last_updates[i]]
  /\ min_timestamp' = None
  /\ UNCHANGED <<delivery, sent, clock, accepted>>

-----------------------------------------------------------------------------
Tick ==
  /\ clock < MaxTime /\ clock' = clock + 1
  /\ UNCHANGED <<last_updates, delivery, sent, min_timestamp, accepted>>

Next ==
  \/ \E d \in Deliveries :
       Deduplicate(d) \/ Send(d) \/ \E u \in Updates : Consume(d, u)
  \/ Wake \/ Collect \/ Tick

Spec == Init /\ [][Next]_vars
-----------------------------------------------------------------------------
(* Properties *)

\* What passes for a notification is newer than all that passed before, unless
\* the earlier update had outlived its lifespan by then: neither a repetition
\* nor a late update gets through while the collector runs.
PassedInOrder ==
  \A j, k \in DOMAIN accepted :
    j < k /\ accepted[j].update.id = accepted[k].update.id =>
      \/ accepted[j].update.timestamp < accepted[k].update.timestamp
      \/ accepted[j].update.timestamp + Lifespan <= accepted[k].at

\* An update is acknowledged only after it was sent, or if one of the same
\* notification that is no older was sent or is about to be.
NewestSent ==
  \A d \in Deliveries : delivery[d].pc = "acked" =>
    LET u == delivery[d].update IN
    \/ \E k \in DOMAIN sent : sent[k].id = u.id /\ sent[k].timestamp >= u.timestamp
    \/ \E e \in Deliveries : /\ delivery[e].pc = "send"
                             /\ delivery[e].update.id = u.id
                             /\ delivery[e].update.timestamp >= u.timestamp

-----------------------------------------------------------------------------
(* The fact about the map that makes PassedInOrder inductive *)

\* An update that passed is covered by the entry of its notification as long
\* as it is younger than the lifespan.
Covered(u) ==
  \/ u.id \in DOMAIN last_updates /\ u.timestamp <= last_updates[u.id]
  \/ u.timestamp + Lifespan <= clock

MapCovers == \A k \in DOMAIN accepted : Covered(accepted[k].update)

\* The collector never removes what is younger than the lifespan.
CollectorFits == min_timestamp # None => min_timestamp <= clock - Lifespan

-----------------------------------------------------------------------------
(* What documentation and tests say and the code does not do *)

\* README.md: tom-notifier-ws-delivery "passes any update of the notification
\* to users connected by websockets": each recipient of an acknowledged update
\* is sent it, or one of the same notification that is no older.
AnyUpdatePassed ==
  \A d \in Deliveries : delivery[d].pc = "acked" =>
    LET u == delivery[d].update
        Serves(v) == /\ v.id = u.id /\ v.timestamp >= u.timestamp
                     /\ v.user_ids = {} \/ (u.user_ids # {} /\ u.user_ids \subseteq v.user_ids)
    IN \/ \E k \in DOMAIN sent : Serves(sent[k])
       \/ \E e \in Deliveries : delivery[e].pc = "send" /\ Serves(delivery[e].update)
=============================================================================
