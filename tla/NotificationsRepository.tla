---------------------- MODULE NotificationsRepository ----------------------
(***************************************************************************)
(* The documents of the MongoDB collection "notifications" and what the    *)
(* queries of notifications_repository_impl.rs select and write.           *)
(*                                                                         *)
(* Every operator is a function of one document (or of the collection) so  *)
(* that a module that uses them decides at which instant the server        *)
(* evaluates each one: MongoDB applies an update to a document atomically, *)
(* and nothing here spans two documents.                                   *)
(*                                                                         *)
(* A document keeps one array "confirmations" with an entry per user.  It  *)
(* is represented by the entries of each user in the order they were       *)
(* pushed: no query relates entries of two users.  Two pushes by one user  *)
(* stay visible as a sequence of length two.                               *)
(***************************************************************************)
EXTENDS Integers, Sequences

CONSTANTS
  Ids,         \* ObjectIds the driver can give to inserted documents
  Users,       \* recipients
  Producers,   \* users that hold the role tom_notifier_produce_notifications
  Pnids,       \* producer_notification_id values
  None         \* Option::None

Option(S) == S \cup {None}

Confirmation == [seen : BOOLEAN, deleted : BOOLEAN]

Document ==
  [producer_id              : Producers,
   producer_notification_id : Pnids,
   created_at               : Nat,
   invalidate_at            : Option(Nat),
   user_ids                 : SUBSET Users,
   confirmations            : [Users -> Seq(Confirmation)]]

-----------------------------------------------------------------------------
(* Filters *)

\* { "user_ids": user_id } or { "user_ids": { "$size": 0 } }: an empty list
\* of recipients makes a broadcast.
Addressed(d, u) == u \in d.user_ids \/ d.user_ids = {}

\* { "invalidate_at": None } or { "invalidate_at": { "$gt": now } }
Valid(d, now) == d.invalidate_at = None \/ d.invalidate_at > now

\* "confirmations": { "$elemMatch": { "user_id" } }
Confirmed(d, u) == d.confirmations[u] # << >>

\* Mutant: the filter forgets the entry the user already has.
AcceptsConfirmation_Twice(d, u, now) == Addressed(d, u) /\ Valid(d, now)

\* The filter of insert_confirmation and of insert_many_confirmations.
AcceptsConfirmation(d, u, now) ==
  Addressed(d, u) /\ Valid(d, now) /\ ~Confirmed(d, u)

\* The filter of find_many_undelivered, over the whole collection.
FindManyUndelivered(coll, u, now) ==
  {i \in DOMAIN coll : /\ Addressed(coll[i], u)
                       /\ Valid(coll[i], now)
                       /\ ~Confirmed(coll[i], u)}

\* { "$elemMatch": { "user_id", "notification_deleted": false } }: the entries
\* of u that the positional operator can bind, the first one being used.
Live(d, u) == {k \in DOMAIN d.confirmations[u] : ~d.confirmations[u][k].deleted}

\* find_delivered and find_many_delivered (filters.seen = None, one page).
FindManyDelivered(coll, u) == {i \in DOMAIN coll : Live(coll[i], u) # {}}

\* A clash on the unique index (producer_id, producer_notification_id).
UniqueViolation(coll, p, n) ==
  \E i \in DOMAIN coll : /\ coll[i].producer_id = p
                         /\ coll[i].producer_notification_id = n

-----------------------------------------------------------------------------
(* Writes *)

\* The NotificationInsertEntity of insert: confirmations starts empty.
Inserted(p, n, created_at, invalidate_at, user_ids) ==
  [producer_id              |-> p,
   producer_notification_id |-> n,
   created_at               |-> created_at,
   invalidate_at            |-> invalidate_at,
   user_ids                 |-> user_ids,
   confirmations            |-> [u \in Users |-> << >>]]

\* Mutant: the entry lacks notification_seen.
PushConfirmation_NoSeen(d, u) ==
  [d EXCEPT !.confirmations[u] = Append(@, [seen |-> None, deleted |-> FALSE])]

\* Mutant: the entry is pushed for the whole audience.
PushConfirmation_Everyone(d, u) ==
  [d EXCEPT !.confirmations =
     [v \in Users |-> IF Addressed(d, v) THEN <<[seen |-> FALSE, deleted |-> FALSE]>>
                                        ELSE @[v]]]

\* "$push" of a fresh entry, unseen and not deleted.
PushConfirmation(d, u) ==
  [d EXCEPT !.confirmations[u] = Append(@, [seen |-> FALSE, deleted |-> FALSE])]

\* "$set" of "confirmations.$.notification_seen" on the first live entry.
SetSeen(d, u, seen) ==
  LET first == CHOOSE k \in Live(d, u) : \A j \in Live(d, u) : k <= j
  IN  [d EXCEPT !.confirmations[u][first].seen = seen]

\* Mutant: "$pull" of the entry instead of a flag.
SetDeleted_Pull(d, u) == [d EXCEPT !.confirmations[u] = Tail(@)]

\* "$set" of "confirmations.$.notification_deleted" on the first entry of the
\* user; modified_count is 0 when it was already set.
SetDeleted(d, u) == [d EXCEPT !.confirmations[u][1].deleted = TRUE]

\* Mutant: matched_count instead of modified_count.
DeleteModifies_Matched(d, u) == Confirmed(d, u)

DeleteModifies(d, u) == Confirmed(d, u) /\ ~d.confirmations[u][1].deleted

\* "$set" of "invalidate_at"; the filter also names the producer.
SetInvalidateAt(d, invalidate_at) == [d EXCEPT !.invalidate_at = invalidate_at]
=============================================================================
