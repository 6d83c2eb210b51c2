-------------------- MODULE NotificationsRepositoryTests --------------------
(***************************************************************************)
(* The tests of notifications_repository_impl.rs, asked of the model.      *)
(*                                                                         *)
(* Those tests run the repository against a real server, so what they      *)
(* assert is what the server does with the queries: they are the only      *)
(* evidence in the repository for the filters and the updates the modules  *)
(* are built from.  Each definition below is named after its test: the     *)
(* fixture the test inserts, the call it makes and what it asserts.  The   *)
(* fields no query looks at (contents, delivery dates) are left out, and   *)
(* with them the six tests that are about nothing else.                    *)
(***************************************************************************)
EXTENDS Integers, Sequences, FiniteSets

CONSTANT Nothing    \* Option::None

LOCAL me == 1
LOCAL other == 2
LOCAL others == {3, 4, 5}

LOCAL R == INSTANCE NotificationsRepositoryImpl
             WITH Ids <- 1..7, Users <- 1..5, Producers <- 1..2, Pnids <- 1..9,
                  None <- Nothing, U32 <- 64

LOCAL past == 1
LOCAL now == 5
LOCAL future == 9
LOCAL all == 63    \* u32::MAX

-----------------------------------------------------------------------------
(* Fixtures *)

\* A document without confirmations, made at the instant created_at.
LOCAL At(created_at, to, invalidate_at) == R!Inserted(1, 1, created_at, invalidate_at, to)

LOCAL To(to) == At(past, to, Nothing)

\* The document with one more confirmation.
LOCAL With(d, u, seen, deleted) ==
  [d EXCEPT !.confirmations[u] = Append(@, [seen |-> seen, deleted |-> deleted])]

\* The documents, told apart by producer_notification_id.
LOCAL Fixture(docs) == [i \in DOMAIN docs |-> [docs[i] EXCEPT !.producer_notification_id = i]]

LOCAL One(d) == Fixture(<<d>>)

\* A broadcast that everyone but "me" has, in every state of a confirmation.
LOCAL Broadcast ==
  With(With(With(With(To({}), 2, FALSE, FALSE), 3, FALSE, TRUE), 4, TRUE, FALSE), 5, TRUE, TRUE)

\* Notifications to nobody else than "me", to everyone and to two users.
LOCAL OneOfEachKind(e) == Fixture(<<At(past, {}, e), At(past, {me}, e), At(past, {me, other}, e)>>)

LOCAL confirmations(r, i, u) == r.coll[i].confirmations[u]

-----------------------------------------------------------------------------
(* insert *)

LOCAL insert(to, e, p, n) == R!Insert(<< >>, 1, to, now, e, p, n)

insert_correct_created_at ==
  insert({}, Nothing, 1, 1).coll[1].created_at = now

insert_correct_invalidate_at ==
  insert({}, past, 1, 1).coll[1].invalidate_at = past

insert_correct_invalidate_at_none ==
  insert({}, Nothing, 1, 1).coll[1].invalidate_at = Nothing

insert_correct_user_ids_unicast ==
  insert({me}, Nothing, 1, 1).coll[1].user_ids = {me}

insert_correct_user_ids_multicast ==
  insert({me, other}, Nothing, 1, 1).coll[1].user_ids = {me, other}

insert_correct_user_ids_empty ==
  insert({}, Nothing, 1, 1).coll[1].user_ids = {}

insert_correct_producer_id ==
  insert({me}, Nothing, 2, 1).coll[1].producer_id = 2

insert_correct_producer_notification_id ==
  insert({}, Nothing, 1, 7).coll[1].producer_notification_id = 7

insert_correct_confirmations ==
  \A u \in 1..5 : insert({me}, Nothing, 1, 1).coll[1].confirmations[u] = << >>

insert_duplicated_producer_notification ==
  ~R!Insert(One(To({})), 2, {me}, now, Nothing, 1, 1).ok

-----------------------------------------------------------------------------
(* update_invalidate_at *)

update_invalidate_at_value_updated ==
  R!UpdateInvalidateAt(One(To({me})), 1, 1, future).coll[1].invalidate_at = future

update_invalidate_at_the_same_value ==
  R!UpdateInvalidateAt(One(At(past, {me}, now)), 1, 1, now).ok

update_invalidate_at_id_not_exist ==
  ~R!UpdateInvalidateAt(One(To({me})), 2, 1, now).ok

update_invalidate_at_wrong_producer ==
  ~R!UpdateInvalidateAt(One(To({me})), 1, 2, now).ok

-----------------------------------------------------------------------------
(* insert_confirmation *)

LOCAL insert_confirmation(d, u) == R!InsertConfirmation(One(d), 1, u, now)

insert_confirmation_correct_user_id ==
  Len(confirmations(insert_confirmation(To({me}), me), 1, me)) = 1

insert_confirmation_correct_notification_deleted ==
  ~confirmations(insert_confirmation(To({me}), me), 1, me)[1].deleted

insert_confirmation_correct_notification_seen ==
  ~confirmations(insert_confirmation(To({me}), me), 1, me)[1].seen

insert_confirmation_already_exist ==
  ~insert_confirmation(With(To({me}), me, FALSE, FALSE), me).ok

insert_confirmation_other_user_notification ==
  ~insert_confirmation(To({other}), me).ok

insert_confirmation_multicast_notification ==
  LET first  == insert_confirmation(To({1, 2}), 1)
      second == R!InsertConfirmation(first.coll, 1, 2, now)
  IN  first.ok /\ second.ok /\ ~R!InsertConfirmation(second.coll, 1, 3, now).ok

insert_confirmation_broadcast_notification_correct_user_id ==
  Len(confirmations(insert_confirmation(To({}), me), 1, me)) = 1

insert_confirmation_broadcast_notification_already_exist ==
  ~insert_confirmation(With(To({}), me, FALSE, FALSE), me).ok

insert_confirmation_broadcast_notification_other_users_confirmations_exist ==
  Len(confirmations(insert_confirmation(Broadcast, me), 1, me)) = 1

insert_confirmation_invalidate_at_passed ==
  ~insert_confirmation(At(past, {}, past), me).ok

insert_confirmation_invalidate_at_not_passed ==
  Len(confirmations(insert_confirmation(At(past, {}, future), me), 1, me)) = 1

-----------------------------------------------------------------------------
(* insert_many_confirmations *)

LOCAL insert_many_confirmations(coll) == R!InsertManyConfirmations(coll, 1..3, me, now)

insert_many_confirmations_correct_user_id ==
  \A i \in 1..3 :
    Len(confirmations(insert_many_confirmations(OneOfEachKind(Nothing)), i, me)) = 1

insert_many_confirmations_correct_notification_seen ==
  \A i \in 1..3 :
    ~confirmations(insert_many_confirmations(OneOfEachKind(Nothing)), i, me)[1].seen

insert_many_confirmations_correct_notification_deleted ==
  \A i \in 1..3 :
    ~confirmations(insert_many_confirmations(OneOfEachKind(Nothing)), i, me)[1].deleted

insert_many_confirmations_invalidate_at_passed ==
  \A i \in 1..3, u \in 1..5 :
    confirmations(insert_many_confirmations(OneOfEachKind(past)), i, u) = << >>

insert_many_confirmations_invalidate_at_not_passed ==
  \A i \in 1..3 :
    confirmations(insert_many_confirmations(OneOfEachKind(future)), i, me) # << >>

insert_many_confirmatons_skip_notifications_with_confirmations ==
  LET confirmed == [i \in 1..3 |-> With(OneOfEachKind(future)[i], me, FALSE, FALSE)]
  IN  \A i \in 1..3 : Len(confirmations(insert_many_confirmations(confirmed), i, me)) = 1

-----------------------------------------------------------------------------
(* update_confirmation_seen *)

LOCAL update_confirmation_seen(d, u, seen) == R!UpdateConfirmationSeen(One(d), 1, u, seen)

update_confirmation_seen_value_changed ==
  ~confirmations(update_confirmation_seen(With(To({me}), me, TRUE, FALSE), me, FALSE), 1, me)[1].seen

update_confirmation_seen_the_same_value ==
  LET r == update_confirmation_seen(With(To({me}), me, TRUE, FALSE), me, TRUE)
  IN  r.ok /\ confirmations(r, 1, me)[1].seen

update_confirmation_seen_notification_not_exist ==
  ~R!UpdateConfirmationSeen(<< >>, 1, me, TRUE).ok

update_confirmation_seen_other_user_notification ==
  ~update_confirmation_seen(With(To({other}), other, FALSE, FALSE), me, TRUE).ok

update_confirmation_seen_confirmation_does_not_exist ==
  ~update_confirmation_seen(To({me}), me, TRUE).ok

update_confirmation_seen_notification_deleted ==
  ~update_confirmation_seen(With(To({me}), me, FALSE, TRUE), me, TRUE).ok

update_confirmation_seen_multicast_notification ==
  LET coll   == One(With(With(To({1, 2}), 1, FALSE, FALSE), 2, FALSE, FALSE))
      first  == R!UpdateConfirmationSeen(coll, 1, 1, TRUE)
      second == R!UpdateConfirmationSeen(first.coll, 1, 2, TRUE)
  IN  first.ok /\ second.ok /\ ~R!UpdateConfirmationSeen(second.coll, 1, 3, TRUE).ok

update_confirmation_seen_broadcast_notification ==
  ~confirmations(update_confirmation_seen(With(To({}), me, TRUE, FALSE), me, FALSE), 1, me)[1].seen

update_confirmation_seen_broadcast_notification_confirmation_not_exist ==
  ~update_confirmation_seen(Broadcast, me, TRUE).ok

update_confirmation_seen_broadcast_notification_has_multiple_confirmations ==
  ~confirmations(update_confirmation_seen(With(Broadcast, me, TRUE, FALSE), me, FALSE), 1, me)[1].seen

-----------------------------------------------------------------------------
(* delete *)

LOCAL deletion(d, u) == R!Delete(One(d), 1, u)

\* The broadcast the deletions start from: confirmed, unseen, by each of users.
LOCAL ConfirmedBy(to, users) ==
  [To(to) EXCEPT !.confirmations =
     [u \in 1..5 |-> IF u \in users THEN <<[seen |-> FALSE, deleted |-> FALSE]>> ELSE << >>]]

delete_notification_deleted_set_to_true ==
  confirmations(deletion(ConfirmedBy({me}, {me}), me), 1, me)[1].deleted

delete_confirmation_not_exist ==
  ~deletion(To({me}), me).ok

delete_already_deleted ==
  ~deletion(With(To({me}), me, FALSE, TRUE), me).ok

delete_notification_not_exist ==
  ~R!Delete(<< >>, 1, me).ok

delete_other_user_notification ==
  ~deletion(ConfirmedBy({other}, {other}), me).ok

delete_multicast_notification ==
  LET coll  == One(ConfirmedBy({1, 2}, {1, 2}))
      first == R!Delete(coll, 1, 1)
  IN  ~R!Delete(coll, 1, 3).ok /\ first.ok /\ R!Delete(first.coll, 1, 2).ok

delete_broadcast_notification ==
  LET r == deletion(ConfirmedBy({}, {me, 3, 4}), me)
  IN  /\ confirmations(r, 1, me)[1].deleted
      /\ \A u \in {3, 4} : Len(confirmations(r, 1, u)) = 1 /\ ~confirmations(r, 1, u)[1].deleted

delete_broadcast_notification_confirmation_not_exist ==
  ~deletion(ConfirmedBy({}, others), me).ok

-----------------------------------------------------------------------------
(* find_delivered *)

LOCAL find_delivered(d, u) == R!FindDelivered(One(d), 1, u)

find_delivered_correct_id ==
  R!FindDelivered(Fixture(<<With(To({me}), me, FALSE, FALSE), With(To({me}), me, FALSE, FALSE)>>),
                  1, me).id = 1

find_delivered_correct_created_at ==
  find_delivered(With(At(now, {me}, Nothing), me, FALSE, FALSE), me).created_at = now

find_delivered_correct_seen ==
  find_delivered(With(To({me}), me, TRUE, FALSE), me).seen

find_delivered_mutlicast_notification_correct_seen ==
  LET d == With(With(To({1, 2}), 1, TRUE, FALSE), 2, FALSE, FALSE)
  IN  find_delivered(d, 1).seen /\ ~find_delivered(d, 2).seen

find_delivered_multicast_notification ==
  LET d == ConfirmedBy({1, 2}, {1, 2})
  IN  find_delivered(d, 1).id = find_delivered(d, 2).id /\ find_delivered(d, 3) = Nothing

find_delivered_broadcast_notification ==
  find_delivered(ConfirmedBy({}, {me}), me).id = 1

find_delivered_notification_not_exist ==
  R!FindDelivered(<< >>, 1, me) = Nothing

find_delivered_other_user_notification ==
  find_delivered(With(To({other}), other, TRUE, FALSE), me) = Nothing

find_delivered_confirmation_not_exist ==
  find_delivered(To({me}), me) = Nothing

find_delivered_broadcast_notification_confirmation_not_exist ==
  find_delivered(With(With(To({}), 3, TRUE, FALSE), 4, FALSE, FALSE), me) = Nothing

find_delivered_deleted ==
  find_delivered(With(To({me}), me, TRUE, TRUE), me) = Nothing

find_delivered_broadcast_notification_deleted ==
  find_delivered(With(With(With(To({}), 3, TRUE, FALSE), me, TRUE, TRUE), 4, FALSE, FALSE), me) = Nothing

-----------------------------------------------------------------------------
(* find_many_delivered *)

\* Whatever order the server gives to documents of the same instant.
LOCAL find_many_delivered(coll, size, idx, seen, Asserted(_)) ==
  \A page \in R!FindManyDeliveredPages(coll, me, size, idx, seen) : Asserted(page)

LOCAL Everything(coll, Asserted(_)) == find_many_delivered(coll, all, 0, Nothing, Asserted)

LOCAL FoundIds(list) == {list[j].id : j \in DOMAIN list}

\* A broadcast with three confirmations, one of them "me"'s.
LOCAL Shared(deleted) == With(With(With(To({}), 3, TRUE, FALSE), me, TRUE, deleted), 4, FALSE, FALSE)

\* Three notifications whose instants are not in the order of their ids.
LOCAL ThreeInstants ==
  Fixture([i \in 1..3 |-> With(At(<<1, 3, 2>>[i], {me}, Nothing), me, TRUE, FALSE)])

find_many_delivered_correct_user_id ==
  Everything(Fixture(<<Shared(FALSE), With(To({me}), me, TRUE, FALSE), With(To({other}), other, TRUE, FALSE)>>),
             LAMBDA page : FoundIds(page) = {1, 2})

find_many_delivered_skip_not_delivered ==
  Everything(Fixture(<<Shared(FALSE), With(To({me}), me, TRUE, FALSE),
                       With(To({}), other, TRUE, FALSE), To({me})>>),
             LAMBDA page : FoundIds(page) = {1, 2})

find_many_delivered_skip_deleted ==
  Everything(Fixture(<<Shared(TRUE), With(To({me}), me, TRUE, FALSE)>>),
             LAMBDA page : FoundIds(page) = {2})

find_many_delivered_sorted_by_created_at_desc ==
  Everything(ThreeInstants,
             LAMBDA page : Len(page) = 3 /\ \A j \in 1..2 : page[j].created_at >= page[j + 1].created_at)

find_many_delivered_correct_pagination ==
  Everything(ThreeInstants, LAMBDA page :
    /\ find_many_delivered(ThreeInstants, 2, 0, Nothing, LAMBDA two : two = SubSeq(page, 1, 2))
    /\ find_many_delivered(ThreeInstants, 2, 1, Nothing, LAMBDA last : last = SubSeq(page, 3, 3)))

find_many_delivered_filters_seen ==
  \A seen \in BOOLEAN :
    find_many_delivered(Fixture(<<With(To({me}), me, TRUE, FALSE), With(To({me}), me, FALSE, FALSE)>>),
                        all, 0, seen,
                        LAMBDA page : page # << >> /\ \A j \in DOMAIN page : page[j].seen = seen)

find_many_delivered_contains_uni_multi_and_broadcast_notifications ==
  Everything(Fixture(<<With(To({me}), me, TRUE, FALSE), With(To({}), me, FALSE, FALSE),
                       With(To({me, other}), me, FALSE, FALSE)>>),
             LAMBDA page : Len(page) = 3)

-----------------------------------------------------------------------------
(* find_many_undelivered *)

LOCAL find_many_undelivered(coll, u, Asserted(_)) ==
  \A list \in R!FindManyUndeliveredLists(coll, u, now) : Asserted(list)

find_many_undelivered_multicast_notifications ==
  LET coll == Fixture(<<To({1, 2}), To({1, 2})>>)
  IN  /\ \A u \in {1, 2} : find_many_undelivered(coll, u, LAMBDA list : Len(list) = 2)
      /\ find_many_undelivered(coll, 3, LAMBDA list : list = << >>)

find_many_undelivered_broadcast_notifications_correct_user_ids ==
  find_many_undelivered(Fixture(<<To({}), To({other}), To({})>>), me,
                        LAMBDA list : FoundIds(list) = {1, 3})

find_many_undelivered_skip_notifications_with_confirmations ==
  find_many_undelivered(
    Fixture(<<With(With(To({}), 3, TRUE, FALSE), 4, TRUE, FALSE), With(To({}), me, TRUE, FALSE),
              To({me}), With(To({me}), me, TRUE, FALSE),
              With(To({me, other}), other, TRUE, FALSE),
              With(With(To({me, other}), me, TRUE, FALSE), other, TRUE, FALSE)>>), me,
    LAMBDA list : FoundIds(list) = {1, 3, 5})

find_many_undelivered_skip_invalidated_notifications ==
  find_many_undelivered(
    Fixture(<<To({}), At(past, {}, future), At(past, {}, past),
              To({me}), At(past, {me}, future), At(past, {me}, past)>>), me,
    LAMBDA list : FoundIds(list) = {1, 2, 4, 5})

find_many_undelivered_sorted_by_created_at_asc ==
  find_many_undelivered(
    Fixture(<<At(3, {}, Nothing), At(2, {}, Nothing), At(1, {me}, Nothing), At(4, {me}, Nothing)>>), me,
    LAMBDA list : Len(list) = 4 /\ \A j \in 1..3 : list[j].created_at <= list[j + 1].created_at)

-----------------------------------------------------------------------------
(* Paging *)

\* Ids whose states say which of the documents "me" still finds, the later ids
\* being the newer documents.
LOCAL Collection(state) ==
  Fixture([i \in DOMAIN state |->
             CASE state[i] = "delivered" -> With(At(i, {}, Nothing), me, FALSE, FALSE)
               [] state[i] = "deleted"   -> With(At(i, {}, Nothing), me, FALSE, TRUE)
               [] OTHER                  -> At(i, {}, Nothing)])

\* Reference: page idx holds the documents with size * idx to size * (idx + 1) - 1
\* newer ones before them.
LOCAL OnPage(state, size, idx) ==
  {i \in DOMAIN state :
     /\ state[i] = "delivered"
     /\ Cardinality({j \in i + 1 .. Len(state) : state[j] = "delivered"}) \div size = idx}

\* find_many_delivered: on a collection nobody changes, whose documents have
\* different instants, the pages of one size cut the delivered notifications
\* into parts: each is on one page and no page holds another's.
PagesPartition ==
  \A state \in [1..4 -> {"undelivered", "delivered", "deleted"}], size \in 1..3, idx \in 0..4 :
    find_many_delivered(Collection(state), size, idx, Nothing,
                        LAMBDA page : FoundIds(page) = OnPage(state, size, idx))

\* find_many_delivered: the product page_size * page_idx wraps in u32 in the
\* build of the Dockerfile, so an index far beyond the last page answers with
\* the first page instead of an empty one.
FarPageIsFirstPage ==
  find_many_delivered(ThreeInstants, 2, 32, Nothing, LAMBDA page :
    find_many_delivered(ThreeInstants, 2, 0, Nothing, LAMBDA first : page = first /\ page # << >>))

\* find_many_delivered: documents of the same instant come in any order, so two
\* pages asked for one after the other may show one notification twice and the
\* other never.
TiesMayRepeat ==
  LET twins == Fixture(<<With(To({}), me, FALSE, FALSE), With(To({}), me, FALSE, FALSE)>>)
  IN  \E page \in R!FindManyDeliveredPages(twins, me, 1, 0, Nothing),
         next \in R!FindManyDeliveredPages(twins, me, 1, 1, Nothing) : page = next

ASSUME PagingAsRead == PagesPartition /\ FarPageIsFirstPage /\ TiesMayRepeat

-----------------------------------------------------------------------------
\* Every test of the repository passes on the model.
ASSUME RepositoryTestsPass ==
  /\ insert_correct_created_at
  /\ insert_correct_invalidate_at
  /\ insert_correct_invalidate_at_none
  /\ insert_correct_user_ids_unicast
  /\ insert_correct_user_ids_multicast
  /\ insert_correct_user_ids_empty
  /\ insert_correct_producer_id
  /\ insert_correct_producer_notification_id
  /\ insert_correct_confirmations
  /\ insert_duplicated_producer_notification
  /\ update_invalidate_at_value_updated
  /\ update_invalidate_at_the_same_value
  /\ update_invalidate_at_id_not_exist
  /\ update_invalidate_at_wrong_producer
  /\ insert_confirmation_correct_user_id
  /\ insert_confirmation_correct_notification_deleted
  /\ insert_confirmation_correct_notification_seen
  /\ insert_confirmation_already_exist
  /\ insert_confirmation_other_user_notification
  /\ insert_confirmation_multicast_notification
  /\ insert_confirmation_broadcast_notification_correct_user_id
  /\ insert_confirmation_broadcast_notification_already_exist
  /\ insert_confirmation_broadcast_notification_other_users_confirmations_exist
  /\ insert_confirmation_invalidate_at_passed
  /\ insert_confirmation_invalidate_at_not_passed
  /\ insert_many_confirmations_correct_user_id
  /\ insert_many_confirmations_correct_notification_seen
  /\ insert_many_confirmations_correct_notification_deleted
  /\ insert_many_confirmations_invalidate_at_passed
  /\ insert_many_confirmations_invalidate_at_not_passed
  /\ insert_many_confirmatons_skip_notifications_with_confirmations
  /\ update_confirmation_seen_value_changed
  /\ update_confirmation_seen_the_same_value
  /\ update_confirmation_seen_notification_not_exist
  /\ update_confirmation_seen_other_user_notification
  /\ update_confirmation_seen_confirmation_does_not_exist
  /\ update_confirmation_seen_notification_deleted
  /\ update_confirmation_seen_multicast_notification
  /\ update_confirmation_seen_broadcast_notification
  /\ update_confirmation_seen_broadcast_notification_confirmation_not_exist
  /\ update_confirmation_seen_broadcast_notification_has_multiple_confirmations
  /\ delete_notification_deleted_set_to_true
  /\ delete_confirmation_not_exist
  /\ delete_already_deleted
  /\ delete_notification_not_exist
  /\ delete_other_user_notification
  /\ delete_multicast_notification
  /\ delete_broadcast_notification
  /\ delete_broadcast_notification_confirmation_not_exist
  /\ find_delivered_correct_id
  /\ find_delivered_correct_created_at
  /\ find_delivered_correct_seen
  /\ find_delivered_mutlicast_notification_correct_seen
  /\ find_delivered_multicast_notification
  /\ find_delivered_broadcast_notification
  /\ find_delivered_notification_not_exist
  /\ find_delivered_other_user_notification
  /\ find_delivered_confirmation_not_exist
  /\ find_delivered_broadcast_notification_confirmation_not_exist
  /\ find_delivered_deleted
  /\ find_delivered_broadcast_notification_deleted
  /\ find_many_delivered_correct_user_id
  /\ find_many_delivered_skip_not_delivered
  /\ find_many_delivered_skip_deleted
  /\ find_many_delivered_sorted_by_created_at_desc
  /\ find_many_delivered_correct_pagination
  /\ find_many_delivered_filters_seen
  /\ find_many_delivered_contains_uni_multi_and_broadcast_notifications
  /\ find_many_undelivered_multicast_notifications
  /\ find_many_undelivered_broadcast_notifications_correct_user_ids
  /\ find_many_undelivered_skip_notifications_with_confirmations
  /\ find_many_undelivered_skip_invalidated_notifications
  /\ find_many_undelivered_sorted_by_created_at_asc
=============================================================================
