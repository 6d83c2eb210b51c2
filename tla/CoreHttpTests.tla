---------------------------- MODULE CoreHttpTests ----------------------------
(***************************************************************************)
(* The unit tests of notifications_service_impl.rs and of routing.rs,      *)
(* asked of CoreHttp, and the doc comments of the handlers.                *)
(*                                                                         *)
(* The tests of the service run it against a mocked repository and those   *)
(* of the routing against a mocked service: what the mock is told to       *)
(* answer is the last argument here.  A definition has the name of its     *)
(* test.                                                                   *)
(***************************************************************************)
EXTENDS CoreHttp

LOCAL now == 5
LOCAL passed == {1}
LOCAL future == {9}

-----------------------------------------------------------------------------
(* notifications_service_impl.rs: save_notification *)

LOCAL save(invalidate_at, content_len, max_content_len, insert) ==
  SaveNotification([invalidate_at |-> invalidate_at, content_len |-> content_len],
                   max_content_len, now, insert)

LOCAL max == 1000

save_notification_validation_invalidate_at_none_ok ==
  save({}, 40, max, "Ok") = [result |-> "Ok", sent |-> {"send_new"}]

save_notification_validation_invalidate_at_some_ok ==
  save(future, 40, max, "Ok") = [result |-> "Ok", sent |-> {"send_new"}]

save_notification_validation_invalidate_at_err ==
  save(passed, 40, max, "Ok") = [result |-> "Validation", sent |-> {}]

save_notification_validation_content_length_ok ==
  save({}, 8, 8, "Ok") = [result |-> "Ok", sent |-> {"send_new"}]

save_notification_validation_content_length_err ==
  save({}, 40, 8, "Ok") = [result |-> "ValidationNotificationTooLarge", sent |-> {}]

save_notification_already_saved ==
  save({}, 40, max, "InsertUniqueViolation") = [result |-> "NotificationAlreadySaved", sent |-> {}]

save_notification_database_error ==
  save({}, 40, max, "Mongo") = [result |-> "Database", sent |-> {}]

-----------------------------------------------------------------------------
(* notifications_service_impl.rs: the other methods *)

find_undelivered_notifications_database_error ==
  FindUndeliveredNotifications("Mongo", 0, "Ok").result = "Database"

find_undelivered_notifications_insert_confirmations_error ==
  FindUndeliveredNotifications("Ok", 1, "Mongo").result = "Database"

\* No confirmations are inserted, so their failure would not be noticed.
find_undelivered_notifications_no_notifications ==
  FindUndeliveredNotifications("Ok", 0, "Mongo").result = "Ok"

find_undelivered_notifications_ok ==
  FindUndeliveredNotifications("Ok", 2, "Ok").result = "Ok"

find_delivered_notifications_database_error ==
  FindDeliveredNotifications("Mongo").result = "Database"

find_delivered_notifications_ok ==
  FindDeliveredNotifications("Ok").result = "Ok"

find_delivered_notification_not_found ==
  FindDeliveredNotification("Ok", FALSE).result = "NotificationNotExist"

find_delivered_notification_database_error ==
  FindDeliveredNotification("Mongo", FALSE).result = "Database"

find_delivered_notification_ok ==
  FindDeliveredNotification("Ok", TRUE).result = "Ok"

delete_notification_no_document_updated ==
  DeleteNotification("NoDocumentUpdated") = [result |-> "NotificationNotExist", sent |-> {}]

delete_notification_database_error ==
  DeleteNotification("Mongo") = [result |-> "Database", sent |-> {}]

delete_notification_ok ==
  DeleteNotification("Ok") = [result |-> "Ok", sent |-> {"send_deleted"}]

update_notification_invalidate_at_invalidate_at_passed ==
  UpdateNotificationInvalidateAt(passed, now, "Ok").result = "Validation"

update_notification_invalidate_at_no_document_updated ==
  UpdateNotificationInvalidateAt({}, now, "NoDocumentUpdated").result = "NotificationNotExist"

update_notification_invalidate_at_database_error ==
  UpdateNotificationInvalidateAt({}, now, "Mongo").result = "Database"

update_notification_invalidate_at_ok ==
  UpdateNotificationInvalidateAt({}, now, "Ok") = [result |-> "Ok", sent |-> {}]

update_notification_seen_no_document_updated ==
  UpdateNotificationSeen("NoDocumentUpdated") = [result |-> "NotificationNotExist", sent |-> {}]

update_notification_seen_database_error ==
  UpdateNotificationSeen("Mongo") = [result |-> "Database", sent |-> {}]

update_notification_seen_ok ==
  UpdateNotificationSeen("Ok") = [result |-> "Ok", sent |-> {"send_updated"}]

-----------------------------------------------------------------------------
(* routing.rs *)

LOCAL consumer == [id |-> 1, roles |-> {}]
LOCAL producer == [id |-> 2, roles |-> {Role.ProduceNotifications}]

LOCAL post(who, service) == Handle("post_notifications_undelivered", who, service)
LOCAL put_invalidate_at(who, service) ==
  Handle("put_notifications_undelivered_invalidate_at", who, service)

post_notifications_undelivered_missing_role == post(consumer, Succeeds({})) = 403

post_notifications_undelivered_validation_error == post(producer, Fails("Validation")) = 422

post_notifications_undelivered_validation_notification_too_large_error ==
  post(producer, Fails("ValidationNotificationTooLarge")) = 413

post_notifications_undelivered_already_exist ==
  post(producer, Fails("NotificationAlreadySaved")) = 409

post_notifications_undelivered_database_error == post(producer, Fails("Database")) = 500

post_notifications_undelivered_success_code == post(producer, Succeeds({})) = 200

get_notifications_undelivered_database_error ==
  Handle("get_notifications_undelivered", consumer, Fails("Database")) = 500

get_notifications_undelivered_success_code ==
  Handle("get_notifications_undelivered", consumer, Succeeds({})) = 200

put_notifications_undelivered_invalidate_at_validation_error ==
  put_invalidate_at(producer, Fails("Validation")) = 422

put_notifications_undelivered_invalidate_at_missing_role ==
  put_invalidate_at(consumer, Succeeds({})) = 403

put_notifications_undelivered_invalidate_at_notification_not_exist ==
  put_invalidate_at(producer, Fails("NotificationNotExist")) = 404

put_notifications_undelivered_invalidate_at_database_error ==
  put_invalidate_at(producer, Fails("Database")) = 500

put_notifications_undelivered_invalidate_at_success_code ==
  put_invalidate_at(producer, Succeeds({})) = 204

get_notifications_delivered_database_error ==
  Handle("get_notifications_delivered", consumer, Fails("Database")) = 500

get_notifications_delivered_success_code ==
  Handle("get_notifications_delivered", consumer, Succeeds({})) = 200

get_notification_delivered_not_exist ==
  Handle("get_notification_delivered", consumer, Fails("NotificationNotExist")) = 404

get_notification_delivered_database_error ==
  Handle("get_notification_delivered", consumer, Fails("Database")) = 500

get_notification_delivered_success_code ==
  Handle("get_notification_delivered", consumer, Succeeds({})) = 200

delete_notification_delivered_notification_not_exist ==
  Handle("delete_notification_delivered", consumer, Fails("NotificationNotExist")) = 404

delete_notification_delivered_database_error ==
  Handle("delete_notification_delivered", consumer, Fails("Database")) = 500

delete_notification_delivered_success_code ==
  Handle("delete_notification_delivered", consumer, Succeeds({"send_deleted"})) = 204

put_notification_delivered_seen_notification_not_exist ==
  Handle("put_notification_delivered_seen", consumer, Fails("NotificationNotExist")) = 404

put_notification_delivered_seen_database_error ==
  Handle("put_notification_delivered_seen", consumer, Fails("Database")) = 500

put_notification_delivered_seen_success_code ==
  Handle("put_notification_delivered_seen", consumer, Succeeds({"send_updated"})) = 204

-----------------------------------------------------------------------------
(* The doc comments of the handlers *)

\* The statuses each doc comment lists.  400 is what an extractor answers.
Documented ==
  [post_notifications_undelivered              |-> {200, 400, 403, 409, 413, 422},
   get_notifications_undelivered               |-> {200},
   put_notifications_undelivered_invalidate_at |-> {204, 403, 404, 422},
   get_notifications_delivered                 |-> {200},
   get_notification_delivered                  |-> {200, 404},
   delete_notification_delivered               |-> {204, 404},
   put_notification_delivered_seen             |-> {204, 404}]

\* What the service may answer a handler with, whatever the repository does.
LOCAL Answers(route) ==
  LET repository == {"Ok", "NoDocumentUpdated", "Mongo"}
  IN  CASE route = "post_notifications_undelivered" ->
             {save(e, len, 8, insert) : e \in {{}, passed, future}, len \in {8, 9},
                                        insert \in {"Ok", "InsertUniqueViolation", "Mongo"}}
        [] route = "get_notifications_undelivered" ->
             {FindUndeliveredNotifications(find, found, confirm) :
                find \in {"Ok", "Mongo"}, found \in 0..1, confirm \in {"Ok", "Mongo"}}
        [] route = "put_notifications_undelivered_invalidate_at" ->
             {UpdateNotificationInvalidateAt(e, now, update) :
                e \in {{}, passed, future}, update \in repository}
        [] route = "get_notifications_delivered" ->
             {FindDeliveredNotifications(find) : find \in {"Ok", "Mongo"}}
        [] route = "get_notification_delivered" ->
             {FindDeliveredNotification(find, found) : find \in {"Ok", "Mongo"}, found \in BOOLEAN}
        [] route = "delete_notification_delivered" -> {DeleteNotification(r) : r \in repository}
        [] route = "put_notification_delivered_seen" -> {UpdateNotificationSeen(r) : r \in repository}

\* routing.rs: every status a doc comment lists for a handler can be answered,
\* and a handler answers nothing else than those and 500.
AnswersAsDocumented ==
  \A route \in Routes :
    {Handle(route, who, service) : who \in {consumer, producer}, service \in Answers(route)}
      = (Documented[route] \ {400}) \cup {500}

LOCAL limits == [algorithms |-> {"HS256"}, key |-> "some secret", max_http_content_len |-> 100]

LOCAL by_consumer ==
  {[legal |-> TRUE, type |-> "Bearer",
    token |-> [jwt |-> TRUE, algorithm |-> "HS256", key |-> "some secret", exp |-> 9,
               sub |-> 1, roles |-> {}]]}

\* application.rs: without a valid token nothing else is looked at, and a body
\* that is too long is refused before anything is read from it.
RefusedInOrder ==
  \A route \in Routes, len \in {0, 101}, rejected \in {{}, {400}, {422}} :
    LET request(h) == [authorization |-> h, content_len |-> len, rejected |-> rejected]
        answer(h)  == Respond(route, request(h), limits, now, Succeeds({}))
    IN  /\ answer({}) = 401
        /\ len = 101 => answer(by_consumer) = 413
        /\ len = 0 => answer(by_consumer) =
                        IF rejected # {} THEN CHOOSE status \in rejected : TRUE
                        ELSE IF RequiredRoles(route) # {} THEN 403 ELSE SuccessCode(route)

-----------------------------------------------------------------------------
\* Every test passes on the model, and the doc comments are right.
ASSUME HttpTestsPass ==
  /\ save_notification_validation_invalidate_at_none_ok
  /\ save_notification_validation_invalidate_at_some_ok
  /\ save_notification_validation_invalidate_at_err
  /\ save_notification_validation_content_length_ok
  /\ save_notification_validation_content_length_err
  /\ save_notification_already_saved
  /\ save_notification_database_error
  /\ find_undelivered_notifications_database_error
  /\ find_undelivered_notifications_insert_confirmations_error
  /\ find_undelivered_notifications_no_notifications
  /\ find_undelivered_notifications_ok
  /\ find_delivered_notifications_database_error
  /\ find_delivered_notifications_ok
  /\ find_delivered_notification_not_found
  /\ find_delivered_notification_database_error
  /\ find_delivered_notification_ok
  /\ delete_notification_no_document_updated
  /\ delete_notification_database_error
  /\ delete_notification_ok
  /\ update_notification_invalidate_at_invalidate_at_passed
  /\ update_notification_invalidate_at_no_document_updated
  /\ update_notification_invalidate_at_database_error
  /\ update_notification_invalidate_at_ok
  /\ update_notification_seen_no_document_updated
  /\ update_notification_seen_database_error
  /\ update_notification_seen_ok
  /\ post_notifications_undelivered_missing_role
  /\ post_notifications_undelivered_validation_error
  /\ post_notifications_undelivered_validation_notification_too_large_error
  /\ post_notifications_undelivered_already_exist
  /\ post_notifications_undelivered_database_error
  /\ post_notifications_undelivered_success_code
  /\ get_notifications_undelivered_database_error
  /\ get_notifications_undelivered_success_code
  /\ put_notifications_undelivered_invalidate_at_validation_error
  /\ put_notifications_undelivered_invalidate_at_missing_role
  /\ put_notifications_undelivered_invalidate_at_notification_not_exist
  /\ put_notifications_undelivered_invalidate_at_database_error
  /\ put_notifications_undelivered_invalidate_at_success_code
  /\ get_notifications_delivered_database_error
  /\ get_notifications_delivered_success_code
  /\ get_notification_delivered_not_exist
  /\ get_notification_delivered_database_error
  /\ get_notification_delivered_success_code
  /\ delete_notification_delivered_notification_not_exist
  /\ delete_notification_delivered_database_error
  /\ delete_notification_delivered_success_code
  /\ put_notification_delivered_seen_notification_not_exist
  /\ put_notification_delivered_seen_database_error
  /\ put_notification_delivered_seen_success_code
  /\ AnswersAsDocumented
  /\ RefusedInOrder
==============================================================================
