------------------------------ MODULE CoreHttp ------------------------------
(***************************************************************************)
(* What the HTTP layer of tom-notifier-core makes of a request: the        *)
(* middleware in its order, the checks of the handlers and of the service  *)
(* around the repository, and the status every outcome is turned into.     *)
(*                                                                         *)
(* The steps that change state are the actions of NotificationsService;    *)
(* these operators say in which order a request is refused before them and *)
(* what is answered and announced after them.  An Option is a set with at  *)
(* most one element.                                                       *)
(***************************************************************************)
EXTENDS JwtAuth

Role == [ProduceNotifications |-> "tom_notifier_produce_notifications"]

-----------------------------------------------------------------------------
(* service: validation and error mapping around one repository call *)

Fails(error) == [result |-> error, sent |-> {}]
Succeeds(sent) == [result |-> "Ok", sent |-> sent]

ValidateInvalidateAtNotPassed(invalidate_at, now) == \A t \in invalidate_at : t > now

ValidateContentNotTooLong(content_len, max_content_len) == content_len <= max_content_len

\* The map_err of the methods that update one document.
NotExistOrDatabase(err) ==
  IF err = "NoDocumentUpdated" THEN "NotificationNotExist" ELSE "Database"

SaveNotification(notification, max_content_len, now, insert) ==
  CASE ~ValidateInvalidateAtNotPassed(notification.invalidate_at, now) -> Fails("Validation")
    [] /\ ValidateInvalidateAtNotPassed(notification.invalidate_at, now)
       /\ ~ValidateContentNotTooLong(notification.content_len, max_content_len)
         -> Fails("ValidationNotificationTooLarge")
    [] OTHER -> CASE insert = "Ok"                    -> Succeeds({"send_new"})
                  [] insert = "InsertUniqueViolation" -> Fails("NotificationAlreadySaved")
                  [] OTHER                            -> Fails("Database")

\* found is the answer of find_many_undelivered, "Mongo" or how many there are;
\* insert_many_confirmations is called only if there are any.
FindUndeliveredNotifications(find, found, insert_many_confirmations) ==
  IF find = "Ok" /\ (found > 0 => insert_many_confirmations = "Ok")
  THEN Succeeds({})
  ELSE Fails("Database")

FindDeliveredNotifications(find) ==
  IF find = "Ok" THEN Succeeds({}) ELSE Fails("Database")

FindDeliveredNotification(find, found) ==
  IF find # "Ok" THEN Fails("Database")
  ELSE IF found THEN Succeeds({}) ELSE Fails("NotificationNotExist")

DeleteNotification(delete) ==
  IF delete = "Ok" THEN Succeeds({"send_deleted"}) ELSE Fails(NotExistOrDatabase(delete))

\* No announcement: recipients are not told of a new invalidate_at.
UpdateNotificationInvalidateAt(invalidate_at, now, update) ==
  IF ~ValidateInvalidateAtNotPassed(invalidate_at, now) THEN Fails("Validation")
  ELSE IF update = "Ok" THEN Succeeds({}) ELSE Fails(NotExistOrDatabase(update))

UpdateNotificationSeen(update) ==
  IF update = "Ok" THEN Succeeds({"send_updated"}) ELSE Fails(NotExistOrDatabase(update))

-----------------------------------------------------------------------------
(* routing *)

Routes == {"post_notifications_undelivered", "get_notifications_undelivered",
           "put_notifications_undelivered_invalidate_at", "get_notifications_delivered",
           "get_notification_delivered", "delete_notification_delivered",
           "put_notification_delivered_seen"}

\* The roles a handler requires, once its extractors have accepted the request.
RequiredRoles(route) ==
  IF route \in {"post_notifications_undelivered", "put_notifications_undelivered_invalidate_at"}
  THEN {Role.ProduceNotifications}
  ELSE {}

SuccessCode(route) ==
  IF route \in {"put_notifications_undelivered_invalidate_at",
                "delete_notification_delivered", "put_notification_delivered_seen"}
  THEN 204
  ELSE 200

\* IntoResponse for Error
IntoResponse ==
  [NotificationNotExist           |-> 404,
   Validation                     |-> 422,
   ValidationNotificationTooLarge |-> 413,
   NotificationAlreadySaved       |-> 409,
   Auth                           |-> 403,
   Database                       |-> 500]

\* A handler behind the middleware, given what the service would answer.
Handle(route, user, service) ==
  IF ~RequireAllRoles(user, RequiredRoles(route)) THEN IntoResponse.Auth
  ELSE IF service.result = "Ok" THEN SuccessCode(route)
  ELSE IntoResponse[service.result]

\* create_application: a layer added later is outside the earlier ones, so a
\* request is authorized before its length is looked at, and its parts are
\* extracted before the handler looks at the roles.  rejected is the status
\* an extractor refuses the path, the query or the body with, if one does.
Respond(route, request, auth, now, service) ==
  LET users == ParseAuthorizationHeader(request.authorization, auth, now)
  IN  IF users = {} THEN 401
      ELSE IF request.content_len > auth.max_http_content_len THEN 413
      ELSE IF request.rejected # {} THEN CHOOSE status \in request.rejected : TRUE
      ELSE Handle(route, CHOOSE user \in users : TRUE, service)
=============================================================================
