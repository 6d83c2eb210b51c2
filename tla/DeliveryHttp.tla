---------------------------- MODULE DeliveryHttp ----------------------------
(***************************************************************************)
(* What tom-notifier-ws-delivery makes of a request: the tickets service   *)
(* around the answers of its repository, the routes with and without       *)
(* authorization, and the status every outcome is turned into.             *)
(*                                                                         *)
(* The steps that change tickets are the actions of Tickets; here the      *)
(* methods of the repository are functions of the collection, which is     *)
(* what their tests look at.  An Option is a set with at most one element. *)
(***************************************************************************)
EXTENDS JwtAuth

AdminRole == "tom_notifier_admin"

-----------------------------------------------------------------------------
(* tickets_repository_impl.rs: a function of the tickets, and its result *)

Insert(collection, ticket, user_id, issued_at, expire_at) ==
  IF ticket \in DOMAIN collection
  THEN [tickets |-> collection, result |-> "InsertUniqueViolation"]
  ELSE [tickets |-> [t \in DOMAIN collection \cup {ticket} |->
                       IF t = ticket
                       THEN [user_id |-> user_id, issued_at |-> issued_at,
                             expire_at |-> expire_at, used_at |-> {}]
                       ELSE collection[t]],
        result  |-> "Ok"]

Find(collection, ticket) == {collection[t] : t \in {ticket} \cap DOMAIN collection}

UpdateUsed(collection, ticket, used_at) ==
  IF ticket \in DOMAIN collection /\ collection[ticket].used_at = {}
  THEN [tickets |-> [collection EXCEPT ![ticket].used_at = {used_at}], result |-> "Ok"]
  ELSE [tickets |-> collection, result |-> "NoDocumentUpdated"]

-----------------------------------------------------------------------------
(* tickets_service_impl.rs: what is answered for the repository's answers *)

\* Even a ticket that is not unique is an error of the database.
CreateTicket(insert) == IF insert = "Ok" THEN "Ok" ELSE "Database"

\* find is "Mongo" or "Ok" with the tickets found, none or one.
ConsumeTicket(find, found, now, update) ==
  IF find # "Ok" THEN "Database"
  ELSE IF \A ticket \in found : ticket.used_at # {} \/ ticket.expire_at < now THEN "TicketInvalid"
  ELSE CASE update = "Ok"                -> "Ok"
         [] update = "NoDocumentUpdated" -> "TicketInvalid"
         [] OTHER                        -> "Database"

-----------------------------------------------------------------------------
(* routing.rs and error.rs *)

IntoResponse == [Auth |-> 403, Database |-> 500, TicketInvalid |-> 401, Duplicate |-> 409]

get_ticket(create) == IF create = "Ok" THEN 200 ELSE IntoResponse[create]

\* The status, and the users whose connections are closed.
delete_connection(user, user_id) ==
  IF RequireAllRoles(user, {AdminRole})
  THEN [status |-> 204, closed |-> {user_id}]
  ELSE [status |-> IntoResponse.Auth, closed |-> {}]

\* The status, 101 when the websocket is opened.
websocket_upgrade(consume) == IF consume = "Ok" THEN 101 ELSE IntoResponse[consume]

\* routing: the layer is added after two routes and does not cover the third,
\* which the ticket alone opens.
Respond(route, headers, auth, now, answer) ==
  IF route # "websocket_upgrade" /\ ParseAuthorizationHeader(headers, auth, now) = {}
  THEN 401 ELSE answer

-----------------------------------------------------------------------------
(* The unit tests of tickets_repository_impl.rs *)

LOCAL none == [t \in {} |-> {}]
LOCAL one  == Insert(none, "t", "u", 1, 4).tickets
LOCAL used == UpdateUsed(one, "t", 2).tickets

insert_values_unchanged ==
  Find(one, "t") = {[user_id |-> "u", issued_at |-> 1, expire_at |-> 4, used_at |-> {}]}

insert_unique_ticket == Insert(one, "t", "v", 6, 9).result = "InsertUniqueViolation"

find_exist == Find(one, "t") # {}

find_not_exist == Find(none, "t") = {}

update_used_at_value_changed == \A ticket \in Find(used, "t") : ticket.used_at = {2}

update_used_at_already_non_null == UpdateUsed(used, "t", 3).result = "NoDocumentUpdated"

update_used_at_not_exist == UpdateUsed(none, "t", 2).result = "NoDocumentUpdated"

-----------------------------------------------------------------------------
(* The unit tests of tickets_service_impl.rs *)

LOCAL consume(ticket, update) == ConsumeTicket("Ok", {ticket}, 5, update)
LOCAL valid == [user_id |-> "u", issued_at |-> 1, expire_at |-> 9, used_at |-> {}]

create_ticket_insert_unique_violation == CreateTicket("InsertUniqueViolation") = "Database"

create_ticket_database_error == CreateTicket("Mongo") = "Database"

consume_ticket_not_exist == ConsumeTicket("Ok", {}, 5, "Ok") = "TicketInvalid"

consume_ticket_find_database_error == ConsumeTicket("Mongo", {}, 5, "Ok") = "Database"

consume_ticket_already_used == consume([valid EXCEPT !.used_at = {2}], "Ok") = "TicketInvalid"

consume_ticket_already_expired == consume([valid EXCEPT !.expire_at = 4], "Ok") = "TicketInvalid"

consume_ticket_used_at_updated == consume(valid, "Ok") = "Ok"

consume_ticket_no_document_updated == consume(valid, "NoDocumentUpdated") = "TicketInvalid"

consume_ticket_update_database_error == consume(valid, "Mongo") = "Database"

-----------------------------------------------------------------------------
(* The unit tests of routing.rs *)

get_ticket_200 == get_ticket("Ok") = 200

get_ticket_database_error == get_ticket("Database") = 500

delete_connection_403 == delete_connection([id |-> 1, roles |-> {}], 2).status = 403

delete_connection_204 ==
  delete_connection([id |-> 1, roles |-> {AdminRole}], 2) = [status |-> 204, closed |-> {2}]

websocket_upgrade_ticket_invalid == websocket_upgrade("TicketInvalid") = 401

websocket_upgrade_ticket_consume_database_error == websocket_upgrade("Database") = 500

\* Every test of tickets and of the routes passes on the model.
ASSUME DeliveryTestsPass ==
  /\ insert_values_unchanged /\ insert_unique_ticket /\ find_exist /\ find_not_exist
  /\ update_used_at_value_changed /\ update_used_at_already_non_null /\ update_used_at_not_exist
  /\ create_ticket_insert_unique_violation /\ create_ticket_database_error
  /\ consume_ticket_not_exist /\ consume_ticket_find_database_error
  /\ consume_ticket_already_used /\ consume_ticket_already_expired
  /\ consume_ticket_used_at_updated /\ consume_ticket_no_document_updated
  /\ consume_ticket_update_database_error
  /\ get_ticket_200 /\ get_ticket_database_error /\ delete_connection_403 /\ delete_connection_204
  /\ websocket_upgrade_ticket_invalid /\ websocket_upgrade_ticket_consume_database_error

\* Without a bearer only the route of the websockets answers anything but 401.
ASSUME WebsocketsNeedATicketOnly ==
  \A route \in {"get_ticket", "delete_connection", "websocket_upgrade"} :
    LET auth == [algorithms |-> {"HS256"}, key |-> "some secret"]
    IN Respond(route, {}, auth, 5, 101) = 101 <=> route = "websocket_upgrade"
=============================================================================
