------------------------------ MODULE Tickets ------------------------------
(***************************************************************************)
(* tom-notifier-ws-delivery: the tickets that open websocket connections   *)
(* (tickets_service_impl.rs over tickets_repository_impl.rs), called by    *)
(* the routes get_ticket and websocket_upgrade of routing.rs.              *)
(*                                                                         *)
(* A request is one handler of any instance.  It stops at every await of   *)
(* the database and may be cut there.  A ticket is the random string a     *)
(* client was given: one that was never issued is refused at once and      *)
(* changes nothing.                                                        *)
(***************************************************************************)
EXTENDS Integers

CONSTANTS
  TicketIds,  \* the values Uuid::new_v4 gives
  Users,
  Requests,
  None,       \* Option::None
  Lifespan,   \* ticket_lifespan
  MaxTime     \* bound on the clock

ASSUME TicketsAssumption ==
  /\ Lifespan \in Nat
  /\ MaxTime \in Nat
  /\ None \notin Nat

VARIABLES
  tickets,  \* the collection: a function on the tickets that were inserted
  clock,
  request   \* the local variables of each request

vars == <<tickets, clock, request>>

Ticket == [user_id : Users, issued_at : Nat, expire_at : Nat, used_at : Nat \cup {None}]

\* "upgraded" is answered with a websocket, "refused" with 401.
Request ==
  [pc      : {"new", "insert", "find", "use", "issued", "upgraded", "refused", "failed"},
   ticket  : TicketIds \cup {None},
   user_id : Users \cup {None},
   now     : Nat]              \* what the request last read from the clock

NewRequest == [pc |-> "new", ticket |-> None, user_id |-> None, now |-> 0]

TypeOK ==
  /\ DOMAIN tickets \subseteq TicketIds
  /\ tickets \in [DOMAIN tickets -> Ticket]
  /\ clock \in Nat
  /\ request \in [Requests -> Request]

Init ==
  /\ tickets = [t \in {} |-> None]
  /\ clock = 0
  /\ request = [r \in Requests |-> NewRequest]

-----------------------------------------------------------------------------
(* GET api/v1/ticket *)

\* Mutant: the user the ticket is for is not passed on.
GetTicket_Anonymous(r, u) ==
  /\ request[r].pc = "new"
  /\ request' = [request EXCEPT ![r] =
                   [pc |-> "insert", ticket |-> None, user_id |-> None, now |-> clock]]
  /\ UNCHANGED <<tickets, clock>>

GetTicket(r, u) ==
  /\ request[r].pc = "new"
  /\ request' = [request EXCEPT ![r] =
                   [pc |-> "insert", ticket |-> None, user_id |-> u, now |-> clock]]
  /\ UNCHANGED <<tickets, clock>>

InsertTicket(r, t) ==
  /\ request[r].pc = "insert" /\ t \notin DOMAIN tickets
  /\ tickets' = [s \in DOMAIN tickets \cup {t} |->
                   IF s = t THEN [user_id   |-> request[r].user_id,
                                  issued_at |-> request[r].now,
                                  expire_at |-> request[r].now + Lifespan,
                                  used_at   |-> None]
                            ELSE tickets[s]]
  /\ request' = [request EXCEPT ![r].pc = "issued"]
  /\ UNCHANGED clock

-----------------------------------------------------------------------------
(* GET ws/v1 *)

WebsocketUpgrade(r, t) ==
  /\ request[r].pc = "new" /\ t \in DOMAIN tickets
  /\ request' = [request EXCEPT ![r] =
                   [pc |-> "find", ticket |-> t, user_id |-> None, now |-> clock]]
  /\ UNCHANGED <<tickets, clock>>

\* Mutant: the ticket is taken for valid until it was used.
Expired_Never(ticket, now) == FALSE

Expired(ticket, now) == ticket.expire_at < now

\* find returned the ticket; the checks and the next query follow at once.
FindTicket(r) ==
  LET ticket == tickets[request[r].ticket]
  IN /\ request[r].pc = "find"
     /\ request' = [request EXCEPT ![r] =
          [pc      |-> IF ticket.used_at # None \/ Expired(ticket, clock) THEN "refused" ELSE "use",
           ticket  |-> request[r].ticket,
           user_id |-> ticket.user_id,
           now     |-> clock]]
     /\ UNCHANGED <<tickets, clock>>

\* Mutant: the update names the ticket only, as it was found unused.
Usable_Found(ticket) == TRUE

\* The filter of update_used_at.
Usable(ticket) == ticket.used_at = None

\* The update decides, not what find returned; Ok starts the websocket.
UpdateUsedAt(r) ==
  LET t == request[r].ticket
  IN /\ request[r].pc = "use"
     /\ IF Usable(tickets[t])
        THEN /\ tickets' = [tickets EXCEPT ![t].used_at = request[r].now]
             /\ request' = [request EXCEPT ![r].pc = "upgraded"]
        ELSE /\ request' = [request EXCEPT ![r].pc = "refused"]
             /\ UNCHANGED tickets
     /\ UNCHANGED clock

-----------------------------------------------------------------------------
\* A request is cut at its await: the query fails, before or after it had its
\* effect, or the client is gone.  A ticket inserted without an answer is known
\* to nobody, as if it had not been.
Cut(r) ==
  /\ request[r].pc \in {"insert", "find", "use"}
  /\ request' = [request EXCEPT ![r].pc = "failed"]
  /\ \/ UNCHANGED tickets
     \/ /\ request[r].pc = "use" /\ Usable(tickets[request[r].ticket])
        /\ tickets' = [tickets EXCEPT ![request[r].ticket].used_at = request[r].now]
  /\ UNCHANGED clock

Tick == clock < MaxTime /\ clock' = clock + 1 /\ UNCHANGED <<tickets, request>>

Advance(r) ==
  \/ \E t \in TicketIds : InsertTicket(r, t)
  \/ FindTicket(r) \/ UpdateUsedAt(r) \/ Cut(r)

Arrive(r) ==
  \/ \E u \in Users : GetTicket(r, u)
  \/ \E t \in TicketIds : WebsocketUpgrade(r, t)

Next == Tick \/ \E r \in Requests : Arrive(r) \/ Advance(r)

Spec == Init /\ [][Next]_vars
-----------------------------------------------------------------------------
(* Properties *)

\* A ticket opens one websocket at most, though any number of upgrades, on any
\* instances, find it unused at the same time.
SingleUse ==
  \A r, q \in Requests :
    /\ request[r].pc = "upgraded" /\ request[q].pc = "upgraded"
    /\ request[r].ticket = request[q].ticket
    => r = q

Dated(ticket) ==
  ticket.used_at # None =>
    ticket.issued_at <= ticket.used_at /\ ticket.used_at <= ticket.expire_at

\* A websocket is opened only for the user the ticket was issued to, with a
\* ticket marked as used no later than it expires and no earlier than it was
\* issued, though the check and the marking are two queries.
UsedInTime ==
  /\ \A t \in DOMAIN tickets : Dated(tickets[t])
  /\ \A r \in Requests : request[r].pc = "upgraded" =>
       /\ tickets[request[r].ticket].used_at = request[r].now
       /\ tickets[request[r].ticket].user_id = request[r].user_id

-----------------------------------------------------------------------------
(* The facts about requests that make the above inductive *)

\* What a request found is still true of its ticket, but for used_at.
RequestFits(r) ==
  LET q == request[r] IN
  /\ q.now <= clock
  /\ q.pc = "insert" => q.user_id \in Users
  /\ q.pc \in {"find", "use", "upgraded"} => q.ticket \in DOMAIN tickets
  /\ q.pc \in {"use", "upgraded"} =>
       /\ q.user_id = tickets[q.ticket].user_id
       /\ tickets[q.ticket].issued_at <= q.now
       /\ q.now <= tickets[q.ticket].expire_at
  /\ q.pc = "upgraded" => tickets[q.ticket].used_at = q.now

RequestsFit ==
  /\ \A r \in Requests : RequestFits(r)
  /\ \A t \in DOMAIN tickets : tickets[t].issued_at <= clock /\ Dated(tickets[t])
=============================================================================
