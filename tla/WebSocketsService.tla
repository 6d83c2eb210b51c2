------------------------- MODULE WebSocketsService -------------------------
(***************************************************************************)
(* tom-notifier-ws-delivery: the service that knows the connections of the *)
(* users of one instance (websockets_service_impl.rs), and the callback    *)
(* that confirms what they received (websocket_confirmation_callback.rs).  *)
(*                                                                         *)
(* What is done under the lock of users_connections is one step.  A        *)
(* connection is seen from outside: it receives what its sender sends, it  *)
(* answers, it ends at any time; WebSocketConnection is its inside.        *)
(***************************************************************************)
EXTENDS Integers, FiniteSets

CONSTANTS
  Users,
  Connections,    \* every websocket that is ever opened
  Notifications,  \* what the consumer sends, each once
  MaxUpdates,     \* bound on the changes of the network status
  None

ASSUME ServiceAssumption ==
  /\ \A n \in Notifications : n.user_ids \subseteq Users /\ n.new \in BOOLEAN
  /\ MaxUpdates \in Nat
  /\ None \notin Users \cup Connections \cup {"Ok", "Error"}

VARIABLES
  users_connections,  \* a sender for each user; named after its first connection
  network_status_ok,
  updating,           \* the status update_network_status stored and will send
  conn,               \* what is known of each websocket
  was_called,         \* the notifications whose callback was executed
  confirmations,      \* what was given to ConfirmationsService::send
  sent,               \* history: notifications that were sent
  dropped,            \* history: senders dropped by close_connections
  updates             \* what the bound counts

vars == <<users_connections, network_status_ok, updating, conn, was_called, confirmations,
          sent, dropped, updates>>

Statuses == {"Ok", "Error"}

\* told is the last network status that was queued as such (a notification
\* always says Ok); before is what was sent before the connection was there.
Conn == [pc       : {"new", "running", "ended", "finished"},
         user     : Users \cup {None},
         tx       : Connections \cup {None},
         told     : Statuses \cup {None},
         received : SUBSET Notifications,
         before   : SUBSET Notifications,
         answered : SUBSET Notifications]

NewConn == [pc |-> "new", user |-> None, tx |-> None, told |-> None,
            received |-> {}, before |-> {}, answered |-> {}]

TypeOK ==
  /\ DOMAIN users_connections \subseteq Users
  /\ users_connections \in [DOMAIN users_connections -> Connections]
  /\ network_status_ok \in BOOLEAN /\ updating \in Statuses \cup {None}
  /\ conn \in [Connections -> Conn]
  /\ was_called \in SUBSET Notifications
  /\ confirmations \in SUBSET (Users \X Notifications)
  /\ sent \in SUBSET Notifications /\ dropped \in SUBSET Connections
  /\ updates \in 0 .. MaxUpdates

Init ==
  /\ users_connections = [u \in {} |-> None]
  /\ network_status_ok = TRUE /\ updating = None
  /\ conn = [c \in Connections |-> NewConn]
  /\ was_called = {} /\ confirmations = {}
  /\ sent = {} /\ dropped = {} /\ updates = 0

-----------------------------------------------------------------------------
\* The receivers of a sender.
Receivers(tx) == {c \in Connections : conn[c].pc = "running" /\ conn[c].tx = tx}

\* A message with a network status only, for the receivers of some senders.
SendStatus(f, senders, status) ==
  [c \in Connections |->
     IF f[c].pc = "running" /\ f[c].tx \in senders
     THEN [f[c] EXCEPT !.told = status] ELSE f[c]]

Senders == {users_connections[u] : u \in DOMAIN users_connections}

Joined(c, u, tx) ==
  [conn EXCEPT ![c] = [NewConn EXCEPT !.pc = "running", !.user = u, !.tx = tx, !.before = sent]]

\* Mutant: every websocket gets a channel of its own.
HandleClient_Overwrites(c, u) ==
  /\ conn[c].pc = "new"
  /\ users_connections' = [v \in DOMAIN users_connections \cup {u} |->
                             IF v = u THEN c ELSE users_connections[v]]
  /\ conn' = IF network_status_ok THEN Joined(c, u, c)
             ELSE SendStatus(Joined(c, u, c), {c}, "Error")
  /\ UNCHANGED <<network_status_ok, updating, was_called, confirmations, sent, dropped, updates>>

\* Mutant: a new websocket is not told that the network is down.
HandleClient_Untold(c, u) ==
  /\ conn[c].pc = "new"
  /\ LET tx == IF u \in DOMAIN users_connections THEN users_connections[u] ELSE c
     IN /\ users_connections' = [v \in DOMAIN users_connections \cup {u} |->
                                   IF v = u THEN tx ELSE users_connections[v]]
        /\ conn' = Joined(c, u, tx)
  /\ UNCHANGED <<network_status_ok, updating, was_called, confirmations, sent, dropped, updates>>

\* handle_client: subscribe to the sender of the user or create one, and send
\* the network status if it is not Ok, to all connections of the user.
HandleClient(c, u) ==
  /\ conn[c].pc = "new"
  /\ LET tx == IF u \in DOMAIN users_connections THEN users_connections[u] ELSE c
     IN /\ users_connections' = [v \in DOMAIN users_connections \cup {u} |->
                                   IF v = u THEN tx ELSE users_connections[v]]
        /\ conn' = IF network_status_ok THEN Joined(c, u, tx)
                   ELSE SendStatus(Joined(c, u, tx), {tx}, "Error")
  /\ UNCHANGED <<network_status_ok, updating, was_called, confirmations, sent, dropped, updates>>

\* connection.run returns, for whatever reason, and drops the receiver; only
\* the task that ran it is left, which knows the user.
End(c) ==
  /\ conn[c].pc = "running"
  /\ conn' = [conn EXCEPT ![c] = [NewConn EXCEPT !.pc = "ended", !.user = conn[c].user]]
  /\ UNCHANGED <<users_connections, network_status_ok, updating, was_called, confirmations,
                 sent, dropped, updates>>

\* Mutant: the entry is kept for the next connection.
Unused_Never(u) == FALSE

Unused(u) == u \in DOMAIN users_connections /\ Receivers(users_connections[u]) = {}

\* The last connection removes the entry it finds, whoever created it.
Remove(c) ==
  /\ conn[c].pc = "ended"
  /\ conn' = [conn EXCEPT ![c] = [NewConn EXCEPT !.pc = "finished"]]
  /\ users_connections' =
       [u \in DOMAIN users_connections \ {v \in {conn[c].user} : Unused(v)} |->
          users_connections[u]]
  /\ UNCHANGED <<network_status_ok, updating, was_called, confirmations, sent, dropped, updates>>

\* Mutant: the entry stays, with its sender taken.
CloseConnections_Take(u) ==
  /\ u \in DOMAIN users_connections
  /\ dropped' = dropped \cup {users_connections[u]}
  /\ users_connections' = [users_connections EXCEPT ![u] = None]
  /\ UNCHANGED <<network_status_ok, updating, conn, was_called, confirmations, sent, updates>>

\* close_connections removes the entry and drops the sender with it.
CloseConnections(u) ==
  /\ u \in DOMAIN users_connections
  /\ dropped' = dropped \cup {users_connections[u]}
  /\ users_connections' = [v \in DOMAIN users_connections \ {u} |-> users_connections[v]]
  /\ UNCHANGED <<network_status_ok, updating, conn, was_called, confirmations, sent, updates>>

-----------------------------------------------------------------------------
\* The consumer's task calls update_network_status when it consumes, which it
\* does from the start, and when it recovers, by turns.
Status == IF updates % 2 = 0 THEN "Ok" ELSE "Error"

\* update_network_status stores the status, then sends it.
StoreStatus ==
  /\ updating = None /\ updates < MaxUpdates
  /\ network_status_ok' = (Status = "Ok")
  /\ updating' = Status
  /\ updates' = updates + 1
  /\ UNCHANGED <<users_connections, conn, was_called, confirmations, sent, dropped>>

SendUpdate ==
  /\ updating # None
  /\ conn' = SendStatus(conn, Senders, updating)
  /\ updating' = None
  /\ UNCHANGED <<users_connections, network_status_ok, was_called, confirmations, sent, dropped,
                 updates>>

\* send; without user_ids it is a broadcast.
Send(n) ==
  LET users == IF n.user_ids = {} THEN DOMAIN users_connections
               ELSE n.user_ids \cap DOMAIN users_connections
      tx == {users_connections[u] : u \in users}
  IN /\ n \notin sent
     /\ sent' = sent \cup {n}
     /\ conn' = [c \in Connections |->
                   IF conn[c].pc = "running" /\ conn[c].tx \in tx
                   THEN [conn[c] EXCEPT !.received = @ \cup {n}] ELSE conn[c]]
     /\ UNCHANGED <<users_connections, network_status_ok, updating, was_called, confirmations,
                    dropped, updates>>

\* The client answers a NEW, which has a callback, one for all who receive it;
\* an answer to any other message changes nothing here.
Answer(c, n) ==
  /\ conn[c].pc = "running" /\ n.new /\ n \in conn[c].received \ conn[c].answered
  /\ conn' = [conn EXCEPT ![c].answered = @ \cup {n}]
  /\ IF n \notin was_called
     THEN /\ was_called' = was_called \cup {n}
          /\ confirmations' = confirmations \cup {<<conn[c].user, n>>}
     ELSE UNCHANGED <<was_called, confirmations>>
  /\ UNCHANGED <<users_connections, network_status_ok, updating, sent, dropped, updates>>

Next ==
  \/ \E c \in Connections :
       \/ \E u \in Users : HandleClient(c, u)
       \/ End(c) \/ Remove(c)
       \/ \E n \in Notifications : Answer(c, n)
  \/ \E u \in Users : CloseConnections(u)
  \/ StoreStatus \/ SendUpdate
  \/ \E n \in Notifications : Send(n)

Spec == Init /\ [][Next]_vars
-----------------------------------------------------------------------------
(* Properties *)

\* A connection that was not closed by force.
Served(c) == conn[c].pc = "running" /\ conn[c].tx \notin dropped

\* README.md: a user "can be connected with many devices and each of them will
\* receive notification update": every connection has every notification for
\* its user that was sent since it was there, however others came and went.
EachDeviceReceives ==
  \A c \in Connections, n \in Notifications :
    /\ Served(c) /\ n \in sent \ conn[c].before
    /\ n.user_ids = {} \/ conn[c].user \in n.user_ids
    => n \in conn[c].received

\* What close_connections forgot stays forgotten: a notification does not reach
\* the connections it closed, and every other one is found through the map.
MapServes ==
  \A c \in Connections : conn[c].pc = "running" =>
    /\ Served(c) => /\ conn[c].user \in DOMAIN users_connections
                    /\ users_connections[conn[c].user] = conn[c].tx
    /\ ~Served(c) => conn[c].tx \notin Senders

\* An entry without receivers is on its way out: a user who left is forgotten.
NoLeak ==
  \A u \in DOMAIN users_connections :
    Receivers(users_connections[u]) = {} => \E c \in Connections : conn[c].pc = "ended" /\ conn[c].user = u

\* The map names exactly the channels of the connections it serves.
MapExact == MapServes /\ NoLeak

\* When no update is under way, the last network status a connection was sent
\* is the current one; a new connection is sent none while it is Ok.
StatusReaches ==
  updating = None =>
    \A c \in Connections : Served(c) =>
      IF network_status_ok THEN conn[c].told # "Error" ELSE conn[c].told = "Error"

\* Seen from outside, channels that the devices of a user share, entries that the
\* last of them removes and forced closes make one broadcast: no step gives a device
\* what is not for its user, withholds what is, or closes the devices of another.
Promise == INSTANCE Broadcast WITH
  Devices <- Connections,
  user    <- [c \in {d \in Connections : Served(d)} |-> conn[c].user],
  got     <- [c \in {d \in Connections : Served(d)} |-> conn[c].received]

BroadcastSpec == Promise!Spec

-----------------------------------------------------------------------------
(* What documentation says and the code does not do *)

\* README.md: "Responding to NEW notification publishes confirmation".
ResponseConfirmed ==
  \A c \in Connections, n \in Notifications :
    n \in conn[c].answered => <<conn[c].user, n>> \in confirmations
=============================================================================
