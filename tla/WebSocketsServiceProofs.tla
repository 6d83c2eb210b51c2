---------------------- MODULE WebSocketsServiceProofs ----------------------
(***************************************************************************)
(* The connections of the users of one instance, for any number of users,  *)
(* websockets and notifications: the map names exactly the channels of the *)
(* websockets it serves, each of them receives what is sent for its user   *)
(* and nothing else, so that the service implements Broadcast, and each    *)
(* knows the network status.                                               *)
(*                                                                         *)
(* MapExact is not inductive.  That a websocket left by close_connections  *)
(* is never found again needs that a channel is in the map for one user    *)
(* only and that a dropped one does not return; both rest on the fact that *)
(* a new channel is new, which the code has from broadcast::channel and    *)
(* the model from its name.                                                *)
(***************************************************************************)
EXTENDS WebSocketsService, TLAPS

-----------------------------------------------------------------------------
(* The inductive invariant *)

Running(c) == conn[c].pc = "running"

\* The channel named after a websocket that is not there yet was never used.
NewIsFresh ==
  \A c \in Connections : conn[c].pc = "new" =>
    /\ c \notin dropped \cup Senders
    /\ \A d \in Connections : Running(d) => conn[d].tx # c

\* A channel is the channel of one user.
OneUserEach ==
  \A u, v \in DOMAIN users_connections :
    users_connections[u] = users_connections[v] => u = v

\* A dropped sender is not in the map.
DroppedIsGone == Senders \cap dropped = {}

\* A running websocket has a user and a channel.
RunningIsKnown ==
  \A c \in Connections : Running(c) => conn[c].user \in Users /\ conn[c].tx \in Connections

Structure == NewIsFresh /\ OneUserEach /\ DroppedIsGone /\ RunningIsKnown /\ MapServes /\ NoLeak

\* The stored status is the one that is still to be sent.
StatusAgrees == updating # None => (network_status_ok <=> updating = "Ok")

\* What every operation of the service preserves.
IInv == TypeOK /\ Structure /\ EachDeviceReceives /\ StatusAgrees /\ StatusReaches

-----------------------------------------------------------------------------
(* What the operations do to the fields the structure is about *)

\* g is f with other messages received: who is connected, and where, is the same.
SameLinks(f, g) ==
  \A c \in Connections : g[c].pc = f[c].pc /\ g[c].user = f[c].user /\ g[c].tx = f[c].tx

LEMMA ConnTyped ==
  ASSUME TypeOK, NEW c \in Connections
  PROVE  /\ conn[c] \in Conn
         /\ conn[c].user \in Users \cup {None}
         /\ conn[c].tx \in Connections \cup {None}
         /\ conn[c].received \subseteq Notifications
         /\ conn[c].before \subseteq Notifications
         /\ conn[c].answered \subseteq Notifications
BY DEF TypeOK, Conn

LEMMA NewConnTyped == NewConn \in Conn
BY DEF NewConn, Conn

LEMMA SendersTyped ==
  ASSUME TypeOK
  PROVE  /\ Senders \subseteq Connections
         /\ \A u \in DOMAIN users_connections : users_connections[u] \in Senders
BY DEF TypeOK, Senders

\* A status changes what a websocket was told, and nothing else of it.
LEMMA SendStatusChanges ==
  ASSUME NEW f \in [Connections -> Conn], NEW S, NEW status \in Statuses
  PROVE  /\ SendStatus(f, S, status) \in [Connections -> Conn]
         /\ SameLinks(f, SendStatus(f, S, status))
         /\ \A c \in Connections :
              /\ SendStatus(f, S, status)[c].received = f[c].received
              /\ SendStatus(f, S, status)[c].before = f[c].before
              /\ SendStatus(f, S, status)[c].told =
                   IF f[c].pc = "running" /\ f[c].tx \in S THEN status ELSE f[c].told
<1> DEFINE g == SendStatus(f, S, status)
<1>1. ASSUME NEW c \in Connections
      PROVE  /\ g[c] \in Conn
             /\ g[c].pc = f[c].pc /\ g[c].user = f[c].user /\ g[c].tx = f[c].tx
             /\ g[c].received = f[c].received /\ g[c].before = f[c].before
             /\ g[c].told = IF f[c].pc = "running" /\ f[c].tx \in S THEN status
                            ELSE f[c].told
  <2>1. f[c] \in Conn
    OBVIOUS
  <2>2. g[c] = IF f[c].pc = "running" /\ f[c].tx \in S
               THEN [f[c] EXCEPT !.told = status] ELSE f[c]
    BY DEF SendStatus
  <2> QED  BY <2>1, <2>2 DEF Conn
<1>2. g \in [Connections -> Conn]
  <2>1. g = [c \in Connections |-> g[c]]
    BY DEF SendStatus
  <2> QED  BY <1>1, <2>1
<1> QED  BY <1>1, <1>2 DEF SameLinks

\* A websocket that joins is the only one that changes.
LEMMA JoinedChanges ==
  ASSUME TypeOK, NEW c \in Connections, NEW u \in Users, NEW tx \in Connections
  PROVE  /\ Joined(c, u, tx) \in [Connections -> Conn]
         /\ Joined(c, u, tx)[c].pc = "running"
         /\ Joined(c, u, tx)[c].user = u
         /\ Joined(c, u, tx)[c].tx = tx
         /\ Joined(c, u, tx)[c].before = sent
         /\ Joined(c, u, tx)[c].received = {}
         /\ Joined(c, u, tx)[c].told = None
         /\ \A d \in Connections \ {c} : Joined(c, u, tx)[d] = conn[d]
<1> DEFINE q == [NewConn EXCEPT !.pc = "running", !.user = u, !.tx = tx, !.before = sent]
<1>1. /\ q \in Conn
      /\ q.pc = "running" /\ q.user = u /\ q.tx = tx /\ q.before = sent /\ q.told = None
      /\ q.received = {}
  BY DEF NewConn, Conn, TypeOK
<1>2. Joined(c, u, tx) = [conn EXCEPT ![c] = q]
  BY DEF Joined
<1> HIDE DEF q
<1> QED  BY <1>1, <1>2 DEF TypeOK

\* handle_client: the websocket has the channel of its user, and no other moves.
HandleClientDoes(c, u, tx) ==
  /\ tx = IF u \in DOMAIN users_connections THEN users_connections[u] ELSE c
  /\ DOMAIN users_connections' = DOMAIN users_connections \cup {u}
  /\ users_connections'[u] = tx
  /\ \A v \in DOMAIN users_connections : users_connections'[v] = users_connections[v]
  /\ users_connections' \in [DOMAIN users_connections' -> Connections]
  /\ Senders' = Senders \cup {tx}
  /\ conn' \in [Connections -> Conn]
  /\ conn'[c].pc = "running" /\ conn'[c].user = u /\ conn'[c].tx = tx
  /\ conn'[c].before = sent /\ conn'[c].received = {}
  /\ network_status_ok => conn'[c].told = None
  /\ ~network_status_ok => conn'[c].told = "Error"
  /\ \A d \in Connections \ {c} :
       /\ conn'[d].pc = conn[d].pc
       /\ conn'[d].user = conn[d].user
       /\ conn'[d].tx = conn[d].tx
       /\ conn'[d].received = conn[d].received
       /\ conn'[d].before = conn[d].before
       /\ network_status_ok => conn'[d].told = conn[d].told
       /\ ~network_status_ok => conn'[d].told \in {conn[d].told, "Error"}

LEMMA HandleClientChanges ==
  ASSUME TypeOK, NEW c \in Connections, NEW u \in Users, HandleClient(c, u)
  PROVE  \E tx \in Connections : HandleClientDoes(c, u, tx)
<1> DEFINE tx == IF u \in DOMAIN users_connections THEN users_connections[u] ELSE c
           j == Joined(c, u, tx)
<1>1. tx \in Connections
  BY DEF TypeOK
<1>2. users_connections' = [v \in DOMAIN users_connections \cup {u} |->
                              IF v = u THEN tx ELSE users_connections[v]]
  BY DEF HandleClient
<1>3. /\ DOMAIN users_connections' = DOMAIN users_connections \cup {u}
      /\ users_connections'[u] = tx
      /\ \A v \in DOMAIN users_connections : users_connections'[v] = users_connections[v]
  BY <1>2
<1>4. /\ users_connections' \in [DOMAIN users_connections' -> Connections]
      /\ Senders' = Senders \cup {tx}
  BY <1>1, <1>2, <1>3 DEF TypeOK, Senders
<1>5. conn' = IF network_status_ok THEN j ELSE SendStatus(j, {tx}, "Error")
  BY DEF HandleClient
<1>6. /\ j \in [Connections -> Conn]
      /\ j[c].pc = "running" /\ j[c].user = u /\ j[c].tx = tx
      /\ j[c].before = sent /\ j[c].received = {} /\ j[c].told = None
      /\ \A d \in Connections \ {c} : j[d] = conn[d]
  <2> HIDE DEF tx
  <2> QED  BY <1>1, JoinedChanges
<1> HIDE DEF tx, j
<1>7. CASE network_status_ok
  <2>1. conn' = j
    BY <1>5, <1>7
  <2> QED  BY <1>1, <1>3, <1>4, <1>6, <1>7, <2>1 DEF tx, HandleClientDoes
<1>8. CASE ~network_status_ok
  <2>1. conn' = SendStatus(j, {tx}, "Error")
    BY <1>5, <1>8
  <2>2. /\ conn' \in [Connections -> Conn]
        /\ SameLinks(j, conn')
        /\ \A d \in Connections :
             /\ conn'[d].received = j[d].received
             /\ conn'[d].before = j[d].before
             /\ conn'[d].told = IF j[d].pc = "running" /\ j[d].tx \in {tx} THEN "Error"
                                ELSE j[d].told
    BY <1>6, <2>1, SendStatusChanges DEF Statuses
  <2> QED  BY <1>1, <1>3, <1>4, <1>6, <1>8, <2>2 DEF tx, SameLinks, HandleClientDoes
<1> QED  BY <1>7, <1>8

\* The other websockets of the user are only told the status.
LEMMA HandleClientOthers ==
  ASSUME TypeOK, NEW c \in Connections, NEW u \in Users, HandleClient(c, u),
         NEW d \in Connections, d # c
  PROVE  /\ conn'[d].pc = conn[d].pc
         /\ conn'[d].user = conn[d].user
         /\ conn'[d].tx = conn[d].tx
         /\ conn'[d].received = conn[d].received
         /\ conn'[d].before = conn[d].before
         /\ network_status_ok => conn'[d].told = conn[d].told
         /\ ~network_status_ok => conn'[d].told \in {conn[d].told, "Error"}
<1>1. PICK tx \in Connections :
        \A e \in Connections \ {c} :
          /\ conn'[e].pc = conn[e].pc
          /\ conn'[e].user = conn[e].user
          /\ conn'[e].tx = conn[e].tx
          /\ conn'[e].received = conn[e].received
          /\ conn'[e].before = conn[e].before
          /\ network_status_ok => conn'[e].told = conn[e].told
          /\ ~network_status_ok => conn'[e].told \in {conn[e].told, "Error"}
  BY HandleClientChanges DEF HandleClientDoes
<1> QED  BY <1>1

\* connection.run returns.
LEMMA EndChanges ==
  ASSUME TypeOK, NEW c \in Connections, End(c)
  PROVE  /\ conn' \in [Connections -> Conn]
         /\ Running(c) /\ conn'[c].pc = "ended" /\ conn'[c].user = conn[c].user
         /\ \A d \in Connections \ {c} : conn'[d] = conn[d]
<1> DEFINE q == [NewConn EXCEPT !.pc = "ended", !.user = conn[c].user]
<1>1. q \in Conn /\ q.pc = "ended" /\ q.user = conn[c].user
  BY ConnTyped DEF NewConn, Conn
<1>2. Running(c) /\ conn' = [conn EXCEPT ![c] = q]
  BY DEF End, Running
<1> HIDE DEF q
<1> QED  BY <1>1, <1>2 DEF TypeOK

\* The task of a websocket that ended is over; the map lost the entry of its
\* user if nobody receives from it.
LEMMA RemoveChanges ==
  ASSUME TypeOK, NEW c \in Connections, Remove(c)
  PROVE  /\ conn' \in [Connections -> Conn]
         /\ conn[c].pc = "ended" /\ conn'[c].pc = "finished"
         /\ \A d \in Connections \ {c} : conn'[d] = conn[d]
         /\ users_connections' \in [DOMAIN users_connections' -> Connections]
         /\ \A u : u \in DOMAIN users_connections' <=>
              u \in DOMAIN users_connections /\ ~(u = conn[c].user /\ Unused(u))
         /\ \A u \in DOMAIN users_connections' : users_connections'[u] = users_connections[u]
         /\ Senders' \subseteq Senders
<1> DEFINE q == [NewConn EXCEPT !.pc = "finished"]
<1>1. q \in Conn /\ q.pc = "finished"
  BY DEF NewConn, Conn
<1>2. conn[c].pc = "ended" /\ conn' = [conn EXCEPT ![c] = q]
  BY DEF Remove
<1>3. users_connections' =
        [u \in DOMAIN users_connections \ {v \in {conn[c].user} : Unused(v)} |->
           users_connections[u]]
  BY DEF Remove
<1>4. /\ conn' \in [Connections -> Conn]
      /\ conn[c].pc = "ended" /\ conn'[c].pc = "finished"
      /\ \A d \in Connections \ {c} : conn'[d] = conn[d]
  <2> HIDE DEF q
  <2> QED  BY <1>1, <1>2 DEF TypeOK
<1>5. /\ \A u : u \in DOMAIN users_connections' <=>
           u \in DOMAIN users_connections /\ ~(u = conn[c].user /\ Unused(u))
      /\ \A u \in DOMAIN users_connections' : users_connections'[u] = users_connections[u]
  BY <1>3
<1>6. users_connections' \in [DOMAIN users_connections' -> Connections]
  BY <1>3, <1>5 DEF TypeOK
<1>7. Senders' \subseteq Senders
  BY <1>5 DEF Senders
<1> QED  BY <1>4, <1>5, <1>6, <1>7

\* close_connections takes the user out of the map and drops his channel.
LEMMA CloseConnectionsChanges ==
  ASSUME TypeOK, NEW u \in Users, CloseConnections(u)
  PROVE  /\ u \in DOMAIN users_connections
         /\ DOMAIN users_connections' = DOMAIN users_connections \ {u}
         /\ users_connections' \in [DOMAIN users_connections' -> Connections]
         /\ \A v \in DOMAIN users_connections' : users_connections'[v] = users_connections[v]
         /\ Senders' \subseteq Senders
         /\ dropped' = dropped \cup {users_connections[u]}
         /\ conn' = conn
BY DEF CloseConnections, TypeOK, Senders

\* send gives the notification to the receivers of the channels it chose.
LEMMA SendChanges ==
  ASSUME TypeOK, NEW n \in Notifications, Send(n)
  PROVE  /\ n \notin sent /\ sent' = sent \cup {n}
         /\ conn' \in [Connections -> Conn]
         /\ SameLinks(conn, conn')
         /\ \A c \in Connections :
              /\ conn'[c].before = conn[c].before /\ conn'[c].told = conn[c].told
              /\ conn[c].received \subseteq conn'[c].received
         /\ \A c \in Connections, u \in DOMAIN users_connections :
              /\ Running(c) /\ conn[c].tx = users_connections[u]
              /\ n.user_ids = {} \/ u \in n.user_ids
              => n \in conn'[c].received
<1> DEFINE users == IF n.user_ids = {} THEN DOMAIN users_connections
                    ELSE n.user_ids \cap DOMAIN users_connections
           tx == {users_connections[u] : u \in users}
<1>1. n \notin sent /\ sent' = sent \cup {n}
  BY DEF Send
<1>2. conn' = [c \in Connections |->
                 IF conn[c].pc = "running" /\ conn[c].tx \in tx
                 THEN [conn[c] EXCEPT !.received = @ \cup {n}] ELSE conn[c]]
  BY DEF Send
<1>3. ASSUME NEW c \in Connections
      PROVE  /\ conn'[c] \in Conn
             /\ conn'[c].pc = conn[c].pc /\ conn'[c].user = conn[c].user
             /\ conn'[c].tx = conn[c].tx
             /\ conn'[c].before = conn[c].before /\ conn'[c].told = conn[c].told
             /\ conn[c].received \subseteq conn'[c].received
             /\ conn[c].pc = "running" /\ conn[c].tx \in tx => n \in conn'[c].received
  <2> HIDE DEF tx
  <2>1. conn[c] \in Conn
    BY ConnTyped
  <2> QED  BY <1>2, <2>1 DEF Conn
<1>4. conn' \in [Connections -> Conn]
  BY <1>2, <1>3
<1>5. ASSUME NEW u \in DOMAIN users_connections, n.user_ids = {} \/ u \in n.user_ids
      PROVE  users_connections[u] \in tx
  BY <1>5
<1> HIDE DEF tx
<1> QED  BY <1>1, <1>3, <1>4, <1>5 DEF SameLinks, Running

\* An answer is noted, and nothing else of the websocket changes.
LEMMA AnswerChanges ==
  ASSUME TypeOK, NEW c \in Connections, NEW n \in Notifications, Answer(c, n)
  PROVE  /\ conn' \in [Connections -> Conn]
         /\ SameLinks(conn, conn')
         /\ \A d \in Connections : /\ conn'[d].received = conn[d].received
                                   /\ conn'[d].before = conn[d].before
                                   /\ conn'[d].told = conn[d].told
<1>1. conn' = [conn EXCEPT ![c].answered = @ \cup {n}]
  BY DEF Answer
<1>2. \A d \in Connections : conn[d] \in Conn
  BY ConnTyped
<1>3. conn' \in [Connections -> Conn]
  BY <1>1, <1>2 DEF TypeOK, Conn
<1> QED  BY <1>1, <1>2, <1>3 DEF TypeOK, Conn, SameLinks

-----------------------------------------------------------------------------
(* Type correctness *)

LEMMA TypeOKInit == Init => TypeOK
BY ServiceAssumption, NewConnTyped DEF Init, TypeOK

\* A websocket that answers has a user, which the typing of confirmations needs.
LEMMA TypeOKStep == TypeOK /\ RunningIsKnown /\ [Next]_vars => TypeOK'
<1> SUFFICES ASSUME TypeOK, RunningIsKnown, [Next]_vars PROVE TypeOK'
  OBVIOUS
<1>1. ASSUME NEW c \in Connections, NEW u \in Users, HandleClient(c, u) PROVE TypeOK'
  BY <1>1, HandleClientChanges DEF HandleClient, HandleClientDoes, TypeOK
<1>2. ASSUME NEW c \in Connections, End(c) PROVE TypeOK'
  BY <1>2, EndChanges DEF End, TypeOK
<1>3. ASSUME NEW c \in Connections, Remove(c) PROVE TypeOK'
  BY <1>3, RemoveChanges DEF Remove, TypeOK
<1>4. ASSUME NEW c \in Connections, NEW n \in Notifications, Answer(c, n) PROVE TypeOK'
  <2>1. conn[c].user \in Users
    BY <1>4 DEF Answer, RunningIsKnown, Running
  <2>2. was_called' \in SUBSET Notifications
    BY <1>4 DEF Answer, TypeOK
  <2>3. confirmations' \in SUBSET (Users \X Notifications)
    <3>1. <<conn[c].user, n>> \in Users \X Notifications
      BY <2>1
    <3>2. confirmations' \in {confirmations, confirmations \cup {<<conn[c].user, n>>}}
      BY <1>4 DEF Answer
    <3> QED  BY <3>1, <3>2 DEF TypeOK
  <2>4. conn' \in [Connections -> Conn]
    BY <1>4, AnswerChanges
  <2>5. UNCHANGED <<users_connections, network_status_ok, updating, sent, dropped, updates>>
    BY <1>4 DEF Answer
  <2> QED  BY <2>2, <2>3, <2>4, <2>5 DEF TypeOK
<1>5. ASSUME NEW u \in Users, CloseConnections(u) PROVE TypeOK'
  BY <1>5, CloseConnectionsChanges DEF CloseConnections, TypeOK
<1>6. CASE StoreStatus
  BY <1>6, ServiceAssumption DEF StoreStatus, Status, Statuses, TypeOK
<1>7. CASE SendUpdate
  BY <1>7, SendStatusChanges DEF SendUpdate, TypeOK
<1>8. ASSUME NEW n \in Notifications, Send(n) PROVE TypeOK'
  BY <1>8, SendChanges DEF Send, TypeOK
<1>9. CASE UNCHANGED vars
  BY <1>9 DEF vars, TypeOK
<1> QED  BY <1>1, <1>2, <1>3, <1>4, <1>5, <1>6, <1>7, <1>8, <1>9 DEF Next

-----------------------------------------------------------------------------
(* The structure *)

\* A running websocket that shares its channel with the map is of the user the
\* map has it for.
LEMMA FoundIsOwn ==
  ASSUME Structure, NEW c \in Connections, Running(c),
         NEW u \in DOMAIN users_connections, conn[c].tx = users_connections[u]
  PROVE  Served(c) /\ conn[c].user = u
<1>1. users_connections[u] \in Senders
  BY DEF Senders
<1>2. Served(c)
  BY <1>1 DEF Structure, DroppedIsGone, Served, Running
<1>3. /\ conn[c].user \in DOMAIN users_connections
      /\ users_connections[conn[c].user] = conn[c].tx
  BY <1>2 DEF Structure, MapServes, Running
<1> QED  BY <1>2, <1>3 DEF Structure, OneUserEach

LEMMA ServedIsFound ==
  ASSUME Structure, NEW c \in Connections, Served(c)
  PROVE  /\ conn[c].user \in DOMAIN users_connections
         /\ users_connections[conn[c].user] = conn[c].tx
         /\ conn[c].tx \in Senders
BY DEF Structure, MapServes, Served, Senders

LEMMA StructureInit == Init => Structure
<1> SUFFICES ASSUME Init PROVE Structure
  OBVIOUS
<1>1. \A c \in Connections : conn[c].pc = "new"
  BY DEF Init, NewConn
<1>2. DOMAIN users_connections = {} /\ Senders = {} /\ dropped = {}
  BY DEF Init, Senders
<1> QED  BY <1>1, <1>2 DEF Structure, NewIsFresh, OneUserEach, DroppedIsGone,
           RunningIsKnown, MapServes, NoLeak, Running

\* What only sends leaves the structure as it is.
LEMMA StructureKept ==
  ASSUME Structure, SameLinks(conn, conn'), UNCHANGED <<users_connections, dropped>>
  PROVE  Structure'
<1>1. Senders' = Senders
  BY DEF Senders
<1>2. \A c \in Connections : /\ Running(c)' <=> Running(c)
                             /\ Served(c)' <=> Served(c)
  BY DEF Running, Served, SameLinks
<1>3. NewIsFresh'
  BY <1>1, <1>2 DEF NewIsFresh, Structure, SameLinks
<1>4. OneUserEach' /\ DroppedIsGone' /\ RunningIsKnown'
  BY <1>1, <1>2 DEF OneUserEach, DroppedIsGone, RunningIsKnown, Structure, SameLinks
<1>5. MapServes'
  BY <1>1, <1>2 DEF MapServes, Structure, SameLinks
<1>6. NoLeak'
  <2>1. \A tx : Receivers(tx)' = Receivers(tx)
    BY DEF Receivers, SameLinks
  <2> QED  BY <2>1 DEF NoLeak, Structure, SameLinks
<1> QED  BY <1>3, <1>4, <1>5, <1>6 DEF Structure

LEMMA HandleClientStructure ==
  ASSUME TypeOK, Structure, NEW c \in Connections, NEW u \in Users, HandleClient(c, u)
  PROVE  Structure'
<1>1. conn[c].pc = "new" /\ dropped' = dropped
  BY DEF HandleClient
<1>2. PICK tx \in Connections :
        /\ tx = IF u \in DOMAIN users_connections THEN users_connections[u] ELSE c
        /\ DOMAIN users_connections' = DOMAIN users_connections \cup {u}
        /\ users_connections'[u] = tx
        /\ \A v \in DOMAIN users_connections : users_connections'[v] = users_connections[v]
        /\ Senders' = Senders \cup {tx}
        /\ conn'[c].pc = "running" /\ conn'[c].user = u /\ conn'[c].tx = tx
        /\ \A d \in Connections \ {c} :
             /\ conn'[d].pc = conn[d].pc
             /\ conn'[d].user = conn[d].user
             /\ conn'[d].tx = conn[d].tx
  BY HandleClientChanges DEF HandleClientDoes
<1>3. /\ c \notin dropped \cup Senders
      /\ \A d \in Connections : Running(d) => conn[d].tx # c
  BY <1>1 DEF Structure, NewIsFresh
<1>4. tx \notin dropped
  <2>1. CASE u \in DOMAIN users_connections
    BY <1>2, <2>1 DEF Structure, DroppedIsGone, Senders
  <2>2. CASE u \notin DOMAIN users_connections
    BY <1>2, <1>3, <2>2
  <2> QED  BY <2>1, <2>2
<1>5. ~Running(c)
  BY <1>1 DEF Running
<1>6. \A d \in Connections \ {c} : Running(d)' <=> Running(d)
  BY <1>2 DEF Running
<1>7. NewIsFresh'
  <2> SUFFICES ASSUME NEW d \in Connections, conn'[d].pc = "new"
               PROVE  /\ d \notin dropped' \cup Senders'
                      /\ \A e \in Connections : Running(e)' => conn'[e].tx # d
    BY DEF NewIsFresh
  <2>1. d # c /\ conn[d].pc = "new"
    BY <1>2
  <2>2. /\ d \notin dropped \cup Senders
        /\ \A e \in Connections : Running(e) => conn[e].tx # d
    BY <2>1 DEF Structure, NewIsFresh
  <2>3. tx # d
    BY <1>2, <2>1, <2>2 DEF Senders
  <2> QED  BY <1>1, <1>2, <1>6, <2>2, <2>3
<1>8. OneUserEach'
  <2> SUFFICES ASSUME NEW v \in DOMAIN users_connections', NEW w \in DOMAIN users_connections',
                      users_connections'[v] = users_connections'[w]
               PROVE  v = w
    BY DEF OneUserEach
  <2>1. CASE u \in DOMAIN users_connections
    BY <1>2, <2>1 DEF Structure, OneUserEach
  <2>2. CASE u \notin DOMAIN users_connections
    <3>1. \A x \in DOMAIN users_connections : users_connections[x] # tx
      BY <1>2, <1>3, <2>2 DEF Senders
    <3> QED  BY <1>2, <2>2, <3>1 DEF Structure, OneUserEach
  <2> QED  BY <2>1, <2>2
<1>9. DroppedIsGone'
  BY <1>1, <1>2, <1>4 DEF Structure, DroppedIsGone
<1>10. RunningIsKnown'
  BY <1>2, <1>6 DEF Structure, RunningIsKnown
<1>11. MapServes'
  <2> SUFFICES ASSUME NEW d \in Connections, Running(d)'
               PROVE  /\ Served(d)' => /\ conn'[d].user \in DOMAIN users_connections'
                                       /\ users_connections'[conn'[d].user] = conn'[d].tx
                      /\ ~Served(d)' => conn'[d].tx \notin Senders'
    BY DEF MapServes, Running
  <2>1. CASE d = c
    BY <1>1, <1>2, <1>4, <2>1 DEF Served
  <2>2. CASE d # c
    <3>1. Running(d) /\ (Served(d)' <=> Served(d))
      BY <1>1, <1>2, <1>6, <2>2 DEF Served
    <3>2. CASE Served(d)
      BY <1>2, <2>2, <3>1, <3>2, ServedIsFound
    <3>3. CASE ~Served(d)
      <4>1. conn[d].tx \notin Senders /\ conn[d].tx \in dropped
        BY <3>1, <3>3 DEF Structure, MapServes, Served, Running
      <4> QED  BY <1>2, <1>4, <2>2, <3>1, <3>3, <4>1
    <3> QED  BY <3>2, <3>3
  <2> QED  BY <2>1, <2>2
<1>12. NoLeak'
  <2> SUFFICES ASSUME NEW v \in DOMAIN users_connections',
                      Receivers(users_connections[v])' = {}
               PROVE  \E e \in Connections : conn'[e].pc = "ended" /\ conn'[e].user = v
    BY DEF NoLeak
  <2>1. v # u
    BY <1>2 DEF Receivers
  <2>2. v \in DOMAIN users_connections /\ users_connections'[v] = users_connections[v]
    BY <1>2, <2>1
  <2>3. Receivers(users_connections[v]) = {}
    BY <1>1, <1>2, <2>2 DEF Receivers
  <2>4. PICK e \in Connections : conn[e].pc = "ended" /\ conn[e].user = v
    BY <2>2, <2>3 DEF Structure, NoLeak
  <2> QED  BY <1>1, <1>2, <2>4
<1> QED  BY <1>7, <1>8, <1>9, <1>10, <1>11, <1>12 DEF Structure

LEMMA EndStructure ==
  ASSUME TypeOK, Structure, NEW c \in Connections, End(c)
  PROVE  Structure'
<1>1. users_connections' = users_connections /\ dropped' = dropped /\ Senders' = Senders
  BY DEF End, Senders
<1>2. /\ Running(c) /\ conn'[c].pc = "ended" /\ conn'[c].user = conn[c].user
      /\ \A d \in Connections \ {c} : conn'[d] = conn[d]
  BY EndChanges
<1>3. \A d \in Connections : Running(d)' <=> Running(d) /\ d # c
  BY <1>2 DEF Running
<1>4. NewIsFresh'
  BY <1>1, <1>2, <1>3 DEF Structure, NewIsFresh
<1>5. OneUserEach' /\ DroppedIsGone' /\ RunningIsKnown'
  BY <1>1, <1>2, <1>3 DEF Structure, OneUserEach, DroppedIsGone, RunningIsKnown
<1>6. MapServes'
  <2> SUFFICES ASSUME NEW d \in Connections, Running(d)'
               PROVE  /\ Served(d)' => /\ conn'[d].user \in DOMAIN users_connections'
                                       /\ users_connections'[conn'[d].user] = conn'[d].tx
                      /\ ~Served(d)' => conn'[d].tx \notin Senders'
    BY DEF MapServes, Running
  <2>1. d # c /\ Running(d) /\ conn'[d] = conn[d]
    BY <1>2, <1>3
  <2>2. Served(d)' <=> Served(d)
    BY <1>1, <2>1 DEF Served
  <2> QED  BY <1>1, <2>1, <2>2 DEF Structure, MapServes, Running
<1>7. NoLeak'
  <2> SUFFICES ASSUME NEW v \in DOMAIN users_connections,
                      Receivers(users_connections[v])' = {}
               PROVE  \E e \in Connections : conn'[e].pc = "ended" /\ conn'[e].user = v
    BY <1>1 DEF NoLeak
  <2>1. CASE conn[c].tx = users_connections[v]
    BY <1>2, <2>1, FoundIsOwn
  <2>2. CASE conn[c].tx # users_connections[v]
    <3>1. Receivers(users_connections[v]) = {}
      <4>1. \A d \in Connections : ~(Running(d)' /\ conn'[d].tx = users_connections[v])
        BY <1>1 DEF Receivers, Running
      <4>2. \A d \in Connections : ~(Running(d) /\ conn[d].tx = users_connections[v])
        BY <1>2, <1>3, <2>2, <4>1
      <4> QED  BY <4>2 DEF Receivers, Running
    <3>2. PICK e \in Connections : conn[e].pc = "ended" /\ conn[e].user = v
      BY <3>1 DEF Structure, NoLeak
    <3>3. e # c
      BY <1>2, <3>2 DEF Running
    <3> QED  BY <1>2, <3>2, <3>3
  <2> QED  BY <2>1, <2>2
<1> QED  BY <1>4, <1>5, <1>6, <1>7 DEF Structure

LEMMA RemoveStructure ==
  ASSUME TypeOK, Structure, NEW c \in Connections, Remove(c)
  PROVE  Structure'
<1>1. dropped' = dropped
  BY DEF Remove
<1>2. /\ conn[c].pc = "ended" /\ conn'[c].pc = "finished"
      /\ \A d \in Connections \ {c} : conn'[d] = conn[d]
      /\ \A u : u \in DOMAIN users_connections' <=>
           u \in DOMAIN users_connections /\ ~(u = conn[c].user /\ Unused(u))
      /\ \A u \in DOMAIN users_connections' : users_connections'[u] = users_connections[u]
      /\ Senders' \subseteq Senders
  BY RemoveChanges
<1>3. \A d \in Connections : /\ Running(d)' <=> Running(d)
                             /\ Running(d) => d # c /\ conn'[d] = conn[d]
                             /\ Served(d)' <=> Served(d)
  BY <1>1, <1>2 DEF Running, Served
<1>4. NewIsFresh'
  BY <1>1, <1>2, <1>3 DEF Structure, NewIsFresh
<1>5. OneUserEach' /\ DroppedIsGone' /\ RunningIsKnown'
  BY <1>1, <1>2, <1>3 DEF Structure, OneUserEach, DroppedIsGone, RunningIsKnown
<1>6. MapServes'
  <2> SUFFICES ASSUME NEW d \in Connections, Running(d)'
               PROVE  /\ Served(d)' => /\ conn'[d].user \in DOMAIN users_connections'
                                       /\ users_connections'[conn'[d].user] = conn'[d].tx
                      /\ ~Served(d)' => conn'[d].tx \notin Senders'
    BY DEF MapServes, Running
  <2>1. Running(d) /\ conn'[d] = conn[d] /\ (Served(d)' <=> Served(d))
    BY <1>3
  <2>2. CASE Served(d)
    \* what it receives from is used, so its entry stays
    <3>1. /\ conn[d].user \in DOMAIN users_connections
          /\ users_connections[conn[d].user] = conn[d].tx
      BY <2>2, ServedIsFound
    <3>2. ~Unused(conn[d].user)
      BY <2>1, <3>1 DEF Unused, Receivers, Running
    <3> QED  BY <1>2, <2>1, <2>2, <3>1, <3>2
  <2>3. CASE ~Served(d)
    BY <1>2, <2>1, <2>3 DEF Structure, MapServes, Running
  <2> QED  BY <2>2, <2>3
<1>7. NoLeak'
  <2> SUFFICES ASSUME NEW v \in DOMAIN users_connections',
                      Receivers(users_connections[v])' = {}
               PROVE  \E e \in Connections : conn'[e].pc = "ended" /\ conn'[e].user = v
    BY DEF NoLeak
  <2>1. /\ v \in DOMAIN users_connections /\ users_connections'[v] = users_connections[v]
        /\ ~(v = conn[c].user /\ Unused(v))
    BY <1>2
  <2>2. Receivers(users_connections[v]) = {}
    <3>1. \A d \in Connections : ~(Running(d)' /\ conn'[d].tx = users_connections'[v])
      BY DEF Receivers, Running
    <3>2. \A d \in Connections : ~(Running(d) /\ conn[d].tx = users_connections[v])
      BY <1>3, <2>1, <3>1
    <3> QED  BY <3>2 DEF Receivers, Running
  <2>3. PICK e \in Connections : conn[e].pc = "ended" /\ conn[e].user = v
    BY <2>1, <2>2 DEF Structure, NoLeak
  <2>4. e # c
    BY <2>1, <2>2, <2>3 DEF Unused
  <2> QED  BY <1>2, <2>3, <2>4
<1> QED  BY <1>4, <1>5, <1>6, <1>7 DEF Structure

LEMMA CloseConnectionsStructure ==
  ASSUME TypeOK, Structure, NEW u \in Users, CloseConnections(u)
  PROVE  Structure'
<1>1. /\ u \in DOMAIN users_connections
      /\ DOMAIN users_connections' = DOMAIN users_connections \ {u}
      /\ \A v \in DOMAIN users_connections' : users_connections'[v] = users_connections[v]
      /\ Senders' \subseteq Senders
      /\ dropped' = dropped \cup {users_connections[u]}
      /\ conn' = conn
  BY CloseConnectionsChanges
<1>2. users_connections[u] \in Senders
  BY <1>1 DEF Senders
<1>3. users_connections[u] \notin Senders'
  BY <1>1 DEF Structure, OneUserEach, Senders
<1>4. NewIsFresh'
  BY <1>1, <1>2 DEF Structure, NewIsFresh, Running
<1>5. OneUserEach' /\ DroppedIsGone' /\ RunningIsKnown'
  BY <1>1, <1>3 DEF Structure, OneUserEach, DroppedIsGone, RunningIsKnown, Running
<1>6. MapServes'
  <2> SUFFICES ASSUME NEW d \in Connections, Running(d)
               PROVE  /\ Served(d)' => /\ conn[d].user \in DOMAIN users_connections'
                                       /\ users_connections'[conn[d].user] = conn[d].tx
                      /\ ~Served(d)' => conn[d].tx \notin Senders'
    BY <1>1 DEF MapServes, Running
  <2>1. CASE conn[d].tx = users_connections[u]
    BY <1>1, <1>3, <2>1 DEF Served
  <2>2. CASE conn[d].tx # users_connections[u]
    <3>1. Served(d)' <=> Served(d)
      BY <1>1, <2>2 DEF Served
    <3>2. CASE Served(d)
      BY <1>1, <2>2, <3>1, <3>2, ServedIsFound
    <3>3. CASE ~Served(d)
      BY <1>1, <3>1, <3>3 DEF Structure, MapServes, Running
    <3> QED  BY <3>2, <3>3
  <2> QED  BY <2>1, <2>2
<1>7. NoLeak'
  BY <1>1 DEF Structure, NoLeak, Receivers
<1> QED  BY <1>4, <1>5, <1>6, <1>7 DEF Structure

LEMMA StructureStep == TypeOK /\ Structure /\ [Next]_vars => Structure'
<1> SUFFICES ASSUME TypeOK, Structure, [Next]_vars PROVE Structure'
  OBVIOUS
<1>1. ASSUME NEW c \in Connections, NEW u \in Users, HandleClient(c, u) PROVE Structure'
  BY <1>1, HandleClientStructure
<1>2. ASSUME NEW c \in Connections, End(c) PROVE Structure'
  BY <1>2, EndStructure
<1>3. ASSUME NEW c \in Connections, Remove(c) PROVE Structure'
  BY <1>3, RemoveStructure
<1>4. ASSUME NEW c \in Connections, NEW n \in Notifications, Answer(c, n) PROVE Structure'
  BY <1>4, AnswerChanges, StructureKept DEF Answer
<1>5. ASSUME NEW u \in Users, CloseConnections(u) PROVE Structure'
  BY <1>5, CloseConnectionsStructure
<1>6. CASE StoreStatus
  <2>1. SameLinks(conn, conn')
    BY <1>6 DEF StoreStatus, SameLinks
  <2> QED  BY <1>6, <2>1, StructureKept DEF StoreStatus
<1>7. CASE SendUpdate
  <2>1. SameLinks(conn, conn')
    BY <1>7, SendStatusChanges DEF SendUpdate, TypeOK
  <2> QED  BY <1>7, <2>1, StructureKept DEF SendUpdate
<1>8. ASSUME NEW n \in Notifications, Send(n) PROVE Structure'
  BY <1>8, SendChanges, StructureKept DEF Send
<1>9. CASE UNCHANGED vars
  <2>1. SameLinks(conn, conn')
    BY <1>9 DEF vars, SameLinks
  <2> QED  BY <1>9, <2>1, StructureKept DEF vars
<1> QED  BY <1>1, <1>2, <1>3, <1>4, <1>5, <1>6, <1>7, <1>8, <1>9 DEF Next

-----------------------------------------------------------------------------
(* What the websockets receive and are told *)

LEMMA ReceivesStep ==
  ASSUME TypeOK, Structure, EachDeviceReceives, [Next]_vars
  PROVE  EachDeviceReceives'
<1> DEFINE Missing(c, n) == /\ n \in sent \ conn[c].before
                            /\ n.user_ids = {} \/ conn[c].user \in n.user_ids
                            /\ n \notin conn[c].received
<1> SUFFICES ASSUME NEW c \in Connections, NEW n \in Notifications,
                    Served(c)', Missing(c, n)'
             PROVE  FALSE
  BY DEF EachDeviceReceives
<1>1. ~(Served(c) /\ Missing(c, n))
  BY DEF EachDeviceReceives
<1>2. \* A step that leaves c as it is and sends nothing.
      ASSUME conn'[c] = conn[c], dropped \subseteq dropped', sent' = sent
      PROVE  FALSE
  BY <1>1, <1>2 DEF Served
<1>3. ASSUME NEW d \in Connections, NEW u \in Users, HandleClient(d, u) PROVE FALSE
  <2>1. dropped' = dropped /\ sent' = sent
    BY <1>3 DEF HandleClient
  <2>2. CASE d = c
    BY <1>3, <2>1, <2>2, HandleClientChanges DEF HandleClientDoes
  <2>3. CASE d # c
    <3>1. /\ conn'[c].pc = conn[c].pc /\ conn'[c].tx = conn[c].tx
          /\ conn'[c].user = conn[c].user
          /\ conn'[c].received = conn[c].received /\ conn'[c].before = conn[c].before
      BY <1>3, <2>3, HandleClientOthers
    <3> QED  BY <1>1, <2>1, <3>1 DEF Served
  <2> QED  BY <2>2, <2>3
<1>4. ASSUME NEW d \in Connections, End(d) PROVE FALSE
  <2>1. dropped' = dropped /\ sent' = sent
    BY <1>4 DEF End
  <2> QED  BY <1>2, <1>4, <2>1, EndChanges DEF Served
<1>5. ASSUME NEW d \in Connections, Remove(d) PROVE FALSE
  <2>1. dropped' = dropped /\ sent' = sent
    BY <1>5 DEF Remove
  <2> QED  BY <1>2, <1>5, <2>1, RemoveChanges DEF Served
<1>6. ASSUME NEW d \in Connections, NEW m \in Notifications, Answer(d, m) PROVE FALSE
  <2>1. dropped' = dropped /\ sent' = sent
    BY <1>6 DEF Answer
  <2> QED  BY <1>1, <1>6, <2>1, AnswerChanges DEF Served, SameLinks
<1>7. ASSUME NEW u \in Users, CloseConnections(u) PROVE FALSE
  BY <1>2, <1>7 DEF CloseConnections
<1>8. CASE StoreStatus
  BY <1>2, <1>8 DEF StoreStatus
<1>9. CASE SendUpdate
  <2>1. dropped' = dropped /\ sent' = sent
    BY <1>9 DEF SendUpdate
  <2>2. /\ SameLinks(conn, conn')
        /\ conn'[c].received = conn[c].received /\ conn'[c].before = conn[c].before
    BY <1>9, SendStatusChanges DEF SendUpdate, TypeOK
  <2> QED  BY <1>1, <2>1, <2>2 DEF Served, SameLinks
<1>10. ASSUME NEW m \in Notifications, Send(m) PROVE FALSE
  <2>1. dropped' = dropped
    BY <1>10 DEF Send
  <2>2. /\ sent' = sent \cup {m} /\ SameLinks(conn, conn')
        /\ conn'[c].before = conn[c].before /\ conn[c].received \subseteq conn'[c].received
    BY <1>10, SendChanges
  <2>3. Served(c) /\ conn'[c].user = conn[c].user
    BY <2>1, <2>2 DEF Served, SameLinks
  <2>4. CASE n \in sent
    BY <1>1, <2>2, <2>3, <2>4
  <2>5. CASE n \notin sent
    \* n is sent now, and the map leads from the user to c
    <3>1. n = m
      BY <2>2, <2>5
    <3>2. /\ conn[c].user \in DOMAIN users_connections
          /\ conn[c].tx = users_connections[conn[c].user]
      BY <2>3, ServedIsFound
    <3>3. Running(c)
      BY <2>3 DEF Served, Running
    <3> QED  BY <1>10, <2>3, <3>1, <3>2, <3>3, SendChanges
  <2> QED  BY <2>4, <2>5
<1>11. CASE UNCHANGED vars
  BY <1>2, <1>11 DEF vars
<1> QED  BY <1>3, <1>4, <1>5, <1>6, <1>7, <1>8, <1>9, <1>10, <1>11 DEF Next

LEMMA StatusStep ==
  ASSUME TypeOK, Structure, StatusAgrees, StatusReaches, [Next]_vars
  PROVE  StatusAgrees' /\ StatusReaches'
<1> DEFINE Told(c) == IF network_status_ok THEN conn[c].told # "Error"
                      ELSE conn[c].told = "Error"
<1>1. ASSUME UNCHANGED <<network_status_ok, updating>>,
             \A c \in Connections : updating = None /\ Served(c)' => Told(c)'
      PROVE  StatusAgrees' /\ StatusReaches'
  BY <1>1 DEF StatusAgrees, StatusReaches
<1>2. \A c \in Connections : updating = None /\ Served(c) => Told(c)
  BY DEF StatusReaches
<1>3. \* A step that leaves the status, and what c was told, as it is.
      ASSUME NEW c \in Connections, network_status_ok' = network_status_ok,
             dropped \subseteq dropped',
             conn'[c].pc = "running" => /\ conn[c].pc = "running"
                                        /\ conn'[c].tx = conn[c].tx
                                        /\ conn'[c].told = conn[c].told
      PROVE  updating = None /\ Served(c)' => Told(c)'
  BY <1>2, <1>3 DEF Served
<1> HIDE DEF Told
<1>4. ASSUME NEW d \in Connections, NEW u \in Users, HandleClient(d, u)
      PROVE  StatusAgrees' /\ StatusReaches'
  <2>1. UNCHANGED <<network_status_ok, updating, dropped>>
    BY <1>4 DEF HandleClient
  <2>2. ASSUME NEW c \in Connections, updating = None, Served(c)'
        PROVE  Told(c)'
    <3>1. CASE c = d
      <4>1. network_status_ok => conn'[c].told = None
        BY <1>4, <3>1, HandleClientChanges DEF HandleClientDoes
      <4>2. ~network_status_ok => conn'[c].told = "Error"
        BY <1>4, <3>1, HandleClientChanges DEF HandleClientDoes
      <4>3. None # "Error"
        BY ServiceAssumption
      <4> QED  BY <2>1, <4>1, <4>2, <4>3 DEF Told
    <3>2. CASE c # d
      <4>1. /\ conn'[c].pc = conn[c].pc /\ conn'[c].tx = conn[c].tx
            /\ network_status_ok => conn'[c].told = conn[c].told
            /\ ~network_status_ok => conn'[c].told \in {conn[c].told, "Error"}
        BY <1>4, <3>2, HandleClientOthers
      <4>2. Served(c)
        BY <2>1, <2>2, <4>1 DEF Served
      <4> QED  BY <1>2, <2>1, <2>2, <4>1, <4>2 DEF Told
    <3> QED  BY <3>1, <3>2
  <2> QED  BY <1>1, <2>1, <2>2
<1>5. ASSUME NEW d \in Connections, End(d) PROVE StatusAgrees' /\ StatusReaches'
  <2>1. UNCHANGED <<network_status_ok, updating, dropped>>
    BY <1>5 DEF End
  <2> QED  BY <1>1, <1>3, <1>5, <2>1, EndChanges
<1>6. ASSUME NEW d \in Connections, Remove(d) PROVE StatusAgrees' /\ StatusReaches'
  <2>1. UNCHANGED <<network_status_ok, updating, dropped>>
    BY <1>6 DEF Remove
  <2> QED  BY <1>1, <1>3, <1>6, <2>1, RemoveChanges
<1>7. ASSUME NEW d \in Connections, NEW n \in Notifications, Answer(d, n)
      PROVE  StatusAgrees' /\ StatusReaches'
  <2>1. UNCHANGED <<network_status_ok, updating, dropped>>
    BY <1>7 DEF Answer
  <2> QED  BY <1>1, <1>3, <1>7, <2>1, AnswerChanges DEF SameLinks
<1>8. ASSUME NEW u \in Users, CloseConnections(u) PROVE StatusAgrees' /\ StatusReaches'
  <2>1. UNCHANGED <<network_status_ok, updating, conn>> /\ dropped \subseteq dropped'
    BY <1>8 DEF CloseConnections
  <2> QED  BY <1>1, <1>3, <2>1
<1>9. CASE StoreStatus
  <2>1. /\ updating' = Status /\ (network_status_ok' <=> Status = "Ok")
    BY <1>9 DEF StoreStatus
  <2>2. Status # None
    BY ServiceAssumption DEF Status
  <2> QED  BY <2>1, <2>2 DEF StatusAgrees, StatusReaches
<1>10. CASE SendUpdate
  <2>1. /\ updating # None /\ updating' = None /\ network_status_ok' = network_status_ok
        /\ dropped' = dropped /\ conn' = SendStatus(conn, Senders, updating)
    BY <1>10 DEF SendUpdate
  <2>2. updating \in Statuses /\ (network_status_ok <=> updating = "Ok")
    BY <2>1 DEF TypeOK, StatusAgrees
  <2>3. ASSUME NEW c \in Connections, Served(c)'
        PROVE  conn'[c].told = updating
    <3>1. /\ SameLinks(conn, conn')
          /\ conn'[c].told = IF conn[c].pc = "running" /\ conn[c].tx \in Senders
                             THEN updating ELSE conn[c].told
      BY <2>1, <2>2, SendStatusChanges DEF TypeOK
    <3>2. Served(c)
      BY <2>1, <2>3, <3>1 DEF Served, SameLinks
    <3> QED  BY <3>1, <3>2, ServedIsFound DEF Served
  <2> QED  BY <2>1, <2>2, <2>3 DEF Statuses, StatusAgrees, StatusReaches
<1>11. ASSUME NEW n \in Notifications, Send(n) PROVE StatusAgrees' /\ StatusReaches'
  <2>1. UNCHANGED <<network_status_ok, updating, dropped>>
    BY <1>11 DEF Send
  <2> QED  BY <1>1, <1>3, <1>11, <2>1, SendChanges DEF SameLinks
<1>12. CASE UNCHANGED vars
  BY <1>1, <1>3, <1>12 DEF vars
<1> QED  BY <1>4, <1>5, <1>6, <1>7, <1>8, <1>9, <1>10, <1>11, <1>12 DEF Next

-----------------------------------------------------------------------------
(* The theorems *)

LEMMA IInvInit == Init => IInv
<1> SUFFICES ASSUME Init PROVE IInv
  OBVIOUS
<1>1. \A c \in Connections : conn[c].pc = "new"
  BY DEF Init, NewConn
<1>2. EachDeviceReceives /\ StatusReaches /\ StatusAgrees
  BY <1>1 DEF Init, EachDeviceReceives, StatusReaches, StatusAgrees, Served
<1> QED  BY <1>2, TypeOKInit, StructureInit DEF IInv

LEMMA IInvStep == IInv /\ [Next]_vars => IInv'
BY TypeOKStep, StructureStep, ReceivesStep, StatusStep DEF IInv, Structure

\* The invariant holds in every reachable state of the service.
THEOREM Inductive == Spec => []IInv
BY IInvInit, IInvStep, PTL DEF Spec

\* The state of the service is well typed: the map has users and channels, a
\* confirmation has a user.
THEOREM ServiceTypes == Spec => []TypeOK
<1>1. IInv => TypeOK
  BY DEF IInv
<1> QED  BY <1>1, Inductive, PTL

\* handle_client, its end and close_connections keep the map exact: it has the
\* channel of every websocket that was not closed by force, none that was, and
\* no entry whose websockets are all gone, except while the last one removes it.
THEOREM ServiceMapExact == Spec => []MapExact
<1>1. IInv => MapExact
  BY DEF IInv, Structure, MapExact
<1> QED  BY <1>1, Inductive, PTL

\* send reaches every websocket of the users it names, or of all of them.
THEOREM ServiceReceives == Spec => []EachDeviceReceives
<1>1. IInv => EachDeviceReceives
  BY DEF IInv
<1> QED  BY <1>1, Inductive, PTL

\* update_network_status and handle_client together leave no websocket with a
\* status that is not the current one.
THEOREM ServiceStatus == Spec => []StatusReaches
<1>1. IInv => StatusReaches
  BY DEF IInv
<1> QED  BY <1>1, Inductive, PTL

-----------------------------------------------------------------------------
(* The service is one broadcast *)

\* The devices that Broadcast calls connected.
Here == {d \in Connections : Served(d)}

\* The user and the messages of d are what they were.
Same(d) == conn'[d].user = conn[d].user /\ conn'[d].received = conn[d].received

LEMMA Stays ==
  ASSUME Here' = Here, \A d \in Here : Same(d)
  PROVE  UNCHANGED Promise!vars
<1>1. /\ [c \in Here |-> conn[c].user]' = [c \in Here |-> conn[c].user]
      /\ [c \in Here |-> conn[c].received]' = [c \in Here |-> conn[c].received]
  BY DEF Same
<1> QED  BY <1>1 DEF Promise!vars, Here

LEMMA Connects ==
  ASSUME NEW c \in Connections, NEW u \in Users,
         c \notin Here, Here' = Here \cup {c}, \A d \in Here : Same(d),
         conn'[c].user = u, conn'[c].received = {}
  PROVE  Promise!Next
<1> DEFINE user == [d \in Here |-> conn[d].user]
           got == [d \in Here |-> conn[d].received]
<1>1. /\ user' = [d \in Here \cup {c} |-> IF d = c THEN u ELSE user[d]]
      /\ got' = [d \in Here \cup {c} |-> IF d = c THEN {} ELSE got[d]]
  BY DEF Same
<1>2. DOMAIN user = Here
  OBVIOUS
<1>3. Promise!Connect(c, u)
  BY <1>1, <1>2 DEF Promise!Connect, Promise!Connected, Here
<1> QED  BY <1>3 DEF Promise!Next

LEMMA Leaves ==
  ASSUME NEW leaving \in SUBSET Connections, Here' = Here \ leaving, \A d \in Here' : Same(d)
  PROVE  Promise!Next
<1> DEFINE user == [d \in Here |-> conn[d].user]
           got == [d \in Here |-> conn[d].received]
<1>1. /\ user' = [d \in Here \ leaving |-> user[d]]
      /\ got' = [d \in Here \ leaving |-> got[d]]
  BY DEF Same
<1>2. DOMAIN user = Here
  OBVIOUS
<1>3. Promise!Leave(leaving)
  BY <1>1, <1>2 DEF Promise!Leave, Promise!Connected, Here
<1> QED  BY <1>3 DEF Promise!Next

LEMMA Sends ==
  ASSUME NEW n \in Notifications, Here' = Here,
         \A d \in Here :
           /\ conn'[d].user = conn[d].user
           /\ conn'[d].received = conn[d].received \cup
                {m \in {n} : Promise!Recipient(m, conn[d].user)}
  PROVE  Promise!Next
<1> DEFINE user == [d \in Here |-> conn[d].user]
           got == [d \in Here |-> conn[d].received]
<1>1. /\ user' = user
      /\ got' = [d \in Here |-> got[d] \cup {m \in {n} : Promise!Recipient(m, user[d])}]
  OBVIOUS
<1>2. DOMAIN user = Here
  OBVIOUS
<1>3. Promise!Send(n)
  BY <1>1, <1>2 DEF Promise!Send, Promise!Connected, Here
<1> QED  BY <1>3 DEF Promise!Next

\* A connection that joins gets a channel that was not dropped.
LEMMA JoinsHere ==
  ASSUME IInv, NEW c \in Connections, NEW u \in Users, HandleClient(c, u)
  PROVE  Promise!Next
<1>1. TypeOK /\ Structure /\ dropped' = dropped /\ conn[c].pc = "new"
  BY DEF IInv, HandleClient
<1>2. PICK tx \in Connections : HandleClientDoes(c, u, tx)
  BY <1>1, HandleClientChanges
<1>3. /\ tx = IF u \in DOMAIN users_connections THEN users_connections[u] ELSE c
      /\ conn'[c].pc = "running" /\ conn'[c].user = u /\ conn'[c].tx = tx
      /\ conn'[c].received = {}
      /\ \A d \in Connections \ {c} : /\ conn'[d].pc = conn[d].pc
                                     /\ conn'[d].tx = conn[d].tx
                                     /\ Same(d)
  BY <1>2 DEF HandleClientDoes, Same
<1>4. tx \notin dropped
  BY <1>1, <1>3 DEF Structure, NewIsFresh, DroppedIsGone, Senders
<1>5. \A d \in Connections \ {c} : Served(d)' <=> Served(d)
  BY <1>1, <1>3 DEF Served
<1>6. c \notin Here /\ Here' = Here \cup {c}
  BY <1>1, <1>3, <1>4, <1>5 DEF Here, Served
<1>7. \A d \in Here : Same(d)
  BY <1>3, <1>6 DEF Here
<1> QED  BY <1>3, <1>6, <1>7, Connects

\* Forced closes take exactly the devices of the user.
LEMMA CloseTakes ==
  ASSUME IInv, NEW u \in Users, CloseConnections(u)
  PROVE  Promise!Next
<1>1. /\ TypeOK /\ Structure
      /\ u \in DOMAIN users_connections
      /\ dropped' = dropped \cup {users_connections[u]}
      /\ conn' = conn
  BY CloseConnectionsChanges DEF IInv
<1> DEFINE leaving == {d \in Connections : conn[d].user = u}
<1>2. ASSUME NEW d \in Connections PROVE d \in Here' <=> d \in Here \ leaving
  <2>1. CASE Served(d)
    <3>1. conn[d].tx = users_connections[u] <=> conn[d].user = u
      BY <1>1, <2>1, ServedIsFound DEF Structure, OneUserEach
    <3> QED  BY <1>1, <2>1, <3>1 DEF Here, Served
  <2>2. CASE ~Served(d)
    BY <1>1, <2>2 DEF Here, Served
  <2> QED  BY <2>1, <2>2
<1>3. Here' = Here \ leaving
  BY <1>2 DEF Here
<1>4. \A d \in Here' : Same(d)
  BY <1>1 DEF Same
<1> HIDE DEF leaving
<1>5. leaving \in SUBSET Connections
  BY DEF leaving
<1> QED  BY <1>3, <1>4, <1>5, Leaves

\* The channels send chooses lead to the devices it is for.
LEMMA SendReaches ==
  ASSUME IInv, NEW n \in Notifications, Send(n)
  PROVE  Promise!Next
<1> DEFINE users == IF n.user_ids = {} THEN DOMAIN users_connections
                    ELSE n.user_ids \cap DOMAIN users_connections
           tx == {users_connections[u] : u \in users}
<1>1. /\ TypeOK /\ Structure /\ dropped' = dropped
      /\ conn' = [c \in Connections |->
                    IF conn[c].pc = "running" /\ conn[c].tx \in tx
                    THEN [conn[c] EXCEPT !.received = @ \cup {n}] ELSE conn[c]]
  BY DEF IInv, Send
<1>2. \A d \in Connections : Served(d)' <=> Served(d)
  BY <1>1, SendChanges DEF Served, SameLinks
<1>3. Here' = Here
  BY <1>2 DEF Here
<1>4. ASSUME NEW d \in Here
      PROVE  conn[d].tx \in tx <=> Promise!Recipient(n, conn[d].user)
  <2>1. /\ d \in Connections /\ conn[d].user \in DOMAIN users_connections
        /\ users_connections[conn[d].user] = conn[d].tx
    BY <1>1, ServedIsFound DEF Here
  <2>2. conn[d].tx \in tx <=> conn[d].user \in users
    BY <1>1, <2>1 DEF Structure, OneUserEach
  <2>3. conn[d].user \in users <=> Promise!Recipient(n, conn[d].user)
    BY <2>1 DEF Promise!Recipient
  <2> QED  BY <2>2, <2>3
<1> HIDE DEF tx
<1>5. ASSUME NEW d \in Here
      PROVE  /\ conn'[d].user = conn[d].user
             /\ conn'[d].received = conn[d].received \cup
                  {m \in {n} : Promise!Recipient(m, conn[d].user)}
  <2>1. d \in Connections /\ conn[d] \in Conn /\ conn[d].pc = "running"
    BY <1>1, ConnTyped DEF Here, Served
  <2>2. CASE conn[d].tx \in tx
    <3>1. {m \in {n} : Promise!Recipient(m, conn[d].user)} = {n}
      BY <1>4, <2>2
    <3>2. conn'[d] = [conn[d] EXCEPT !.received = @ \cup {n}]
      BY <1>1, <2>1, <2>2
    <3> QED  BY <2>1, <3>1, <3>2 DEF Conn
  <2>3. CASE conn[d].tx \notin tx
    <3>1. {m \in {n} : Promise!Recipient(m, conn[d].user)} = {}
      BY <1>4, <2>3
    <3> QED  BY <1>1, <2>1, <2>3, <3>1
  <2> QED  BY <2>2, <2>3
<1> QED  BY <1>3, <1>5, Sends

LEMMA PromiseStep == IInv /\ [Next]_vars => [Promise!Next]_(Promise!vars)
<1> SUFFICES ASSUME IInv, [Next]_vars PROVE Promise!Next \/ UNCHANGED Promise!vars
  OBVIOUS
<1>1. TypeOK
  BY DEF IInv
<1>2. \* A step that leaves what Broadcast sees of every device.
      ASSUME dropped' = dropped, SameLinks(conn, conn'),
             \A d \in Connections : conn'[d].received = conn[d].received
      PROVE  UNCHANGED Promise!vars
  <2>1. Here' = Here
    BY <1>2 DEF Here, Served, SameLinks
  <2>2. \A d \in Here : Same(d)
    BY <1>2 DEF Here, Same, SameLinks
  <2> QED  BY <2>1, <2>2, Stays
<1>3. ASSUME NEW c \in Connections, NEW u \in Users, HandleClient(c, u) PROVE Promise!Next
  BY <1>3, JoinsHere
<1>4. ASSUME NEW c \in Connections, End(c) PROVE Promise!Next
  <2>1. /\ dropped' = dropped /\ conn'[c].pc = "ended"
        /\ \A d \in Connections \ {c} : conn'[d] = conn[d]
    BY <1>1, <1>4, EndChanges DEF End
  <2>2. Here' = Here \ {c} /\ \A d \in Here' : Same(d)
    BY <2>1 DEF Here, Served, Same
  <2> QED  BY <2>2, Leaves
<1>5. ASSUME NEW c \in Connections, Remove(c) PROVE UNCHANGED Promise!vars
  <2>1. /\ dropped' = dropped /\ conn[c].pc = "ended" /\ conn'[c].pc = "finished"
        /\ \A d \in Connections \ {c} : conn'[d] = conn[d]
    BY <1>1, <1>5, RemoveChanges DEF Remove
  <2>2. Here' = Here /\ \A d \in Here : Same(d)
    BY <2>1 DEF Here, Served, Same
  <2> QED  BY <2>2, Stays
<1>6. ASSUME NEW c \in Connections, NEW n \in Notifications, Answer(c, n)
      PROVE  UNCHANGED Promise!vars
  BY <1>1, <1>2, <1>6, AnswerChanges DEF Answer
<1>7. ASSUME NEW u \in Users, CloseConnections(u) PROVE Promise!Next
  BY <1>7, CloseTakes
<1>8. CASE StoreStatus
  BY <1>2, <1>8 DEF StoreStatus, SameLinks
<1>9. CASE SendUpdate
  <2>1. /\ dropped' = dropped /\ conn \in [Connections -> Conn] /\ updating \in Statuses
        /\ conn' = SendStatus(conn, Senders, updating)
    BY <1>1, <1>9 DEF SendUpdate, TypeOK
  <2> QED  BY <1>2, <2>1, SendStatusChanges
<1>10. ASSUME NEW n \in Notifications, Send(n) PROVE Promise!Next
  BY <1>10, SendReaches
<1>11. CASE UNCHANGED vars
  BY <1>2, <1>11 DEF vars, SameLinks
<1> QED  BY <1>3, <1>4, <1>5, <1>6, <1>7, <1>8, <1>9, <1>10, <1>11 DEF Next

\* Whatever channels, entries and forced closes are inside, the service is one
\* broadcast: websockets of a user join, leave or are closed, and send gives each
\* that is there what is for its user, and nothing else.
THEOREM ServiceBroadcasts == Spec => BroadcastSpec
<1>1. Init => Promise!Init
  <2> SUFFICES ASSUME Init PROVE Promise!Init
    OBVIOUS
  <2>1. {d \in Connections : Served(d)} = {}
    BY DEF Init, NewConn, Served
  <2> QED  BY <2>1 DEF Promise!Init
<1> QED  BY <1>1, Inductive, PromiseStep, PTL DEF Spec, BroadcastSpec, Promise!Spec
=============================================================================
