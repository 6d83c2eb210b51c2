------------------------- MODULE RabbitmqConnection -------------------------
(***************************************************************************)
(* shared/rabbitmq_client: the task that keeps one connection alive        *)
(* (connection/state_machine.rs), the callback the broker calls            *)
(* (connection_callback.rs), and the network under them.                   *)
(*                                                                         *)
(* Connections are numbered in the order they are opened.  Other tasks     *)
(* only see what the watch channels hold: "connection" and "blocked".  A   *)
(* receiver of "connection" also has to know that it changed since it last *)
(* looked; the module that models the receiver keeps that flag.            *)
(***************************************************************************)
EXTENDS Integers

CONSTANTS
  None,          \* Option::None
  MaxConnections \* bound on the connections ever opened

VARIABLES
  conn_state,  \* StateMachine::state
  opened,      \* the number of the last connection that was opened
  link,        \* whether that one still works; all older ones are dead
  connection,  \* the value in connection_tx
  blocked      \* the value in blocked_tx

ConnStates == {"Ok", "ClosingConnection", "RestoringConnection", "RestoringCallback", "Stopped"}

TypeOK ==
  /\ conn_state \in ConnStates
  /\ opened \in Nat \ {0}
  /\ link \in {"up", "down"}
  /\ connection \in Nat \cup {None}
  /\ blocked \in BOOLEAN

\* RabbitmqConnection::new opens the first connection and registers the callback.
Init ==
  /\ conn_state = "Ok"
  /\ opened = 1
  /\ link = "up"
  /\ connection = 1
  /\ blocked = FALSE

-----------------------------------------------------------------------------
(* The network and the broker *)

Fail ==
  /\ link = "up" /\ opened < MaxConnections
  /\ link' = "down"
  /\ UNCHANGED <<conn_state, opened, connection, blocked>>

\* connection.blocked and connection.unblocked reach the callback once it is
\* registered.
Block(b) ==
  /\ conn_state = "Ok" /\ link = "up" /\ blocked # b
  /\ blocked' = b
  /\ UNCHANGED <<conn_state, opened, link, connection>>

-----------------------------------------------------------------------------
(* The task *)

\* listen_network_io_failure returns in Ok or in RestoringCallback.
NoticeFailure ==
  /\ conn_state \in {"Ok", "RestoringCallback"} /\ link = "down"
  /\ conn_state' = "ClosingConnection"
  /\ UNCHANGED <<opened, link, connection, blocked>>

\* Mutant: receivers are not told that the connection is gone.
ClosingConnection_Untold ==
  /\ conn_state = "ClosingConnection"
  /\ conn_state' = "RestoringConnection"
  /\ UNCHANGED <<opened, link, connection, blocked>>

ClosingConnection ==
  /\ conn_state = "ClosingConnection"
  /\ connection' = None
  /\ conn_state' = "RestoringConnection"
  /\ UNCHANGED <<opened, link, blocked>>

\* Attempts that fail change nothing: this is the one that succeeds.
RestoringConnection ==
  /\ conn_state = "RestoringConnection"
  /\ opened' = opened + 1
  /\ link' = "up"
  /\ blocked' = FALSE
  /\ conn_state' = "RestoringCallback"
  /\ UNCHANGED connection

\* The connection is handed out only with its callback; the select! is not
\* biased, so a failure may go unnoticed until Ok.
RestoringCallback ==
  /\ conn_state = "RestoringCallback"
  /\ connection' = opened
  /\ conn_state' = "Ok"
  /\ UNCHANGED <<opened, link, blocked>>

\* RabbitmqConnection::close, in whatever state the task is.
Stop ==
  /\ conn_state # "Stopped"
  /\ conn_state' = "Stopped"
  /\ link' = "down"
  /\ UNCHANGED <<opened, connection, blocked>>

Step == NoticeFailure \/ ClosingConnection \/ RestoringConnection \/ RestoringCallback

\* The steps that send through connection_tx.
Told == ClosingConnection \/ RestoringCallback
-----------------------------------------------------------------------------
\* Nobody can be handed a connection while another one replaces it: it is None
\* from before the next one is opened until that one has its callback.
NeverStale ==
  connection # None =>
    connection = opened /\ conn_state \in {"Ok", "ClosingConnection", "Stopped"}
=============================================================================
