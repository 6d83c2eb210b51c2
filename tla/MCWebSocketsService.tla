------------------------ MODULE MCWebSocketsService ------------------------
(***************************************************************************)
(* Instances of WebSocketsService for TLC.                                 *)
(***************************************************************************)
EXTENDS WebSocketsService, DeliveryHttp, TLC

CONSTANTS u1, u2

\* A NEW for everybody and an update for one user.
MCNotifications == {[user_ids |-> {}, new |-> TRUE], [user_ids |-> {u1}, new |-> FALSE]}

Symmetry == Permutations(Connections)
=============================================================================
