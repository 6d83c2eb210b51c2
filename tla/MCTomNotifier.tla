--------------------------- MODULE MCTomNotifier ---------------------------
(***************************************************************************)
(* Instances of TomNotifier for TLC.                                       *)
(***************************************************************************)
EXTENDS TomNotifier, NotificationsRepositoryTests, TLC

CONSTANTS u1, u2, post, get1, get2, delete, confirm, d1

\* A broadcast, for good or until the first tick.
MCAudiences == {{}}

MCExpiries == {None, 1}

\* One notification; the fetches race each other and a deletion.
MCServes == (post :> {"save"}) @@ (get1 :> {"fetch"}) @@ (get2 :> {"fetch"})
              @@ (delete :> {"delete"}) @@ (confirm :> {"confirm"})

\* One websocket; what several change is in WebSocketsService.
MCUserOf == (d1 :> u1)

\* u1 has the websocket and fetches twice; u2 fetches and deletes.
MCCallers == (post :> {}) @@ (get1 :> {u1}) @@ (get2 :> {u1, u2}) @@ (delete :> {u2})
               @@ (confirm :> {u1, u2})
=============================================================================
