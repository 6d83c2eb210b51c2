----------------------------- MODULE Broadcast -----------------------------
(***************************************************************************)
(* What WebSocketsService promises: a notification is given at once to     *)
(* every device of its users that is connected, and to no other; a device  *)
(* that stays connected loses nothing it was given.                        *)
(***************************************************************************)
CONSTANTS Devices, Users, Notifications

VARIABLES
  user,  \* who is at each device that is connected
  got    \* what each of them was given since it connected

vars == <<user, got>>

Connected == DOMAIN user

\* A notification for nobody in particular is for everybody.
Recipient(n, u) == n.user_ids = {} \/ u \in n.user_ids

Init == user = [d \in {} |-> {}] /\ got = [d \in {} |-> {}]

Connect(d, u) ==
  /\ d \notin Connected
  /\ user' = [e \in Connected \cup {d} |-> IF e = d THEN u ELSE user[e]]
  /\ got' = [e \in Connected \cup {d} |-> IF e = d THEN {} ELSE got[e]]

\* By themselves, or closed together.
Leave(leaving) ==
  /\ user' = [d \in Connected \ leaving |-> user[d]]
  /\ got' = [d \in Connected \ leaving |-> got[d]]

Send(n) ==
  /\ got' = [d \in Connected |-> got[d] \cup {m \in {n} : Recipient(m, user[d])}]
  /\ UNCHANGED user

Next ==
  \/ \E d \in Devices, u \in Users : Connect(d, u)
  \/ \E leaving \in SUBSET Devices : Leave(leaving)
  \/ \E n \in Notifications : Send(n)

Spec == Init /\ [][Next]_vars
=============================================================================
