------------------------------ MODULE Mailbox ------------------------------
(***************************************************************************)
(* What WebSocketConnection promises: what is put into it waits until the  *)
(* client has read it, or until the websocket ends.                        *)
(***************************************************************************)
CONSTANT Messages

VARIABLES
  inbox,     \* put into the channel, not read yet
  received,  \* read by the client
  open       \* the websocket still takes messages

vars == <<inbox, received, open>>

Init == inbox = {} /\ received = {} /\ open = TRUE

Put(m) ==
  /\ open
  /\ inbox' = inbox \cup {m}
  /\ UNCHANGED <<received, open>>

\* Also what was in the socket when the websocket ended.
Read(m) ==
  /\ m \in inbox
  /\ inbox' = inbox \ {m}
  /\ received' = received \cup {m}
  /\ UNCHANGED open

\* Once it ends, what it holds may be lost, at once or later.
End ==
  /\ open' = FALSE
  /\ inbox' \in SUBSET inbox
  /\ UNCHANGED received

Next == End \/ \E m \in Messages : Put(m) \/ Read(m)

Spec == Init /\ [][Next]_vars
=============================================================================
