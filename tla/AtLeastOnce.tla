---------------------------- MODULE AtLeastOnce ----------------------------
(***************************************************************************)
(* What RabbitmqProducer::send promises: a message it was given waits      *)
(* until the broker has it, and only closing the producer gives it up.     *)
(***************************************************************************)
CONSTANT Messages

VARIABLES
  waiting,  \* given to the producer, not known to the broker
  stored,   \* known to the broker
  closed

vars == <<waiting, stored, closed>>

Init == waiting = {} /\ stored = {} /\ closed = FALSE

Send(m) ==
  /\ ~closed /\ m \notin waiting \cup stored
  /\ waiting' = waiting \cup {m}
  /\ UNCHANGED <<stored, closed>>

Store(m) ==
  /\ m \in waiting
  /\ waiting' = waiting \ {m}
  /\ stored' = stored \cup {m}
  /\ UNCHANGED closed

Close ==
  /\ closed' = TRUE /\ waiting' = {}
  /\ UNCHANGED stored

Next == Close \/ \E m \in Messages : Send(m) \/ Store(m)

Spec == Init /\ [][Next]_vars
=============================================================================
