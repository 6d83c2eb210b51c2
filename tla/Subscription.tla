---------------------------- MODULE Subscription ----------------------------
(***************************************************************************)
(* What RabbitmqConsumer promises to who watches its status: nothing that  *)
(* the broker keeps for a consumer is set up again before the loss was     *)
(* told, and Consuming is told only after it was.                          *)
(***************************************************************************)
VARIABLES
  bound,  \* the broker has the consumer
  status  \* the last one told, or "Restored" when the next one is due

vars == <<bound, status>>

Init == bound = TRUE /\ status \in {"Consuming", "Restored"}

\* It may be lost unnoticed, and again before anything was told.
Lose ==
  /\ bound' = FALSE
  /\ status' \in {status, IF status = "Restored" THEN "Recovering" ELSE status}

TellRecovering ==
  /\ status = "Consuming" /\ ~bound
  /\ status' = "Recovering" /\ UNCHANGED bound

Restore ==
  /\ status = "Recovering" /\ ~bound
  /\ bound' = TRUE /\ status' = "Restored"

TellConsuming ==
  /\ status = "Restored"
  /\ status' = "Consuming" /\ UNCHANGED bound

Next == Lose \/ TellRecovering \/ Restore \/ TellConsuming

Spec == Init /\ [][Next]_vars
=============================================================================
