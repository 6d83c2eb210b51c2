----------------------- MODULE NotificationLifecycle -----------------------
(***************************************************************************)
(* What tom-notifier-core promises about one notification and one user,    *)
(* whatever handlers, confirmations and instances run concurrently: the    *)
(* notification becomes undelivered for its whole audience at once, is     *)
(* delivered to each of its recipients at most once, can then be seen and  *)
(* unseen, and once deleted by the user never comes back to him.           *)
(***************************************************************************)
CONSTANTS Ids, Users

VARIABLE status

Stage == {"absent", "undelivered", "delivered", "seen", "deleted"}

TypeOK == status \in [Ids \X Users -> Stage]

Init == status = [x \in Ids \X Users |-> "absent"]

\* POST: the audience is fixed when the notification is created.
Create(i) ==
  /\ \A u \in Users : status[<<i, u>>] = "absent"
  /\ \E audience \in (SUBSET Users) \ {{}} :
       status' = [x \in Ids \X Users |->
                    IF x[1] = i /\ x[2] \in audience THEN "undelivered"
                                                     ELSE status[x]]

\* GET undelivered, or a confirmation from RabbitMQ.
Deliver(x) ==
  /\ status[x] = "undelivered"
  /\ status' = [status EXCEPT ![x] = "delivered"]

\* PUT seen.
SetSeen(x) ==
  /\ status[x] \in {"delivered", "seen"}
  /\ \E s \in {"delivered", "seen"} : status' = [status EXCEPT ![x] = s]

\* DELETE.
Delete(x) ==
  /\ status[x] \in {"delivered", "seen"}
  /\ status' = [status EXCEPT ![x] = "deleted"]

Next ==
  \/ \E i \in Ids : Create(i)
  \/ \E x \in Ids \X Users : Deliver(x) \/ SetSeen(x) \/ Delete(x)

Spec == Init /\ [][Next]_status
=============================================================================
