----------------------- MODULE MCNotificationsService -----------------------
(***************************************************************************)
(* Instances of NotificationsService for TLC.                              *)
(***************************************************************************)
EXTENDS NotificationsService, CoreHttpTests, TLC

CONSTANTS u1, u2

\* A broadcast and a notification for u1 alone.
MCAudiences == {{}, {u1}}

\* Never, and right after the first tick.
MCExpiries == {None, 1}

\* Handlers are interchangeable, and so are the ids the driver invents.
Symmetry == Permutations(Requests) \cup Permutations(Ids)
=============================================================================
