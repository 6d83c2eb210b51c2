----------------------------- MODULE MCTickets -----------------------------
(***************************************************************************)
(* Instances of Tickets for TLC.                                           *)
(***************************************************************************)
EXTENDS Tickets, TLC

\* Handlers, users and random strings are interchangeable.
Symmetry == Permutations(Requests) \cup Permutations(TicketIds) \cup Permutations(Users)
=============================================================================
