-------------------------- MODULE MCDeduplication --------------------------
(***************************************************************************)
(* Instances of Deduplication for TLC.                                     *)
(***************************************************************************)
EXTENDS Deduplication, TLC

CONSTANTS n1, n2, u1, u2

Update(i, users, t) == [id |-> i, user_ids |-> users, timestamp |-> t]

\* A broadcast, an UPDATED of each user and another notification.
MCUpdates ==
  {Update(n1, {}, 0), Update(n1, {u1}, 1), Update(n1, {u2}, 2), Update(n2, {u1}, 1)}

Symmetry == Permutations(Deliveries)
=============================================================================
