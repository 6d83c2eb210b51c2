CONSTANTS
  n1 = n1
  n2 = n2
  u1 = u1
  u2 = u2
  Ids = {n1, n2}
  Users = {u1, u2}
  Updates <- MCUpdates
  Deliveries = {d1, d2, d3, d4}
  Lifespan = 1
  MaxTime = 3
  None = None
SYMMETRY Symmetry
SPECIFICATION Spec
INVARIANTS
  TypeOK
  PassedInOrder
  NewestSent
CHECK_DEADLOCK FALSE
