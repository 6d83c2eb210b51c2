CONSTANTS
  TicketIds = {t1, t2}
  Users = {u1, u2}
  Requests = {r1, r2, r3, r4, r5}
  None = None
  Lifespan = 1
  MaxTime = 2
SYMMETRY Symmetry
SPECIFICATION Spec
INVARIANTS
  TypeOK
  SingleUse
  UsedInTime
CHECK_DEADLOCK FALSE
