CONSTANTS
  u1 = u1
  u2 = u2
  None = None
  Ids = {n1, n2}
  Users = {u1, u2}
  Producers = {p1}
  Pnids = {1}
  Requests = {r1, r2, r3, r4}
  MaxTime = 1
  Audiences <- MCAudiences
  Expiries <- MCExpiries
SYMMETRY Symmetry
SPECIFICATION Spec
INVARIANTS
  TypeOK
  OneConfirmation
  DeliveredOnRequest
  AnnouncementsTrue
  OneSucceeds
  ChangesAnnounced
PROPERTIES
  LifecycleSpec
CHECK_DEADLOCK FALSE
