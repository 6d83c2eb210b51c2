CONSTANTS
  u1 = u1
  u2 = u2
  Users = {u1, u2}
  Connections = {c1, c2, c3}
  Notifications <- MCNotifications
  MaxUpdates = 3
  None = None
SYMMETRY Symmetry
SPECIFICATION Spec
INVARIANTS
  TypeOK
  MapExact
  StatusReaches
PROPERTIES
  BroadcastSpec
CHECK_DEADLOCK FALSE
