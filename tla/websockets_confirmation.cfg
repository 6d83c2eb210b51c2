CONSTANTS
  u1 = u1
  u2 = u2
  Users = {u1, u2}
  Connections = {c1, c2}
  Notifications <- MCNotifications
  MaxUpdates = 2
  None = None
SPECIFICATION Spec
INVARIANTS
  ResponseConfirmed
CHECK_DEADLOCK FALSE
