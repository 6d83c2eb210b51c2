CONSTANTS
  Handlers = {r1}
  Clients = {c1, c2}
  Notifications = {n1, n2}
SPECIFICATION FairShutdownSpec
INVARIANTS
  ShutdownTypeOK
  NothingClosedInUse
  ConfirmationsKept
PROPERTIES
  ShutdownCompletes
CHECK_DEADLOCK FALSE
