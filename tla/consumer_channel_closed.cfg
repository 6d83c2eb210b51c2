CONSTANTS
  Messages = {m1}
  None = None
  MaxConnections = 1
  MaxCancels = 1
  MaxChannelCloses = 1
  MaxRequeues = 1
SPECIFICATION FairSpec
PROPERTIES
  IssuesDetected
CHECK_DEADLOCK FALSE
