CONSTANTS
  Messages = {m1, m2}
  None = None
  MaxConnections = 3
  MaxThrottles = 1
  MaxChannelCloses = 1
  MaxNacks = 1
SPECIFICATION FairSpec
INVARIANTS
  TypeOK
  KeptOnce
  TagsAgree
  OnCurrentConnection
PROPERTIES
  ReliableSpec
  EventuallyStored
CHECK_DEADLOCK FALSE
