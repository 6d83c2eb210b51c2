CONSTANTS
  Messages = {m1, m2}
  None = None
  MaxConnections = 2
  MaxCancels = 1
  MaxChannelCloses = 1
  MaxRequeues = 1
SPECIFICATION FairSpec
INVARIANTS
  TypeOK
  AnsweredOrKept
  ConsumingIsTrue
PROPERTIES
  EventuallyConcluded
  SubscriptionSpec
CHECK_DEADLOCK FALSE
