CONSTANTS
  Messages = {m1, m2}
  None = None
  PingInterval = 3
  RetryInterval = 2
  RetryMaxCount = 1
  BufferSize = 1
  SocketBuffer = 2
  PingNumbers = 4
SPECIFICATION FairSpec
INVARIANTS
  TypeOK
  QueueInOrder
  InTurnUntilConfirmed
  GivenUpAfterAll
PROPERTIES
  UnresponsiveClosed
CHECK_DEADLOCK FALSE
