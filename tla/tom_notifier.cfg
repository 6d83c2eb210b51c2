CONSTANTS
  u1 = u1
  u2 = u2
  d1 = d1
  post = post
  get1 = get1
  get2 = get2
  delete = delete
  confirm = confirm
  None = None
  Nothing = Nothing
  Ids = {n1}
  Users = {u1, u2}
  Producers = {p1}
  Pnids = {1}
  Requests = {post, get1, get2, delete, confirm}
  Audiences <- MCAudiences
  Expiries <- MCExpiries
  MaxTime = 1
  Serves <- MCServes
  Devices = {d1}
  UserOf <- MCUserOf
  MayBeCut = {get1}
  Callers <- MCCallers
  MaxOutages = 1
SPECIFICATION Spec
INVARIANTS
  TypeOK
  NothingMissed
  ConfirmedWasReceived
CHECK_DEADLOCK FALSE
