SPECIFICATION MCSpec
CONSTANTS
  User = {u1, u2}
  u1 = u1
  u2 = u2
  None = None
  Req = {r1}
  r1 = r1
  MaxIssued = 3
  MaxRestarts = 1
CONSTRAINT Undamaged
INVARIANTS
  SessionFollowsUser
  ScreenFollowsSession
  StoreFollowsCache
PROPERTY
  CallsEnd
CHECK_DEADLOCK FALSE
