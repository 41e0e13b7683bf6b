SPECIFICATION Spec
CONSTANTS
  MaxTime = 6
  Caller = {c1, c2}
  c1 = c1
  c2 = c2
  ServerUnavailable = 4
  OnlineCache = 2
  ProbeTimeout = 1
  PromptTimeout = 3
  UnlockSuppress = 2
  MaxPrompts = 2
INVARIANTS
  TypeOK
  FreshOnline
  LockedAfterAbsence
  UnlockReachable
PROPERTY
  ShortOutage
CONSTRAINT OneAtATime
CHECK_DEADLOCK FALSE
