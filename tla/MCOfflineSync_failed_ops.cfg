SPECIFICATION Spec
CONSTANTS
  Row = {"t1", "c1"}
  KindOf <- MCKindOf
  Existing = {"t1"}
  Pinned = {}
  MaxEdits = 3
  MaxRemote = 0
  MaxFaults = 1
INVARIANT FailedOpsStayQueued
CHECK_DEADLOCK FALSE
