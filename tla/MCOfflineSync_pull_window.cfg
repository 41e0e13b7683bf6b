SPECIFICATION Spec
CONSTANTS
  Row = {"t1", "c1"}
  KindOf <- MCKindOf
  Existing = {"t1", "c1"}
  Pinned = {}
  MaxEdits = 2
  MaxRemote = 1
  MaxFaults = 0
INVARIANT PullMissesNothing
CHECK_DEADLOCK FALSE
