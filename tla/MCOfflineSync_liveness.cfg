SPECIFICATION FairSpec
CONSTANTS
  Row = {"c1", "a1"}
  KindOf <- MCKindOf
  Existing = {}
  Pinned = {"a1"}
  MaxEdits = 4
  MaxRemote = 0
  MaxFaults = 1
INVARIANTS
  NoSilentLoss
  StaleOnlyByKnownGaps
PROPERTY QueueSettles
CHECK_DEADLOCK FALSE
