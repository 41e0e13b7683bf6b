SPECIFICATION Spec
CONSTANTS
  Row = {"t1", "t2"}
  KindOf <- MCKindOf
  Existing = {}
  Pinned = {}
  MaxEdits = 4
  MaxRemote = 1
  MaxFaults = 1
INVARIANTS
  TypeOK
  NoSilentLoss
  SyncedMeansStored
  StaleOnlyByKnownGaps
  UnsyncedCopyIsCovered
PROPERTY ImplementsDeliveryQueue
CHECK_DEADLOCK FALSE
