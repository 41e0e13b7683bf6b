SPECIFICATION Spec
CONSTANTS
  Post = {p1, p2, p3, p4}
  p1 = p1
  p2 = p2
  p3 = p3
  p4 = p4
  Same = {p1, p2}
  Twin = {p3, p4}
  None = None
  Hand = {h1}
  h1 = h1
  Dialog = {d1}
  d1 = d1
  MaxPending = 2
  MaxQueue = 2
  Settings <- MCSettings
  MaxKills = 1
SYMMETRY Alike
CONSTRAINT Few
INVARIANTS
  NoDoubleImport
  NothingLostSilently
  SkippedStaysOut
  ShownMatchesInbox
CHECK_DEADLOCK FALSE
