SPECIFICATION Spec
CONSTANTS
  Tx = {"t1", "t2", "t3"}
  Pushed = "t2"
  Posted = {"t1"}
  Legacy = {"t2"}
  Content = {"x", "y"}
  Request = {"pc", "u1", "u2", "pd", "m1"}
  OpOf <- MCOpOf
  MaxFaults = 1
INVARIANTS
  TypeOK
  AgreeUnlessRaced
  PostedHasEntries
PROPERTIES
  LinkSettles
CHECK_DEADLOCK FALSE
