SPECIFICATION Spec
CONSTANTS
  Tx = {"t1"}
  Pushed = "t1"
  Posted = {"t1"}
  Legacy = {}
  Content = {"x", "y"}
  Request = {"u1", "d1"}
  OpOf <- MCOpOf
  MaxFaults = 0
INVARIANTS
  BooksAgree
CHECK_DEADLOCK FALSE
