SPECIFICATION FairSpec
CONSTANTS
  Tx = {"t1", "t2", "t3"}
  Pushed = "t2"
  Posted = {"t1"}
  Legacy = {"t2"}
  Content = {"x"}
  Request = {"c1", "u1", "d1", "m1"}
  OpOf <- MCOpOf
  MaxFaults = 1
PROPERTIES
  RequestsFinish
CHECK_DEADLOCK FALSE
