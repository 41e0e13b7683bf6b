SPECIFICATION Spec
CONSTANTS
  a = a  b = b  c = c  d = d  e = e  f = f
  Request = {a, b, c, d, e, f}
  Mixes <- MCMixes
  N = 2
  PlanTotal = 5
  Start <- MCStart
  Dates <- MCDates
  MaxFaults = 1
  Closing = {28, 31}
  DueDay = 31
  Amounts = {3}
  Discounts = {0, 1}
SYMMETRY Twins
INVARIANTS TypeOK ChargedOnce SplitAddsUp AnticipatedOnBill OnOneBill PaidIsPosted PaidMeansSettled
PROPERTIES PaidStays
CHECK_DEADLOCK FALSE
