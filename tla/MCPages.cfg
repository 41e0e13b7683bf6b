SPECIFICATION PagesSpec
CONSTANTS
  None = None
  Ids = {1, 2}
  PAGE_SIZE = 1
  MaxLoads = 2
  Cards = {c1, c2}
  MaxCardChanges = 2
  MaxBillLoads = 2
  Products = {p1, p2}
  Edits = {e1, e2}
  MaxChanges = 2
  MaxTasks = 2
CONSTRAINT Few
SYMMETRY Alike
INVARIANTS ListMatchesFilter EditKeepsType BillsOfSelectedCard ReviewKept OwnChangeShown
CHECK_DEADLOCK FALSE
