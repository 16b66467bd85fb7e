CONSTANTS
  p1 = p1
  p2 = p2
  Products = {p1, p2}
  Orders = {o1, o2}
  Calls = {c1, c2}
  None = None
  MaxInt = 2
  ItemLists <- OpposedLists
  StockArgs <- Args
  Overlap = FALSE
SPECIFICATION Spec
SYMMETRY CallAndOrderSymmetry
INVARIANTS ReservedIsHeld
PROPERTIES ReleaseIsComplete IsLedger
