CONSTANTS
  p1 = p1
  p2 = p2
  Products = {p1}
  Orders = {o1}
  Calls = {c1, c2}
  None = None
  MaxInt = 3
  ItemLists <- AwkwardLists
  StockArgs <- Args
  Overlap = TRUE
SPECIFICATION Spec
PROPERTIES NoSecondReservation
