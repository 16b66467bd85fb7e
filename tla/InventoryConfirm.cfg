CONSTANTS
  p1 = p1
  p2 = p2
  Products = {p1}
  Orders = {o1}
  Calls = {c1}
  None = None
  MaxInt = 3
  ItemLists <- AwkwardLists
  StockArgs <- Args
  Overlap = FALSE
SPECIFICATION Spec
PROPERTIES ConfirmWritesOff
