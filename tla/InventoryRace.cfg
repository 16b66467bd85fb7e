CONSTANTS
  p1 = p1
  p2 = p2
  Products = {p1}
  Orders = {o1, o2}
  Calls = {c1, c2}
  None = None
  MaxInt = 1
  ItemLists <- AwkwardLists
  StockArgs <- Args
  Overlap = TRUE
SPECIFICATION FairSpec
INVARIANTS TypeOK NoCommittedPending ReservedHasRow RowsHaveProducts
PROPERTIES StockConserved EveryCallEnds
