CONSTANTS
  p = p
  q = q
  Products = {p, q}
  Users = {u1, u2}
  Admins = {u2}
  OrderIds = {o1, o2}
  Calls = {c1, c2}
  None = None
  Reasons = {r1}
  Baskets <- MCBaskets
  Prices = {2}
  MaxInt = 2
  MaxCents = 7
SPECIFICATION Spec
SYMMETRY Symmetry
INVARIANTS TypeOK ItemsMatchTotal AnsweredIsWhole AnswerAddsUp
PROPERTIES TotalIsFinal CancelIsFinal
