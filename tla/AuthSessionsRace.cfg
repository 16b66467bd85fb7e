CONSTANTS
  Users = {u1}
  Tokens = {t1, t2, t3}
  Sessions = {s1, s2}
  Calls = {c1, c2}
  None = None
  TTL = 1
  Age = 2
  MaxTime = 1
SPECIFICATION Spec
SYMMETRY Symmetry
INVARIANTS TypeOK OneTokenPerSession ActiveTokenHasSession
PROPERTIES DeadTokensStayBarren SessionsAreFamilies
