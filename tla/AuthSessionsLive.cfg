CONSTANTS
  Users = {u1}
  Tokens = {t1, t2, t3}
  Sessions = {s1}
  Calls = {c1}
  None = None
  TTL = 2
  Age = 2
  MaxTime = 4
SPECIFICATION FairSpec
INVARIANTS ActiveTokenHasSession
PROPERTIES GarbageIsCollected
