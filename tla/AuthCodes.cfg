CONSTANTS
  u1 = u1
  Users = {u1}
  Emails = {e1}
  Account <- OneAccount
  Codes = {r1, r2}
  Calls = {c1, c2}
  None = None
  Cooldown = 1
  Hour = 1
  Day = 1
  MaxTime = 2
SPECIFICATION CodesSpec
SYMMETRY Symmetry
CONSTRAINT SomethingPromised
INVARIANTS CodesTypeOK CodesAreSpaced CodesWorkOnce OldPasswordIsOut
PROPERTIES DeadCodesStayDead CodesLiveTheirTime
