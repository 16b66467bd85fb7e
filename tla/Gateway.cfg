CONSTANTS
  c1 = c1
  c2 = c2
  Requests = {c1, c2}
  Calls <- MCCalls
  Kids = {1, 2}
  Instances = {i1, i2}
  Tokens = {t1}
  None = None
  TTL = 1
  MaxTime = 1
SPECIFICATION FairSpec
INVARIANTS AccessTypeOK ActiveKeyIsOne NoFalseRefusal AnswersAreTrue
PROPERTIES LoggedOutIsRefused EveryRequestIsAnswered
