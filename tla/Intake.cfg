SPECIFICATION FairSpec
CONSTANTS
  Requests = {r1, r2}
  Customers = {c1}
  Editors = {e1}
  Admins = {a1}
  Limits = {1, 2}
  LastDay = 1
  None = None
INVARIANTS DailyLimit NoOrphans
PROPERTIES ImplementsRegister EveryRequestEnds
CHECK_DEADLOCK FALSE
