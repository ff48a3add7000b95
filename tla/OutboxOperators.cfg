\* An event and its replay (or two events): an operator races a worker.
SPECIFICATION Spec
CONSTANTS
  Rows = {1, 2}
  Workers = {w1}
  Operators = {o1}
  Handlers = {h1}
  BatchSize = 2
  MaxAttempts = 1
  RetryGrant = 1
  AttemptCap = 2
  LedgerLoses = FALSE
  None = None
PROPERTIES LeaseRespected ImplementsDelivery
