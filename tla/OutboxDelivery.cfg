\* One event, two workers, two handlers: crashes, leases, ledger loss; no event is stuck.
SPECIFICATION FairSpec
CONSTANTS
  Rows = {1}
  Workers = {w1, w2}
  Operators = {}
  Handlers = {h1, h2}
  BatchSize = 1
  MaxAttempts = 2
  RetryGrant = 1
  AttemptCap = 2
  LedgerLoses = TRUE
  None = None
INVARIANTS AtLeastOnce LeaseFencing
 
