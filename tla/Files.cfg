SPECIFICATION MCSpec
CONSTANTS
  Jobs = {1}
  Workers = {w1, w2}
  ClaimTake = 1
  ExpireTake = 1
  MaxBatches = 2
  MaxSlow = 1
  MaxFaults = 1
  Uploads = {"a1"}
  Calls = {c1, c2}
  Users = {"manager", "agent", "visitor"}
  Scanner = FALSE
  MaxMishaps = 1
  MaxMoves = 2
INVARIANTS ResultOfLatestClaim NoFileOutlivesItsJob RowsAndFilesAgree
PROPERTIES FollowsLifecycle ReportsAreServed AccessEnds
CHECK_DEADLOCK FALSE
