SPECIFICATION FairSpec
CONSTANTS
  Apis = {api}
  Workers = {wrk}
  Kinds = {"request", "tick", "job", "batch"}
  TTL = 1
  FirstMinute = 15
  LastMinute = 16
  MaxStarts = 2
  MaxWork = 1
  MaxStops = 1
  MaxFaults = 1
  None = None
INVARIANTS ResourcesOutliveWork NoOverlappingRuns
PROPERTIES ShutdownEnds RepeatsAreLate
CHECK_DEADLOCK FALSE
