SPECIFICATION Spec
CONSTANTS
  Ids = {t1}
  Agents = {}
  Requests = {r1}
  Managers = {}
  Job = job
  Ops = {"status"}
  Horizon = 1
  LastNow = 0
  MaxFaults = 0
  None = None
INVARIANT ReopenedIsNotResolved
CHECK_DEADLOCK FALSE
