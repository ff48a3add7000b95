\* A request of every kind, a manager and the overdue-ticket job on one ticket.
SPECIFICATION MCSpec
CONSTANTS
  Ids = {t1}
  Agents = {a1}
  Requests = {r1, r2}
  Managers = {m1}
  Job = job
  Ops = {"assign", "status", "reply", "update", "escalate"}
  Horizon = 1
  LastNow = 2
  MaxFaults = 1
  None = None
INVARIANT OutcomeRecorded
PROPERTIES OnlyLostUpdatesBreakWorkflow OverdueIsMarked
CHECK_DEADLOCK FALSE
