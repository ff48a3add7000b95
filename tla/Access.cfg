SPECIFICATION Spec
CONSTANTS
  Users = {u1, u2}
  Tenants = {t1, t2}
  Invitations = {i1, i2}
  Roles = {g1}
  Requests = {r1, r2}
  Grants = {"users:manage"}
  MaxAgents = 1
  MaxRequests = 5
  None = None
INVARIANTS MembersAreProven InvitationUsedOnce 
PROPERTIES OnlyLostUpdatesBreakAccounts LimitOnlyByRace
SYMMETRY Symmetry
CHECK_DEADLOCK FALSE
