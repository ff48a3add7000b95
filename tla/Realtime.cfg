SPECIFICATION MCSpec
CONSTANTS
  Clients = {c1}
  Events = {e1}
  Kinds = {"TICKET_CREATED", "TICKET_ASSIGNED", "TICKET_ESCALATED", "TICKET_RESOLVED", "INTERNAL", "REPLY", "QUESTION"}
  MaxFaults = 2
  MaxChanges = 1
  Nothing = Nothing
INVARIANTS ToldOrFailed RoomsAgree
PROPERTIES EvictionEnds
CHECK_DEADLOCK FALSE
