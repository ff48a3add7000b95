SPECIFICATION MCSpec
CONSTANTS
    None = None
    Tenants = {t1, t2}
    Numbers = {n1}
    Managers = {q1, q2}
    MaxManaging = 4
    Rows = {i1, i2}
    Runs = {w1, w2}
    TicketIds = {k1, k2}
    MaxClaims = 3
    MaxFaults = 1
SYMMETRY Symmetry
INVARIANTS
    
    RowTellsTheTruth
    ThreadsAreOne
PROPERTY
    TerminalStays
