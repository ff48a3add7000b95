SPECIFICATION MCSpec
CONSTANTS
    Jobs = {j1, j2}
    ForcedOn = {"summarize"}
    ForcedOff = {}
    InRollout = {"ticket", "tenant"}
    Managed = {"auto-escalation"}
    MaxEdits = 1
    MaxFlagChanges = 1
    MaxMishaps = 1
SYMMETRY Symmetry
INVARIANTS
    OptInOnly
    
