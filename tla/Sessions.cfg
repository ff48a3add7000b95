SPECIFICATION Spec
CONSTANTS
  Tokens = {t1, t2, t3}
  Calls = {c1, c2, c3}
  Threshold = 2
  None = None
SYMMETRY Symmetry
INVARIANTS SessionHasOneToken EndedIsFinal BarredGetNothing 
CHECK_DEADLOCK FALSE
