CONSTANTS
  Callers = {c1, c2}
  Daemons = {d1, d2}
  Opened = {}
  MayQuit = TRUE
  SeqMod = 4
  MaxSignals = 2
  MaxFailures = 1
  None = None
  c1 = c1
  c2 = c2
  d1 = d1
  d2 = d2
SPECIFICATION Spec
CHECK_DEADLOCK FALSE
SYMMETRY Symmetry
INVARIANTS
  JobsConserved
