CONSTANTS
  Callers = {c1, c2}
  Daemons = {d1}
  Opened = {d1}
  MayQuit = FALSE
  SeqMod = 4
  MaxSignals = 1
  MaxFailures = 0
  None = None
  c1 = c1
  c2 = c2
  d1 = d1
SPECIFICATION Spec
INVARIANT
  OwnAnswer
