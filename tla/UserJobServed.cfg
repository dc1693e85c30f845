CONSTANTS
  Callers = {c1, c2, c3}
  Daemons = {d1}
  Opened = {d1}
  MayQuit = FALSE
  SeqMod = 4
  MaxSignals = 2
  MaxFailures = 0
  None = None
  c1 = c1
  c2 = c2
  c3 = c3
  d1 = d1
SPECIFICATION FairSpec
INVARIANTS
  TypeOK
  PopNonEmpty
  AnswerLag
PROPERTIES
  EveryCallReturns
