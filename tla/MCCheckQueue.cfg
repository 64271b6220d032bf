SPECIFICATION Spec
CONSTANTS
  Worker = {w1, w2}
  Master = m
  Check = {c1, c2, c3, c4}
  Bad = {c1}
  BatchSize = 2
  MaxRounds = 2
  MaxStarts = 2
INVARIANTS VerdictRight NothingLeft
PROPERTIES WaitReturns StopReturns
CHECK_DEADLOCK FALSE
