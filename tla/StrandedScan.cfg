SPECIFICATION Spec
CONSTANTS
  NoRun = NoRun
  Runs = {r1}
  Dispatchers = {d1}
  SlowDispatchers = {}
  Workers = {w1}
  MaxAttempts = 2
  MaxCopies = 2
SYMMETRY Symmetry
INVARIANTS
  WaitingScanIsNotForgotten
CHECK_DEADLOCK FALSE
