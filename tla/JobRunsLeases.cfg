SPECIFICATION Spec
CONSTANTS
  NoRun = NoRun
  Runs = {r1}
  Dispatchers = {d1, d2}
  SlowDispatchers = {}
  Workers = {w1, w2}
  SilentWorkers = {}
  SlowSweeper = FALSE
  MaxAttempts = 2
  MaxCopies = 2
SYMMETRY Symmetry
INVARIANTS
  LeaseExclusive
PROPERTIES
  NoLiveRunFailed
CHECK_DEADLOCK FALSE
