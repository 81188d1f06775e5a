SPECIFICATION Spec
CONSTANTS
  NoRun = NoRun
  Runs = {r1}
  Dispatchers = {d1}
  SlowDispatchers = {}
  Workers = {w1}
  SilentWorkers = {w1}
  SlowSweeper = FALSE
  MaxAttempts = 2
  MaxCopies = 1
SYMMETRY Symmetry
PROPERTIES
  NoLiveRunFailed
CHECK_DEADLOCK FALSE
