SPECIFICATION Spec
CONSTANTS
  NoRun = NoRun
  Runs = {r1}
  Dispatchers = {d1}
  SlowDispatchers = {}
  Workers = {w1}
  SilentWorkers = {}
  SlowSweeper = FALSE
  MaxAttempts = 2
  MaxCopies = 1
SYMMETRY Symmetry
PROPERTIES
  RetryIsNotTurnedAway
CHECK_DEADLOCK FALSE
