SPECIFICATION FairSpec
CONSTANTS
  NoRun = NoRun
  Runs = {r1}
  Dispatchers = {d1}
  SlowDispatchers = {d1}
  Workers = {w1, w2}
  SilentWorkers = {w1}
  SlowSweeper = TRUE
  MaxAttempts = 1
  MaxCopies = 1
PROPERTIES
  EveryRunEnds
CHECK_DEADLOCK FALSE
