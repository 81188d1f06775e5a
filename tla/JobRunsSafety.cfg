SPECIFICATION Spec
CONSTANTS
  NoRun = NoRun
  Runs = {r1}
  Dispatchers = {d1, d2}
  SlowDispatchers = {d1, d2}
  Workers = {w1, w2}
  SilentWorkers = {w1, w2}
  SlowSweeper = TRUE
  MaxAttempts = 2
  MaxCopies = 2
SYMMETRY Symmetry
INVARIANTS
  TypeOK
  SingleExecution
  PendingIsDispatchable
  NoticesTellTheOutcome
PROPERTIES
  TerminalIsFinal
  Implements
CHECK_DEADLOCK FALSE
