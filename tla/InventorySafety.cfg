SPECIFICATION Spec
CONSTANTS
  NoRun = NoRun
  Runs = {r1}
  Dispatchers = {d1}
  SlowDispatchers = {d1}
  Workers = {w1, w2, w3}
  MaxAttempts = 2
  MaxCopies = 2
SYMMETRY Symmetry
INVARIANTS
  TypeOK
  OneScanner
  StopEndsRecording
PROPERTIES
  Implements
CHECK_DEADLOCK FALSE
