SPECIFICATION Spec
CONSTANTS
  NoRun = NoRun
  Runs = {r1}
  Dispatchers = {d1}
  SlowDispatchers = {}
  Workers = {w1, w2}
  MaxAttempts = 2
  MaxCopies = 2
SYMMETRY Symmetry
INVARIANTS
  DuplicatesAreHarmless
CHECK_DEADLOCK FALSE
