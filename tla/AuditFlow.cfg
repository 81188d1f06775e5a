SPECIFICATION Spec
CONSTANTS
  Runs = {r1, r2}
  NewRunId = r1
  Profiles = {p1}
  NoProfile = NoProfile
  Deliveries = {d1, d2}
  NoActive = NoActive
  Edited = {r1}
  MaxAsked = 2
  MaxAskedOfScan = 1
INVARIANTS
  TypeOK
  PreviewIsRight
  AnswersLandInTheirRun
  CancelStopsScan
  LaunchedOnce
PROPERTIES
  LaunchedAsShown
  ShownRunEnds
  ScanEnds
CHECK_DEADLOCK FALSE
