SPECIFICATION Spec
CONSTANTS
  LogRuns = {r1, r2}
  NoLogRun = NoLogRun
  LogSockets = {s1, s2}
  NoLogSocket = NoLogSocket
  MaxLogEntries = 1
  TermSockets = {t1, t2, t3}
  NoTermSocket = NoTermSocket
  Scripts = {a, b}
  NoScript = NoScript
  MaxRevisions = 2
  Records = {x, y}
  NoRecord = NoRecord
  MaxWrites = 2
  CronMinutes = {0}
  CronHours = {2, 23}
  CronDays = {1, 31}
  CronWeekdays = {1, 6, 7}
  SourceRuns = {run1, run2}
  Reaudits = {again1, again2}
  NoRun = NoRun
INVARIANTS
  TypeOK
  NoLineTwice
  OwnLinesOnly
  NeverCutOff
  ConsoleTellsItsSession
  SavedIntoItsOwnScript
  CleanMeansSaved
  UpdateNeverCrosses
  ListCatchesUp
  ScheduleSurvivesEditing
  WorkflowOfItsRun
  DoneByItsReaudit
PROPERTIES
  EveryLineShown
  TypedTextSurvives
CHECK_DEADLOCK FALSE
