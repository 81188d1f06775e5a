SPECIFICATION FairSpec
CONSTANTS
  Users = {alice, bob}
  NoUser = NoUser
  MaxSessions = 2
  Requests = {q1, q2}
  Timers = {f1}
INVARIANTS
  TypeOK
  NothingSurvivesSignOut
  OneIdentity
PROPERTIES
  RequestsSettle
  EndedSessionIsLeft
CHECK_DEADLOCK FALSE
