SPECIFICATION Spec
CONSTANTS
  Users = {alice}
  NoUser = NoUser
  MaxSessions = 1
  Requests = {q1}
  Timers = {f1}
PROPERTIES
  LogoutReturnsToLogin
CHECK_DEADLOCK FALSE
