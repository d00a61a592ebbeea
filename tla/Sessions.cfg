SPECIFICATION Spec
CONSTANTS
  NoToken = NoToken
  Requests = {r1, r2}
  Tokens = {t1, t2, t3, t4, t5}
  TTL = 2
  MaxSessions = 3
  MaxStall = 1
  MaxClock = 3
SYMMETRY MCSymmetry
INVARIANTS
  SessionTypeOK
  LoggedOutNotServed
  SurvivesFewLogins
CHECK_DEADLOCK FALSE
