SPECIFICATION Spec
CONSTANTS
  Probes = {q1, q2}
  CacheTTL = 2
  Timeout = 3
  MaxClock = 8
SYMMETRY MCSymmetry
INVARIANTS
  ReadyTypeOK
  AnswerRecent
CHECK_DEADLOCK FALSE
