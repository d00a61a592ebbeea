SPECIFICATION Spec
CONSTANTS
  Probes = {q1, q2}
  CacheTTL = 2
  Timeout = 3
  MaxClock = 4
SYMMETRY MCSymmetry
INVARIANTS
  UnavailableIsBackends
CHECK_DEADLOCK FALSE
