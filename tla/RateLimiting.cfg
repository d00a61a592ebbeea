SPECIFICATION Spec
CONSTANTS
  Keys = {ip1, ip2, ip3}
  Window = 2
  Max = 2
  MaxBuckets = 2
  MaxClock = 4
  MaxCount = 4
SYMMETRY MCSymmetry
INVARIANTS
  RateTypeOK
  MapBounded
  SlidingBound
PROPERTIES
  ImplementsQuota
CHECK_DEADLOCK FALSE
