SPECIFICATION FairSpec
CONSTANTS
  Ids = {k1}
  Callers = {c1, c2}
  QueueSize = 1
  MinInterval = 3
  Rest = 1
  MaxStall = 3
  MaxClock = 3
  MaxFailures = 1
  MaxRestarts = 1
INVARIANTS
  UsageTypeOK
  ReceivedIsKept
PROPERTIES
  EventsApart
  CloseReturns
  SentIsReceived
  LastUsedNeverBack
CHECK_DEADLOCK FALSE
