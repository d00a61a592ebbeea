SPECIFICATION FairHistorySpec
CONSTANTS
  g1 = g1
  g2 = g2
  g3 = g3
  leg = leg
  p1 = p1
  p2 = p2
  p3 = p3
  pleg = pleg
  NoSecret = NoSecret
  NoKey = NoKey
  NoAdmin = NoAdmin
  Keys = {k1, k2}
  Prefixes = {p1, p2, p3, pleg}
  StoredPrefix <- MCStoredPrefix
  LookupPrefix <- MCLookupPrefix
  Secrets = {g1, g2}
  Legacy = NoSecret
  Admins = {a1, a2}
  Clients = {}
  Reloaders = {r1}
  Expiries = {}
  MaxClock = 0
  MaxVersion = 2
  MaxCrashes = 0
INVARIANTS
  SnapshotIsOneReading
PROPERTIES
  EveryRequestReturns
CHECK_DEADLOCK FALSE
