SPECIFICATION Spec
CONSTANTS
  g1 = g1
  g2 = g2
  g3 = g3
  leg = leg
  p1 = p1
  p2 = p2
  p3 = p3
  pleg = pleg
  NoSecret = NoSecret
  NoKey = NoKey
  NoAdmin = NoAdmin
  Keys = {k1, k2}
  Prefixes = {p1, p2, p3, pleg}
  StoredPrefix <- MCStoredPrefix
  LookupPrefix <- MCLookupPrefix
  Secrets = {g1, leg}
  Legacy = leg
  Admins = {a1}
  Clients = {c1}
  Reloaders = {}
  Expiries = {1}
  MaxClock = 1
  MaxVersion = 4
  MaxCrashes = 1
SYMMETRY MCSymmetry
INVARIANTS
  RevokedNeverAccepted
CHECK_DEADLOCK FALSE
