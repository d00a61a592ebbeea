SPECIFICATION Spec
CONSTANTS
  Keys = {k1, k2}
  NoKey = NoKey
  NoDate = NoDate
  Zone = 480
  Expiries = {3}
  Picked = {}
  Stored = {}
  OthersDo = {"update", "delete"}
  MaxChanges = 3
  Slots = {x1, x2}
INVARIANTS
  PageTypeOK
  ChangesWhatWasListed
  OwnChangesListed
  ExpiryNeverDrifts
  ButtonsReturn
PROPERTIES
  SecretStays
SYMMETRY MCSymmetry
