SPECIFICATION FairSpec
CONSTANTS
  Names = {chip, dividends, technicals, valuation}
  MaxSlots = 2
INVARIANTS
  DeepDiveTypeOK
  InFlightBounded
  AllAccountedFor
  EmptyIsBackends
PROPERTIES
  CallReturns
CHECK_DEADLOCK FALSE
