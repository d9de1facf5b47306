SPECIFICATION Spec
CONSTANTS
  Radix = 8
  Lengths = {2, 6}
  Ids = {258}
  MaxSettings = 1
INVARIANT
  ResendLegible
CHECK_DEADLOCK FALSE
