SPECIFICATION FairSpec
CONSTANTS
  Devices = {d1, d2}
  Patches = {p1, p2}
  Limits = {1, 2}
  MaxPasses = 1
INVARIANT
  LimitHolds
PROPERTY
  RequestsEnd
