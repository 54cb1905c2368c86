SPECIFICATION Spec
CONSTANTS
  Devices = {d1, d2}
  Patches = {p1}
  Limits = {1, 2}
  MaxPasses = 0
INVARIANT
  ActiveWithinLimit
