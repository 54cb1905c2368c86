SPECIFICATION Spec
CONSTANTS
  a1 = a1
  a2 = a2
  d1 = d1
  d2 = d2
  Devices <- MCDevices
  Accesses <- MCOneAccess
  Owner <- MCOwner
  BatchLimit = 2
  MaxVersion = 4
  MaxFaults = 2
  FaultsPerPass = 2
  MaxXrayExits = 0
  MaxRestarts = 0
INVARIANT
  RevokedNotServed
