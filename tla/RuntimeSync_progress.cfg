SPECIFICATION FairSpec
CONSTANTS
  a1 = a1
  a2 = a2
  d1 = d1
  d2 = d2
  Devices <- MCOneDevice
  Accesses <- MCOneAccess
  Owner <- MCOneOwner
  BatchLimit = 1
  MaxVersion = 4
  MaxFaults = 1
  FaultsPerPass = 1
  MaxXrayExits = 1
  MaxRestarts = 1
PROPERTIES
  CommandsSettle
  Converges
