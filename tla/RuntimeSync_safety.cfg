SPECIFICATION Spec
CONSTANTS
  a1 = a1
  a2 = a2
  d1 = d1
  d2 = d2
  Devices <- MCDevices
  Accesses <- MCAccesses
  Owner <- MCOwners2
  BatchLimit = 1
  MaxVersion = 4
  MaxFaults = 2
  FaultsPerPass = 1
  MaxXrayExits = 1
  MaxRestarts = 1
INVARIANTS
  RevokedNotServed
  UsersHaveRules
  AgentKnowsXray
  UsersAreRouted
PROPERTY
  ImplementsOutbox
