SPECIFICATION FairSpec
CONSTANTS
  Addresses = {a1, a2}
  MaxChanges = 3
  MaxFaults = 3
  MaxOutages = 2
  None = {none}
  Unread = {unread}
INVARIANT
  HealthyIsEnforced
PROPERTY
  FirewallFollows
