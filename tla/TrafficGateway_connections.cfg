\* Two connections compete for one place; an account comes and goes.
SPECIFICATION GatewaySpec
CONSTANTS
  Connections = {c1, c2}
  Maximum = 1
  MinimumIdle = 1
  MaximumIdle = 2
  Customers = {u1}
  Limits = {5, 9}
  Absent = absent
  NoConfig = empty
  Flows = {f1}
  Posts = {p1, p2}
  MaxModels = 3
  MaxGatewayFaults = 2
INVARIANTS
  OutsideIsClosing
  NothingLeaks
  LimitersHold
  ReadyIsConfigured
PROPERTIES
  ConnectionsEnd
  LimitsFollow
