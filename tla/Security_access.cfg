\* Three requests, two of which are enough for a ban; two calls of setup and
\* two names; two owners, an administrator and a user, with two requests and a
\* call that makes a session, or a request and two calls of an owner and the user,
\* under way.
SPECIFICATION SecuritySpec
CONSTANTS
  Requests = {r1, r2, r3}
  Threshold = 2
  MaxDecisions = 3
  MaxFaults = 1
  NoBan = NoBan
  Setups = {b1, b2}
  Names = {n1, n2}
  MaxRuns = 1
  OwnerPeople = {o1, o2}
  AdminPeople = {ad1}
  UserPeople = {u1}
  Attempts = {a1, a2}
  Operations = {q1, q2}
  MaxActs = 2
  Callers = {o1, u1}
SYMMETRY Symmetry
INVARIANTS
  ThresholdBans
  DecisionStands
  SetupHolds
  SuspendedHasNoSession
  OldPasswordEnds
  OwnerRemains
  RedirectsEnd
\* Requests, calls and operations are finitely many and end.
CHECK_DEADLOCK FALSE
