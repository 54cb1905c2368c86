SPECIFICATION Spec
CONSTANTS
  Requests = {r1, r2, r3}
  Credentials = {c1}
  Hwids = {h1, h2}
  None = None
  Unknown = Unknown
  AddressLimit = 2
  CredentialLimit = 2
  MaxChanges = 1
SYMMETRY Symmetry
INVARIANTS
  OneDeviceServed
  RefusalIsRight
  RateHolds
\* Requests end, and so do the changes the model allows.
CHECK_DEADLOCK FALSE
