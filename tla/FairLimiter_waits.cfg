\* Five bytes are asked of a bucket of two: the rest is what time is worth, at
\* either of two rates or without a limit.
SPECIFICATION FairSpec
CONSTANTS
  bulk1 = bulk1
  bulk2 = bulk2
  urgent = urgent
  Requests <- MCRequests
  Size <- MCSize
  Priority <- MCPriority
  Rates = {0, 1, 2}
  MinimumCapacity = 2
  HalfSecond = 1
  Expiring = {bulk1}
  MaxChanges = 1
  MayStop = TRUE
  Burst = 2
INVARIANTS
  RateRespected
  QueuesHold
PROPERTY
  CallsReturn
