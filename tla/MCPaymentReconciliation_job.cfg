SPECIFICATION FairSpec
CONSTANTS
  Slots = {r1, r2}
  Servers = 2
  Payments = {x1, x2}
  Batch = 1
  MaxAge = 3
  MaxFaults = 1
  None = None
  r1 = r1
  r2 = r2
  x1 = x1
  x2 = x2
INVARIANT TypeOK
INVARIANT RunsAreSerial
INVARIANT AbandonedOnlyIfMissed
PROPERTY EveryPaymentIsSettled
CHECK_DEADLOCK FALSE
