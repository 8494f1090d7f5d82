SPECIFICATION FairSpec
CONSTANTS
  Procs = {p1, p2}
  Check = check
  EventKinds = {"payment.captured"}
  MaxRequests = 2
  MaxFaults = 1
  None = None
  p1 = p1
  p2 = p2
INVARIANT TypeOK
INVARIANT ActivatedOnce
INVARIANT ActiveIsPaid
INVARIANT PaidIsServed
INVARIANT RefundsAreSerial
PROPERTY PaymentsAreFound
CHECK_DEADLOCK FALSE
