SPECIFICATION FairSpec
CONSTANTS
  Procs = {p1}
  Check = check
  EventKinds = {}
  MaxRequests = 0
  MaxFaults = 1
  None = None
  p1 = p1
PROPERTY PaidNeverStaysPending
CHECK_DEADLOCK FALSE
