SPECIFICATION Spec
CONSTANTS
  Procs = {p1, p2}
  Items = {i1, i2}
  Customers = {u1}
  Plans <- MCPlans
  FirstPlan <- MCFirstPlan
  Overrides <- MCOverrides
  Earlier <- MCEarlier
  CouponUses <- MCCouponUses
  MaxMonth = 2
  MaxRequests = 3
  MaxFaults = 1
  None = None
  p1 = p1
  p2 = p2
  i1 = i1
  i2 = i2
  u1 = u1
SYMMETRY Symmetry
INVARIANT TypeOK
INVARIANT LimitsGiveWayToOverlaps
INVARIANT AlertsAreTold
CHECK_DEADLOCK FALSE
