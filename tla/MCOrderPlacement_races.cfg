SPECIFICATION MCSpec
CONSTANTS
  Procs = {p1, p2}
  Handlers = {"dineIn", "seat", "cancelEntry", "addItems", "move", "settle",
              "update", "closeTable", "checkout", "phone",
              "pay"}
  Orders = {o1, o2, o3}
  Tables = {t1}
  Parties = {e1}
  DailyLimit = 1
  MaxPlates = 1
  MaxRequests = 4
  MaxFaults = 1
  None = None
  p1 = p1
  p2 = p2
  o1 = o1
  o2 = o2
  o3 = o3
  t1 = t1
  e1 = e1
SYMMETRY Symmetry
INVARIANT TypeOK
INVARIANT BillsPerTable
INVARIANT NotOversold
INVARIANT SeatedOnce
INVARIANT ClaimsAreSettled
CHECK_DEADLOCK FALSE
