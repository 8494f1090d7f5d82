SPECIFICATION Spec
CONSTANTS
  Orders = {o1}
  Procs = {p1, p2}
  Free = Free
  Handlers = {"verify", "webhook", "job", "status", "markPaid", "kitchen", "refund", "request"}
  Methods = {"RAZORPAY", "CASH"}
  EventKinds = {"payment.captured", "payment.failed"}
  SettableStatuses = {"OUT_FOR_DELIVERY", "CANCELLED"}
  MaxRefunds = 1
  MaxFaults = 1
  SlowCalls = FALSE
SYMMETRY Slots
CHECK_DEADLOCK FALSE
INVARIANTS
  TypeOK
  MoneyBehindEveryMark
  RefundsAreSerial
  RefundsAreAccounted
  KitchenCooksPaidOrders
  PaidOrdersAreAnnounced
PROPERTIES
  PaidEndsOnlyInRefund
  ImplementsLedger
