SPECIFICATION FairSpec
CONSTANTS
  Orders = {o1}
  Procs = {p1, p2}
  Free = Free
  Handlers = {"verify", "webhook", "job", "refund"}
  Methods = {"RAZORPAY"}
  EventKinds = {"payment.captured", "payment.failed"}
  SettableStatuses = {"CANCELLED"}
  MaxRefunds = 1
  MaxFaults = 1
  SlowCalls = FALSE
CHECK_DEADLOCK FALSE
PROPERTIES
  CapturedIsConfirmed
  RefundLockIsReleased
