SPECIFICATION Spec
CONSTANTS
  Procs = {p1, p2}
  Handlers = {"switch"}
  Mandates = {m1, m2}
  Invites = {i1}
  Plans = {1, 2}
  Kinds = {"activated", "halted", "cancelled"}
  MaxRequests = 4
  MaxEvents = 2
  MaxFaults = 0
  None = None
  p1 = p1
  p2 = p2
  m1 = m1
  m2 = m2
  i1 = i1
PROPERTY CancelledOnlyAsScheduled
CHECK_DEADLOCK FALSE
