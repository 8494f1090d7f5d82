SPECIFICATION MCSpec
CONSTANTS
  Procs = {p1, p2}
  Handlers = {"manual", "switch", "cancel"}
  Mandates = {m1, m2}
  Invites = {i1, i2}
  Plans = {1, 2}
  Kinds = {"activated", "halted", "cancelled", "completed"}
  MaxRequests = 2
  MaxEvents = 2
  MaxFaults = 1
  None = None
  p1 = p1
  p2 = p2
  m1 = m1
  m2 = m2
  i1 = i1
  i2 = i2
SYMMETRY Symmetry
INVARIANT TypeOK
INVARIANT StatusesAgree
INVARIANT ActiveIsAuthorised
INVARIANT SwitchesAreWhole
PROPERTY LateEventsResurrectNothing
CHECK_DEADLOCK FALSE
