SPECIFICATION Spec
CONSTANTS
  Procs = {p1, p2}
  Handlers = {"materialize", "pause", "disrupt", "request", "cancel"}
  Duration = 2
  Horizon = 5
  Closed = {2}
  Notice = 1
  MaxPause = 2
  MaxEdits = 2
  MaxFaults = 1
  QuietNights = TRUE
  JobNeverDown = FALSE
  PromptAnswers = FALSE
  OpenPauses = FALSE
  p1 = p1
  p2 = p2
SYMMETRY Slots
INVARIANT TypeOK
INVARIANT OneOrderPerDay
INVARIANT NeverMoreThanBought
INVARIANT CreditsAreBanked
INVARIANT MenuFollowsDeliveries
CHECK_DEADLOCK FALSE
