SPECIFICATION Spec
CONSTANTS
  Procs = {p1}
  Handlers = {"materialize", "pause"}
  Duration = 2
  Horizon = 7
  Closed = {3}
  Notice = 1
  MaxPause = 1
  MaxEdits = 2
  MaxFaults = 0
  QuietNights = TRUE
  JobNeverDown = TRUE
  PromptAnswers = TRUE
  OpenPauses = TRUE
  p1 = p1
INVARIANT ClosedDaysAreBankedOnce
CHECK_DEADLOCK FALSE
