SPECIFICATION Spec
CONSTANTS
  Procs = {p1}
  Handlers = {"materialize", "pause", "request", "cancel"}
  Duration = 4
  Horizon = 9
  Closed = {2}
  Notice = 1
  MaxPause = 2
  MaxEdits = 3
  MaxFaults = 0
  QuietNights = TRUE
  JobNeverDown = TRUE
  PromptAnswers = TRUE
  OpenPauses = TRUE
  p1 = p1
INVARIANT ExactlyAsBought
CHECK_DEADLOCK FALSE
