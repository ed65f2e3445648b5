\* A review of an inspection is cancelled in the app; nothing fails.
CONSTANTS
  Services = {s1, s2}
  First = s1
  Web = {s1, s2}
  None = None
  App = app
  Cli = cli
  MaxTaps = 2
  MaxTrouble = 0
  MaxAsks = 3
  MayCancel = {"hand"}
  Overlap = FALSE
SPECIFICATION Spec
CHECK_DEADLOCK FALSE
INVARIANTS PausedIsHiddenAtAll
