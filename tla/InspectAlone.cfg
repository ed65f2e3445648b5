\* What people do does not overlap with the app's own tasks.
CONSTANTS
  Services = {s1, s2}
  First = s1
  Web = {s1, s2}
  None = None
  App = app
  Cli = cli
  MaxTaps = 2
  MaxTrouble = 2
  MaxAsks = 3
  MayCancel = {"cli"}
  Overlap = FALSE
SPECIFICATION FairSpec
CHECK_DEADLOCK FALSE
INVARIANTS WayBack OriginalKept PausedIsHidden
PROPERTIES OnlyTheirs SweptInTheEnd PauseTakes ResumeServes
