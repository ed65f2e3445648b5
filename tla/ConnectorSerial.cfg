\* One caller at a time, under the fairness of the tokio runtime.
CONSTANTS
  Actors = {a1, a2}
  Pids = {p1, p2, p3}
  Callers = {c1}
  None = None
  Threshold = 2
  NudgeCheck = TRUE
  DiskFails = FALSE
SPECIFICATION FairSpec
INVARIANTS StoppedIsGone OneProcess WatchedIsRecorded
PROPERTIES LetGoOnlyDead StopEnds ComesBack NudgeActs
