CONSTANTS
  Ports = {1, 2, 3}
  Callers = {c1}
  None = None
  MaxAsks = 4
  MaxTrouble = 2
SPECIFICATION FairSpec
INVARIANTS Adoptable ServiceKnown NotTwice NoPortLost
PROPERTIES NoGap StopStops
CHECK_DEADLOCK FALSE
