\* One share; its operations overlap.
CONSTANTS
  Shares = {s1}
  Ports = {p1}
  Callers = {c1, c2}
  None = None
  Asking = Asking
  Late = Late
  MaxRestarts = 1
  MaxFaults = 1
  MaxEvents = 1
  Overlap = TRUE
SPECIFICATION FairSpec
CHECK_DEADLOCK FALSE
INVARIANTS PortsAccounted
PROPERTIES StartingEnds
