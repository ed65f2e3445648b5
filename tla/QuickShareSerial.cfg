\* Two shares, one after the other on a port; the operations on a share do not overlap.
CONSTANTS
  Shares = {s1, s2}
  Ports = {p1}
  Callers = {c1}
  None = None
  Asking = Asking
  Late = Late
  MaxRestarts = 1
  MaxFaults = 0
  MaxEvents = 0
  Overlap = FALSE
SPECIFICATION Spec
CHECK_DEADLOCK FALSE
SYMMETRY Symmetry
INVARIANTS OwnPort NothingForgotten Forwards OwnAddress
