\* Two changes asked of one process.
CONSTANTS
  k1 = k1 k2 = k2 k3 = k3 h1 = h1 h2 = h2 o1 = o1 o2 = o2
  w1 = w1 w2 = w2 t1 = t1 t2 = t2 a = a b = b app = app
  Keys = {k1, k3}
  Hosts = {h1, h2}
  HostOf <- OwnHosts
  Origins = {o1}
  People = {w1}
  Tunnels = {t1, t2}
  None = None
  Unset = Unset
  Elsewhere = Elsewhere
  Address = Address
  Created = Created
  Tasks = {a, b}
  Procs = {app}
  ProcOf <- OneProcess
  Intents <- AFew
  Found <- AnyTwo
  MaxFaults = 1
  MaxLost = 1
  MaxEdits = 0
  CanCrash = TRUE
SPECIFICATION FairSpec
CHECK_DEADLOCK FALSE
INVARIANTS Undisturbed
PROPERTIES ApplyEnds Implements
