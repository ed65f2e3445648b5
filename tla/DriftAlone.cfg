\* Two tasks of one process, and others who edit.
CONSTANTS
  a = a b = b app = app k1 = k1 k2 = k2 o1 = o1
  Keys = {k1}
  Services = {o1}
  Tasks = {a, b}
  Procs = {app}
  ProcOf <- OneProcess
  MaxVersion = 4
  None = None
SPECIFICATION Spec
INVARIANTS Told
SYMMETRY Symmetry
