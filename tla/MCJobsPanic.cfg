CONSTANTS
  Proc = {p1}
  Work = {w1}
  MaxPipe = 1
  None = None
SPECIFICATION Spec
INVARIANTS
  NeverPanics
