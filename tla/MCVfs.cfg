CONSTANTS
  Mount = {w, t, o}
  Outer = w
  Nested = t
  Apart = o
  At <- MCAt
  Writable = {w, o}
  MaxHops = 3
  None = None
  Proc = {p1, p2}
  Paths <- MCPaths
  Targets <- MCTargets
  HostData <- MCOneLink
  MaxCalls = 2
SPECIFICATION Spec
SYMMETRY Symmetry
INVARIANTS
  FastPathAgrees
PROPERTIES
  LinkMeansTarget
  ReadOnlyUntouched
