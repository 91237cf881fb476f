CONSTANTS
  Mount = {w, t, o}
  Outer = w
  Nested = t
  Apart = o
  At <- MCAt
  Writable = {w, o}
  MaxHops = 3
  None = None
  Proc = {p1}
  Paths <- MCLinkPaths
  Targets <- MCTargets
  HostData <- MCPlain
  MaxCalls = 3
SPECIFICATION Spec
INVARIANT
  LinksStayInMount
