CONSTANTS
  Mount = {w, t}
  Outer = w
  Inner = t
  At <- MCAt
  Writable = {w}
  MaxHops = 3
  None = None
  Root <- MCRoot
  Opts <- MCOpts
  Device <- MCDevice
  HostData <- MCHost
  Places <- MCPlaces
  Targets <- MCTargets
  MaxChanges = 2
SPECIFICATION Spec
INVARIANTS
  StaysBeneath
  NoLoop
  NothingLost
PROPERTIES
  InOrder
  Terminates
