CONSTANTS
  Proc = {p1, p2}
  Work = {w1}
  MaxPipe = 2
  None = None
SPECIFICATION FairSpec
INVARIANTS
  IdsDistinct
  CurrentIsNewest
  NoProcessLost
PROPERTIES
  LeavesWhenEnded
  WaitAllWaits
  EndIsSeen
