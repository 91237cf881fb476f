CONSTANTS
  Dispatch = {d1, d2}
  Hand = {h1}
  HandTold = {0}
  Executor = {d2}
  SessionOf <- MCSessionOf
  Identity = Identity
  MaxLeft = 1
  None = None
SPECIFICATION FairSpec
INVARIANTS
  OnlyItsChild
  NeverUnconfined
  RendezvousStands
  StrangerIsByHand
  NoMutualWait
  NoLitter
  ServeErrorMeansNothingRan
PROPERTIES
  ImplementsHandover
  DispatchReturns
  ChildDecided
