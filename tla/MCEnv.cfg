CONSTANTS
  Name = {x}
  Value = {v1, v2}
  Nothing = Nothing
  Requests <- MCRequests
  MaxScopes = 5
SPECIFICATION Spec
SYMMETRY Symmetry
INVARIANTS
  TypeOK
  PrefixReachesChild
PROPERTIES
  ReadonlyStays
  HiddenUntouched
