CONSTANTS
  Path <- MCPath
  Fold <- MCFold
  Handle = {f1, f2}
  MaxMounts = 4
  SendLimit = 3
  FdRoom = 2
  ByteRoom = 5
  Nothing = Nothing
SPECIFICATION Spec
INVARIANTS
  SameNamespace
  RefusedForCause
