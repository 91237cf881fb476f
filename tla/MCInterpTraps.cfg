CONSTANTS
  Modes = {"interactive"}
  Signals = {"ERR", "DEBUG", "EXIT"}
  Options = {"errtrace"}
  MaxLevels = 1
  MaxCalls = 1
  MaxNest = 3
  MaxSet = 2
SPECIFICATION Spec
INVARIANTS
  NoSelfNesting
  NoTrapInCompletion
