CONSTANTS
  Modes = {"run"}
  Signals = {"ERR"}
  Options = {"errexit"}
  MaxLevels = 2
  MaxCalls = 1
  MaxNest = 4
  MaxSet = 2
SPECIFICATION Spec
INVARIANTS
  TypeOK
  Balanced
  QuietStaysQuiet
  ReturnHasTarget
PROPERTIES
  ExitSticks
