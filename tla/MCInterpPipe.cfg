CONSTANTS
  Modes = {"cmdstring"}
  Signals = {}
  Options = {}
  MaxLevels = 1
  MaxCalls = 1
  MaxNest = 3
  MaxSet = 2
SPECIFICATION Spec
PROPERTIES
  PipelineContained
