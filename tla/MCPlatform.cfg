CONSTANTS
  Input <- MCInput
  Text = {"a"}
  Newline = "nl"
  Exits = {"zero", "other"}
  Signals = {"INT", "TERM"}
  MaxWrites = 1
  MaxReports = 1
  MaxSpawns = 2
  MaxSignals = 2
SPECIFICATION Spec
INVARIANTS
  InputsOnce
  HandleNamesItsJob
  OutputKept
