CONSTANTS
  Procs = {p, q}
  HandWritten <- Files
  DefaultDirectory = "out"
  MaxBegun = 3
  MaxFaults = 1
SPECIFICATION SettingsSpec
SYMMETRY Symmetry
INVARIANTS
  WrittenIsRead
  ChangesSurvive
CHECK_DEADLOCK FALSE
