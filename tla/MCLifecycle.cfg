CONSTANTS
  Clis = {a, b}
  Commands <- AllCommands
  MaxCommands = 3
  MaxOverlaps = 1
  MaxDaemons = 3
SPECIFICATION Spec
SYMMETRY Symmetry
INVARIANTS
  PidFileNamesDaemon
  StopStops
CHECK_DEADLOCK FALSE
