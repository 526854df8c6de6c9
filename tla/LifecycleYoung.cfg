CONSTANTS
  Clis = {a}
  Commands <- StartAndSave
  MaxCommands = 2
  MaxOverlaps = 0
  MaxDaemons = 1
SPECIFICATION Spec
INVARIANTS
  RequestsDoNotKill
CHECK_DEADLOCK FALSE
