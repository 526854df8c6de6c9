CONSTANTS
  Procs = {p, q}
  Modes <- BothModes
  Selections <- OneOrTwo
  Target = 1
  MaxCalls = 2
SPECIFICATION Spec
SYMMETRY Symmetry
INVARIANTS
  PublishedUsable
  ReportedPublished
  NothingLeftBehind
  KilledCleanedUp
CHECK_DEADLOCK FALSE
