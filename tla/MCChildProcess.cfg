CONSTANTS
  Workers = {w}
  Kinds <- EveryKind
  Players = {s}
  Output = 2
  Capacity = 1
  MaxCalls = 3
SPECIFICATION Spec
INVARIANTS
  SignalsHitOwnChild
  NothingRunsAfterReturn
  SuccessIsComplete
PROPERTIES
  CallsReturn
CHECK_DEADLOCK FALSE
