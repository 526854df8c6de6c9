CONSTANTS
  Commands = {a}
  Timeout = 2
  MaxKeys = 1
  MaxTime = 3
SPECIFICATION Spec
INVARIANTS
  FailureIsOwn
CHECK_DEADLOCK FALSE
