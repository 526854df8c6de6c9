CONSTANTS
  Commands = {a}
  Timeout = 4
  MaxKeys = 1
  MaxTime = 5
SPECIFICATION Spec
INVARIANTS
  SuccessIsOwn
  TimeoutMeansSlow
CONSTRAINT UntilAnswered
CHECK_DEADLOCK FALSE
