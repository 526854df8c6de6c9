CONSTANTS
  Callers = {listener, main}
  KeybindDebounce = 2
  None = None
  MaxTime = 3
  MaxRequests = 3
SPECIFICATION Spec
INVARIANTS
  AcceptedAccountedFor
  KeybindSpacing
PROPERTIES
  AcceptedEventuallyServed
  StopReturns
  ImplementsQueue
CHECK_DEADLOCK FALSE
