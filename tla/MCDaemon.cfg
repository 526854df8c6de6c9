CONSTANTS
  None = None
  MaxSignals = 2
  MaxReselects = 2
  MaxKeys = 1
  MaxArrivals = 3
SPECIFICATION Spec
INVARIANTS
  ThreadsGoneBeforeRecorder
  LastStatusIsFinal
  ReplacedUnderKeybindOnly
PROPERTIES
  SaveSignalAnswered
  ReselectionHonoured
  ShutdownCompletes
  OutcomeReachesFile
CHECK_DEADLOCK FALSE
