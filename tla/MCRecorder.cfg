CONSTANTS
  MaxStarts = 3
  MaxSaves = 3
SPECIFICATION Spec
INVARIANTS
  EverythingOwned
  StreamEndVisible
  SavesExplained
PROPERTIES
  StreamEndNoticed
  CallsReturn
CHECK_DEADLOCK FALSE
