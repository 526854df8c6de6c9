CONSTANTS
  ClipLength = 5
  BufferSafety = 1
  MaxLag = 1
  Rank <- InPairs
  MaxFragments = 11
  MaxBegun = 3
  MaxCuts = 1
  MaxSaves = 1
  MaxStarts = 2
  MaxErrors = 1
SPECIFICATION Spec
INVARIANTS
  StagedAsSelected
  ClipIsRecent
  NoSilentLoss
  RefusalExplained
CHECK_DEADLOCK FALSE
CONSTRAINT UntilLastSave
