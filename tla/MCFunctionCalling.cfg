SPECIFICATION RunSpec
CONSTANTS
  Externals <- TheExternals
  Starts <- CheckedStarts
  Depth = 3
  Called = {"m"}
INVARIANTS StagedCompiles OneWrapper Finished AttemptsBounded ErrorsJustified
PROPERTIES Preserves
CHECK_DEADLOCK FALSE
