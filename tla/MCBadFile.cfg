CONSTANTS
  Files <- BadFiles
  Counts <- MCCounts
SPECIFICATION StartSpec
INVARIANT FailureReported
CHECK_DEADLOCK FALSE
