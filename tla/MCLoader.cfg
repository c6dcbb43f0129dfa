CONSTANTS
  Files <- MCFiles
  Counts <- MCCounts
SPECIFICATION StartSpec
INVARIANTS LoadTypeOK InStep SectionsFound StartedComplete SilentFailures
CHECK_DEADLOCK FALSE
