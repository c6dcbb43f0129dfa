CONSTANTS
  Records <- MCKeys
  Keys <- MCKeys
  KeyOf <- MCKeyOf
  HashFunctions <- MCHashFunctions
  InitialBuckets = 2
  Threshold = 3
  MaxItems = 9
SPECIFICATION HashTableSpec
INVARIANTS ChainsSound ChainBound
PROPERTY ImplementsKeyed
CHECK_DEADLOCK FALSE
