CONSTANTS
  Sizes <- MCSizes
  BufferWords = 4
  HeapWords = 12
SPECIFICATION AllocSpec
INVARIANTS WalkInStep ObjectsComplete ForwardingFound
CHECK_DEADLOCK FALSE
