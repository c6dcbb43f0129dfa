CONSTANTS
  Cell <- MCCells
  NilCell = 0
  Arrays <- MCArrays
  Index <- MCIndex
  Counts <- MCCounts
SPECIFICATION SlotLoopsSpec
INVARIANT LoopsAsOneStep
CHECK_DEADLOCK FALSE
