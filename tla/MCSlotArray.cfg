CONSTANTS
  Cell = {nil, v}
  NilCell = nil
  Garbage = junk
  Addresses = {p, q}
  Index <- MCIndex
  InitialCapacity = 2
  Capacities <- MCCapacities
SPECIFICATION SlotArraySpec
INVARIANTS SlotsTypeOK BufferSound GrowthSound LiveRegistered NoStaleRoot
PROPERTY ImplementsSlotMemory
CHECK_DEADLOCK FALSE
