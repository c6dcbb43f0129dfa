CONSTANTS
  Ctx = {main, other}
  InitialCapacity = 2
  Capacities <- MCCapacities
  Garbage = junk
SPECIFICATION ContextStackSpec
INVARIANT StackSound
PROPERTY ImplementsLifo
CHECK_DEADLOCK FALSE
