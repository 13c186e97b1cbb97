SPECIFICATION Spec
CONSTANTS
  Slots = 3
  PoolCapacity = 3
  MaxEvents = 3
  Kinds <- OnlyUpdates
  MayShutDown = FALSE
INVARIANTS
  MemorySafe
