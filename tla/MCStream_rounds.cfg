SPECIFICATION Spec
CONSTANTS
  Slots = 3
  PoolCapacity = 2
  MaxEvents = 6
  Kinds <- AllKinds
  MayShutDown = TRUE
INVARIANTS
  TypeOK
  FirstRoundSafe
  PoolHasThread
  ExitsAfterReceiver
PROPERTIES
  DeletesEndedSenders
  EventsProcessed
  ShutdownCompletes
