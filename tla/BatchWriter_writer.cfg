SPECIFICATION FairSpec
CONSTANTS
  batch_size = 2
  Requeue = 2
  MaxStream = 6
  MaxErrors = 2
  MaxCrashes = 1
  MaxStops = 1
INVARIANTS
  MemoryBounded
  WrittenOnce
  NothingLost
PROPERTIES
  ConsumesOnce
  TicksHandled
CHECK_DEADLOCK FALSE
