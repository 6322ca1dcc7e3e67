SPECIFICATION Spec
CONSTANTS
  batch_size = 2
  Requeue = 2
  MaxStream = 3
  MaxErrors = 0
  MaxCrashes = 0
  MaxStops = 1
INVARIANTS
  StopFlushes
