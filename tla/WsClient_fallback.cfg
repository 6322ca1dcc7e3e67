SPECIFICATION Spec
CONSTANTS
  Took = {1, 100}
  MaxFaults = 4
INVARIANT FallbackAfterLongFailure
CHECK_DEADLOCK FALSE
