SPECIFICATION Spec
CONSTANTS
  Took = {1, 100}
  MaxFaults = 8
INVARIANT ClientsClosed
PROPERTY FeedReturns
CHECK_DEADLOCK FALSE
