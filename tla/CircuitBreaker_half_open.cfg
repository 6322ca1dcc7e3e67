SPECIFICATION FairBreakerSpec
CONSTANTS
  a = a
  b = b
  Callers = {a, b}
  failure_threshold = 5
  half_open_max_calls = 1
  MaxFailures = 6
  MaxCancels = 0
PROPERTY FailedProbeOpens
CHECK_DEADLOCK FALSE
