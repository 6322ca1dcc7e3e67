SPECIFICATION ServicesSpec
CONSTANTS
  c1 = c1
  c2 = c2
  Chats = {c1, c2}
  ReadCount = 1
  MaxStream = 2
  MaxErrors = 2
  MaxCrashes = 1
  a = a
  b = b
  c = c
  Callers = {a, b, c}
  failure_threshold = 2
  half_open_max_calls = 2
  MaxFailures = 5
  MaxCancels = 2
INVARIANTS ToldOnce ClosedBelowThreshold SlotsHeld
PROPERTIES NoticesHandled Passage Recovers
CHECK_DEADLOCK FALSE
